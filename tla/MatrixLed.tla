----------------------------- MODULE MatrixLed ------------------------------
(***************************************************************************)
(* The scan of the LED matrix (display/matrix_led.scala): one row at a     *)
(* time, with a guard interval around each change in which none is lit.    *)
(***************************************************************************)
EXTENDS Integers

CONSTANTS
    rows, refreshInterval, refreshGuardInterval,
    Columns         \* what a row may show

(* The interval has room for both guards, or the circuit does not build.   *)
(* Without any guard the branch that turns the row hides the one that      *)
(* restarts the counter.                                                   *)
ASSUME MatrixAssumption ==
    /\ rows \in Nat \ {0} /\ refreshGuardInterval \in Nat \ {0}
    /\ refreshInterval \in Nat /\ refreshInterval > 2 * refreshGuardInterval

VARIABLES
    refreshCounter,
    rowReg,         \* the rows whose bit is set
    matrix,         \* what each row is to show: an input
    lastRow, dark   \* history: the row lit last, and the cycles since

matrixVars == <<refreshCounter, rowReg, matrix, lastRow, dark>>

Row == 0 .. rows - 1

LastLit == refreshInterval - 2 * refreshGuardInterval - 2
Turn    == refreshInterval - refreshGuardInterval - 1

Faulty_rowEnable == refreshCounter <= LastLit \/ refreshCounter \in {Turn, refreshInterval - 1}
rowEnable == refreshCounter <= LastLit \/ refreshCounter = refreshInterval - 1

io_row    == IF rowEnable THEN rowReg ELSE {}
io_column == IF \E r \in Row : rowReg = {r} THEN matrix[CHOOSE r \in Row : rowReg = {r}] ELSE {}

-----------------------------------------------------------------------------
Faulty_Rotate ==                                        \* the last row's bit falls out
    /\ refreshCounter = Turn
    /\ rowReg' = {r + 1 : r \in rowReg} \cap Row
    /\ refreshCounter' = refreshCounter + 1
Rotate ==
    /\ refreshCounter = Turn
    /\ rowReg' = {(r + 1) % rows : r \in rowReg}
    /\ refreshCounter' = refreshCounter + 1

Count == /\ refreshCounter \notin {Turn, refreshInterval - 1}
         /\ refreshCounter' = refreshCounter + 1 /\ UNCHANGED rowReg

Wrap == refreshCounter = refreshInterval - 1 /\ refreshCounter' = 0 /\ UNCHANGED rowReg

Watch == /\ lastRow' = IF rowEnable THEN rowReg ELSE lastRow
         /\ dark' = IF rowEnable THEN 0 ELSE dark + 1

Refresh == (Count \/ Rotate \/ Wrap) /\ Watch /\ matrix' \in [Row -> Columns]

MatrixInit ==
    /\ refreshCounter = 0 /\ rowReg = {0}
    /\ matrix \in [Row -> Columns]
    /\ lastRow = {0} /\ dark = 0

(* The clock runs. *)
MatrixSpec == MatrixInit /\ [][Refresh]_matrixVars /\ WF_matrixVars(Refresh)

-----------------------------------------------------------------------------
(***************************************************************************)
(* No ghosts: at most one row is lit, with its own columns, and between    *)
(* the last cycle of one row and the first of another all are dark for two *)
(* guard intervals, the time the drivers need to switch off.               *)
(***************************************************************************)
RowsApart == io_row # {} =>
    /\ \E r \in Row : io_row = {r} /\ io_column = matrix[r]
    /\ io_row # lastRow => dark >= 2 * refreshGuardInterval

(***************************************************************************)
(* Every row gets its turn, again and again.                               *)
(***************************************************************************)
EachRowLit == \A r \in Row : []<>(io_row = {r})
=============================================================================
