------------------------------- MODULE Matrix -------------------------------
(***************************************************************************)
(* matrixRows of .github/workflow-graph.mjs: the rows a job's matrix        *)
(* expands to.  The axes are multiplied, exclusions are taken away, and     *)
(* then each include augments the combinations it agrees with or, agreeing  *)
(* with none, is appended as a row of its own.  A row is a function from    *)
(* names to values; combinations have different values on some axis, so a   *)
(* set holds them.                                                          *)
(***************************************************************************)
EXTENDS Naturals, Sequences, FiniteSets, Selection

CONSTANT Matrices     \* the matrices to expand: axes, exclude, include, and
                      \* given: whether the matrix says include at all

ASSUME MatricesAssumption ==
    \A m \in Matrices : m.include \in Seq({m.include[i] : i \in DOMAIN m.include})

VARIABLES matrix, rows, additional, next

matrixVars == <<matrix, rows, additional, next>>

keys == DOMAIN matrix.axes
Agrees(part, row) == \A k \in DOMAIN part : k \in DOMAIN row /\ row[k] = part[k]

(* rows.flatMap over each axis' list.                                       *)
Product == {row \in [keys -> UNION {matrix.axes[k] : k \in keys}] :
              \A k \in keys : row[k] \in matrix.axes[k]}

(* The combinations no exclusion names.                                     *)
Kept == {row \in Product : \A e \in matrix.exclude : ~Agrees(e, row)}

MatrixInit ==
    /\ matrix \in Matrices
    /\ rows = {} /\ additional = <<>> /\ next = 0

(* Axes and exclusions; a matrix that gives no axes but includes, be they   *)
(* none, is those includes.                                                 *)
Expand ==
    /\ next = 0
    /\ IF keys = {} /\ matrix.given
       THEN /\ additional' = matrix.include /\ next' = Len(matrix.include) + 1
            /\ UNCHANGED rows
       ELSE rows' = Kept /\ next' = 1 /\ UNCHANGED additional
    /\ UNCHANGED matrix

(* An include agrees with a row on every axis both have.                    *)
Matches(include, row) ==
    \A k \in keys : k \notin DOMAIN include \/ include[k] = row[k]

(* { ...row, ...include }                                                   *)
Augment(include, row) ==
    [k \in DOMAIN include \cup DOMAIN row |-> IF k \in DOMAIN include THEN include[k] ELSE row[k]]

(* Mutant: later includes augment the appended rows too.                    *)
IncludeChained ==
    /\ next \in 1..Len(matrix.include)
    /\ LET include == matrix.include[next]
           join(row) == IF \A k \in keys \cap DOMAIN include \cap DOMAIN row : include[k] = row[k]
                        THEN Augment(include, row) ELSE row
           grown == [n \in 1..Len(additional) |-> join(additional[n])]
       IN  /\ rows' = {IF Matches(include, row) THEN Augment(include, row) ELSE row : row \in rows}
           /\ additional' = IF \E row \in rows : Matches(include, row)
                            THEN grown ELSE Append(grown, include)
    /\ next' = next + 1
    /\ UNCHANGED matrix

(* One pass of the loop over the includes.                                  *)
Include ==
    /\ next \in 1..Len(matrix.include)
    /\ LET include == matrix.include[next]
       IN  /\ rows' = {IF Matches(include, row) THEN Augment(include, row) ELSE row : row \in rows}
           /\ additional' = IF \E row \in rows : Matches(include, row)
                            THEN additional ELSE Append(additional, include)
    /\ next' = next + 1
    /\ UNCHANGED matrix

MatrixNext == Expand \/ Include

MatrixSpec == MatrixInit /\ [][MatrixNext]_matrixVars

Expanded == next = Len(matrix.include) + 1

-----------------------------------------------------------------------------
(* Includes never cost or change a combination: cut down to the axes, the   *)
(* augmented rows are the product without the excluded ones, each once.  An *)
(* appended include stands alone: it is the entry as written, never         *)
(* augmented by a later one, and exactly the entries that agree with no     *)
(* combination that is kept are appended, in their order.                   *)
CombinationsKept ==
    keys # {} /\ next > 0 =>
        /\ \A c \in Product :
              Cardinality({r \in rows : Agrees(c, r)})
              = IF \E e \in matrix.exclude : Agrees(e, c) THEN 0 ELSE 1
        /\ \A r \in rows : \E c \in Product : Agrees(c, r)
        /\ Expanded => additional = Pick(matrix.include, {n \in DOMAIN matrix.include :
              \A c \in Kept : \E k \in keys \cap DOMAIN matrix.include[n] :
                 matrix.include[n][k] # c[k]})
=============================================================================
