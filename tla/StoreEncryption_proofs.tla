------------------------ MODULE StoreEncryption_proofs ------------------------
(***************************************************************************)
(* Theorems about the conversion of the store, for any numbers of rows,     *)
(* requests and errors.                                                     *)
(***************************************************************************)
EXTENDS StoreEncryption, LeastNumbers, SequenceTheorems, FiniteSetTheorems, TLAPS

Row == [flag : BOOLEAN, layers : Int]
Table == UNION {[S -> Row] : S \in SUBSET Nat}
Handler == [state : States, active : BOOLEAN, table : TableNumbers, first : BOOLEAN, at : Nat]

\* What the variables are as functions, and rows come in the order of their ids.
Shape ==
    /\ rows \in [TableNumbers -> Table]
    /\ next \in [TableNumbers -> Nat]
    /\ \A t \in TableNumbers : next[t] \in 1..(MaxRows[t] + 1)
    /\ handler \in Handler
    /\ \A p \in spoilt : p[1] \in TableNumbers

Typed == TypeOK /\ Shape

-----------------------------------------------------------------------------
(* Tables.                                                                    *)

\* There are four tables, containers and accounts among them.
LEMMA TablesAre == /\ TableNumbers = {1, 2, 3, 4} /\ Len(Tables) = 4
                   /\ Containers \in TableNumbers /\ Accounts \in TableNumbers
  BY DEF Tables, TableNumbers, Containers, Accounts

\* A table is a function on numbers of rows.
LEMMA TableIs ==
    ASSUME NEW tab
    PROVE  tab \in Table <=> /\ DOMAIN tab \subseteq Nat
                             /\ tab = [n \in DOMAIN tab |-> tab[n]]
                             /\ \A n \in DOMAIN tab : tab[n] \in Row
<1>1. ASSUME tab \in Table
      PROVE  /\ DOMAIN tab \subseteq Nat /\ tab = [n \in DOMAIN tab |-> tab[n]]
             /\ \A n \in DOMAIN tab : tab[n] \in Row
  <2>1. PICK S \in SUBSET Nat : tab \in [S -> Row]
    BY <1>1 DEF Table
  <2>2. QED  BY <2>1
<1>2. ASSUME DOMAIN tab \subseteq Nat, tab = [n \in DOMAIN tab |-> tab[n]],
             \A n \in DOMAIN tab : tab[n] \in Row
      PROVE  tab \in Table
  <2>1. tab \in [DOMAIN tab -> Row]
    BY <1>2
  <2>2. QED  BY <2>1, <1>2 DEF Table
<1>3. QED  BY <1>1, <1>2

\* A row is added behind the others.
LEMMA AddedRow ==
    ASSUME Typed, NEW t \in TableNumbers, NEW row \in Row, Add(t, row)
    PROVE  /\ rows' \in [TableNumbers -> Table]
           /\ next' \in [TableNumbers -> Nat] /\ next'[t] = next[t] + 1
           /\ next[t] \in Ids(t) /\ next[t] \notin DOMAIN rows[t]
           /\ DOMAIN rows'[t] = DOMAIN rows[t] \cup {next[t]}
           /\ rows'[t][next[t]] = row
           /\ \A n \in DOMAIN rows[t] : rows'[t][n] = rows[t][n]
           /\ \A u \in TableNumbers \ {t} : rows'[u] = rows[u] /\ next'[u] = next[u]
<1> DEFINE new == [n \in DOMAIN rows[t] \cup {next[t]} |->
                      IF n = next[t] THEN row ELSE rows[t][n]]
<1>1. /\ rows \in [TableNumbers -> Table] /\ rows[t] \in Table
      /\ next \in [TableNumbers -> Nat] /\ next[t] \in 1..(MaxRows[t] + 1)
      /\ MaxRows[t] \in Nat
      /\ \A n \in DOMAIN rows[t] : n < next[t]
  BY BoundsType DEF Typed, Shape, TypeOK, TableNumbers
<1>2. /\ next[t] <= MaxRows[t] /\ next' = [next EXCEPT ![t] = @ + 1]
      /\ rows' = [rows EXCEPT ![t] = new]
  BY DEF Add
<1>3. next[t] \notin DOMAIN rows[t] /\ next[t] \in Nat /\ next[t] \in Ids(t)
  BY <1>1, <1>2 DEF Ids
<1>4. /\ DOMAIN rows[t] \subseteq Nat /\ \A n \in DOMAIN rows[t] : rows[t][n] \in Row
  BY <1>1, TableIs
<1>6. new \in [DOMAIN rows[t] \cup {next[t]} -> Row]
  BY <1>4
<1>7. new \in Table
  BY <1>3, <1>4, <1>6 DEF Table
<1>8. rows'[t] = new
  BY <1>1, <1>2
<1>9. /\ DOMAIN rows'[t] = DOMAIN rows[t] \cup {next[t]} /\ rows'[t][next[t]] = row
      /\ \A n \in DOMAIN rows[t] : rows'[t][n] = rows[t][n]
  BY <1>3, <1>8
<1> HIDE DEF new
<1>10. QED  BY <1>1, <1>2, <1>3, <1>7, <1>8, <1>9

\* A changed row of a table.
Change(t, n, row) == rows' = [rows EXCEPT ![t][n] = row]

\* A row that is changed stays where it is, and the others stay as they are.
LEMMA ChangedRow ==
    ASSUME Typed, NEW t \in TableNumbers, NEW n \in DOMAIN rows[t], NEW row \in Row,
           Change(t, n, row)
    PROVE  /\ rows' \in [TableNumbers -> Table]
           /\ DOMAIN rows'[t] = DOMAIN rows[t] /\ rows'[t][n] = row
           /\ \A m \in DOMAIN rows[t] \ {n} : rows'[t][m] = rows[t][m]
           /\ \A u \in TableNumbers \ {t} : rows'[u] = rows[u]
<1> DEFINE new == [rows[t] EXCEPT ![n] = row]
<1>1. /\ rows \in [TableNumbers -> Table] /\ rows[t] \in Table
  BY DEF Typed, Shape
<1>2. PICK S \in SUBSET Nat : rows[t] \in [S -> Row]
  BY <1>1 DEF Table
<1>3. new \in [S -> Row] /\ n \in S
  BY <1>2
<1>4. new \in Table
  BY <1>3 DEF Table
<1>5. rows' = [rows EXCEPT ![t] = new]
  BY DEF Change
<1>6. /\ DOMAIN new = S /\ DOMAIN rows[t] = S /\ new[n] = row
      /\ \A m \in S \ {n} : new[m] = rows[t][m]
  BY <1>2, <1>3
<1> HIDE DEF new
<1>7. QED  BY <1>1, <1>4, <1>5, <1>6

\* A deleted row of a table.
LEMMA DeletedRow ==
    ASSUME Typed, NEW t \in TableNumbers, NEW n,
           rows' = [rows EXCEPT ![t] = [m \in DOMAIN rows[t] \ {n} |-> rows[t][m]]]
    PROVE  /\ rows' \in [TableNumbers -> Table]
           /\ DOMAIN rows'[t] = DOMAIN rows[t] \ {n}
           /\ \A m \in DOMAIN rows[t] \ {n} : rows'[t][m] = rows[t][m]
           /\ \A u \in TableNumbers \ {t} : rows'[u] = rows[u]
<1> DEFINE new == [m \in DOMAIN rows[t] \ {n} |-> rows[t][m]]
<1>1. /\ rows \in [TableNumbers -> Table] /\ rows[t] \in Table
  BY DEF Typed, Shape
<1>2. PICK S \in SUBSET Nat : rows[t] \in [S -> Row]
  BY <1>1 DEF Table
<1>3. new \in [S \ {n} -> Row]
  BY <1>2
<1>4. new \in Table
  BY <1>3 DEF Table
<1>5. /\ DOMAIN new = DOMAIN rows[t] \ {n} /\ rows' = [rows EXCEPT ![t] = new]
      /\ \A m \in DOMAIN rows[t] \ {n} : new[m] = rows[t][m]
  OBVIOUS
<1> HIDE DEF new
<1>6. QED  BY <1>1, <1>4, <1>5

\* Where the handler goes on.
LEMMA ContinueTyped ==
    ASSUME Typed, NEW found \in SUBSET Nat, Continue(found)
    PROVE  /\ handler' \in Handler /\ state' \in States
           /\ handler'.active <=> handler'.state # "idle"
<1>1. found # {} => Lowest(found) \in Nat
  BY LeastNumber DEF Lowest
<1>2. handler \in Handler /\ (handler.active <=> handler.state # "idle") /\ state \in States
  BY DEF Typed, TypeOK, Shape
<1>3. state' \in States
  BY <1>2 DEF Continue, States
<1>4. CASE found # {}
  <2>1. handler' = [handler EXCEPT !.first = FALSE, !.at = Lowest(found)]
    BY <1>4 DEF Continue
  <2>2. QED  BY <1>1, <1>2, <1>3, <1>4, <2>1 DEF Handler
<1>5. CASE found = {} /\ handler.table < 4
  <2>1. handler' = [handler EXCEPT !.first = TRUE, !.table = handler.table + 1]
    BY <1>5, TablesAre DEF Continue
  <2>2. handler.table + 1 \in TableNumbers
    BY <1>2, <1>5, TablesAre DEF Handler
  <2>3. QED  BY <1>2, <1>3, <2>1, <2>2 DEF Handler
<1>6. CASE found = {} /\ ~(handler.table < 4)
  <2>1. handler' = Start("idle")
    BY <1>6, TablesAre DEF Continue
  <2>2. QED  BY <1>3, <2>1, TablesAre DEF Handler, Start, States
<1>7. QED  BY <1>4, <1>5, <1>6

\* Every variable begins in its type.
LEMMA InitTyped == Init => Typed
<1> SUFFICES ASSUME Init PROVE Typed
  OBVIOUS
<1>1. rows = [t \in TableNumbers |-> <<>>] /\ <<>> \in Table
  <2>1. <<>> \in [{} -> Row]
    BY EmptySeq
  <2>2. QED  BY <2>1 DEF Table, Init
<1>2. \A t \in TableNumbers : DOMAIN rows[t] = {}
  BY <1>1
<1>3. \A t \in TableNumbers : MaxRows[t] \in Nat
  BY BoundsType DEF TableNumbers
<1>4. TypeOK
  BY <1>1, <1>2, TablesAre DEF Init, TypeOK, Start, States
<1>5. Shape
  BY <1>1, <1>3, TablesAre DEF Init, Shape, Start, Handler, States
<1>6. QED  BY <1>4, <1>5 DEF Typed

\* Every step keeps the types.
LEMMA StepTyped == Typed /\ [Next]_vars => Typed'
<1> SUFFICES ASSUME Typed, [Next]_vars PROVE Typed'
  OBVIOUS
<1> USE TablesAre
<1>1. /\ rows \in [TableNumbers -> Table] /\ next \in [TableNumbers -> Nat]
      /\ \A t \in TableNumbers : next[t] \in 1..(MaxRows[t] + 1) /\ MaxRows[t] \in Nat
      /\ \A t \in TableNumbers : DOMAIN rows[t] \subseteq Ids(t)
      /\ \A t \in TableNumbers : \A n \in DOMAIN rows[t] : rows[t][n] \in Row /\ n < next[t]
      /\ handler \in Handler /\ handler.state \in States /\ handler.table \in TableNumbers
      /\ handler.active <=> handler.state # "idle"
      /\ files \in [Ids(Containers) -> Int \cup {NoFile}]
      /\ \A p \in spoilt : p[1] \in TableNumbers /\ p[2] \in Ids(p[1])
      /\ copied \subseteq Ids(Containers)
      /\ flag \in BOOLEAN /\ mode \in BOOLEAN /\ auth \in BOOLEAN /\ up \in BOOLEAN
      /\ slipped \in BOOLEAN /\ state \in States
  <2>1. \A t \in TableNumbers : MaxRows[t] \in Nat
    BY BoundsType
  <2>2. QED  BY <2>1 DEF Typed, TypeOK, Shape, Row, Handler
<1>0. \A t \in TableNumbers : DOMAIN rows[t] \subseteq Nat
  BY <1>1, TableIs
<1>2. ASSUME UNCHANGED <<rows, next>>
      PROVE  /\ rows' \in [TableNumbers -> Table] /\ next' \in [TableNumbers -> Nat]
             /\ \A t \in TableNumbers : next'[t] \in 1..(MaxRows[t] + 1)
             /\ \A t \in TableNumbers : DOMAIN rows'[t] \subseteq Ids(t)
             /\ \A t \in TableNumbers : \A n \in DOMAIN rows'[t] : rows'[t][n] \in Row /\ n < next'[t]
  BY <1>1, <1>2
<1>3. ASSUME /\ rows' \in [TableNumbers -> Table] /\ next' \in [TableNumbers -> Nat]
             /\ \A t \in TableNumbers : next'[t] \in 1..(MaxRows[t] + 1)
             /\ \A t \in TableNumbers : DOMAIN rows'[t] \subseteq Ids(t)
             /\ \A t \in TableNumbers : \A n \in DOMAIN rows'[t] : rows'[t][n] \in Row /\ n < next'[t],
             handler' \in Handler, handler'.active <=> handler'.state # "idle",
             files' \in [Ids(Containers) -> Int \cup {NoFile}],
             \A p \in spoilt' : p[1] \in TableNumbers /\ p[2] \in Ids(p[1]),
             copied' \subseteq Ids(Containers),
             flag' \in BOOLEAN, mode' \in BOOLEAN, auth' \in BOOLEAN, up' \in BOOLEAN,
             slipped' \in BOOLEAN, state' \in States
      PROVE  Typed'
  BY <1>3 DEF Typed, TypeOK, Shape, Row, Handler
<1>4. CASE UNCHANGED vars
  BY <1>1, <1>2, <1>3, <1>4 DEF vars, table, ghost, bounds
<1>5. ASSUME NEW on \in BOOLEAN, Toggle(on) PROVE Typed'
  <2>1. \A s \in States : Start(s) \in Handler /\ (Start(s).active <=> Start(s).state # "idle")
    BY DEF Start, Handler
  <2>2. UNCHANGED <<rows, next, files, auth, up, spoilt, copied>>
    BY <1>5 DEF Toggle
  <2>3. /\ mode' \in BOOLEAN /\ slipped' \in BOOLEAN /\ flag' \in BOOLEAN /\ state' \in States
        /\ \/ handler' = handler
           \/ \E s \in States : handler' = Start(s)
    BY <1>1, <1>5 DEF Toggle, States, table
  <2>4. handler' \in Handler /\ (handler'.active <=> handler'.state # "idle")
    BY <1>1, <2>1, <2>3
  <2>5. QED  BY <1>1, <1>2, <1>3, <2>2, <2>3, <2>4
<1>6. ASSUME NEW to \in BOOLEAN, Authenticate(to) PROVE Typed'
  BY <1>1, <1>2, <1>3, <1>6 DEF Authenticate, table, ghost, bounds
<1>7. ASSUME NEW t \in TableNumbers, NEW row \in Row, Add(t, row)
      PROVE  /\ rows' \in [TableNumbers -> Table] /\ next' \in [TableNumbers -> Nat]
             /\ \A u \in TableNumbers : next'[u] \in 1..(MaxRows[u] + 1)
             /\ \A u \in TableNumbers : DOMAIN rows'[u] \subseteq Ids(u)
             /\ \A u \in TableNumbers : \A n \in DOMAIN rows'[u] : rows'[u][n] \in Row /\ n < next'[u]
  <2>1. /\ rows' \in [TableNumbers -> Table]
        /\ next' \in [TableNumbers -> Nat] /\ next'[t] = next[t] + 1
        /\ next[t] \in Ids(t) /\ next[t] \notin DOMAIN rows[t]
        /\ DOMAIN rows'[t] = DOMAIN rows[t] \cup {next[t]}
        /\ rows'[t][next[t]] = row
        /\ \A n \in DOMAIN rows[t] : rows'[t][n] = rows[t][n]
        /\ \A u \in TableNumbers \ {t} : rows'[u] = rows[u] /\ next'[u] = next[u]
    BY <1>7, AddedRow
  <2>2. ASSUME NEW u \in TableNumbers
        PROVE  /\ next'[u] \in 1..(MaxRows[u] + 1)
               /\ DOMAIN rows'[u] \subseteq Ids(u)
               /\ \A n \in DOMAIN rows'[u] : rows'[u][n] \in Row /\ n < next'[u]
    <3>1. CASE u = t
      <4>1. next[t] \in 1..MaxRows[t]
        BY <2>1 DEF Ids
      <4>2. \A n \in DOMAIN rows[t] : n \in Nat
        BY <1>0
      <4>3. QED  BY <1>1, <2>1, <3>1, <4>1, <4>2
    <3>2. CASE u # t
      BY <1>1, <2>1, <3>2
    <3>3. QED  BY <3>1, <3>2
  <2>3. QED  BY <2>1, <2>2
<1>8. [flag |-> mode, layers |-> Encrypted(mode)] \in Row
  BY <1>1 DEF Row, Encrypted
<1>9. ASSUME NEW t \in TableNumbers, Create(t) PROVE Typed'
  <2>1. /\ Add(t, [flag |-> mode, layers |-> Encrypted(mode)])
        /\ UNCHANGED <<table, files, mode, auth, handler, up, ghost, bounds>>
    BY <1>9 DEF Create
  <2>2. UNCHANGED <<flag, state, files, mode, auth, handler, up, spoilt, copied, slipped>>
    BY <2>1 DEF table, ghost
  <2>3. QED  BY <1>1, <1>3, <1>7, <1>8, <2>1, <2>2
<1>10. ASSUME NEW n \in Ids(Containers), Copy(n) PROVE Typed'
  <2>1. /\ Add(Containers, [flag |-> mode, layers |-> Encrypted(mode)])
        /\ n \in DOMAIN rows[Containers]
        /\ files' = [files EXCEPT ![next[Containers]] = files[n]]
        /\ spoilt' \subseteq spoilt \cup {<<Containers, next[Containers]>>}
        /\ copied' \subseteq copied \cup {next[Containers]}
        /\ UNCHANGED <<flag, state, mode, auth, handler, up, slipped>>
    BY <1>10 DEF Copy, table
  <2>2. next[Containers] \in Ids(Containers)
    BY <1>8, <2>1, AddedRow
  <2>3. files' \in [Ids(Containers) -> Int \cup {NoFile}]
    BY <1>1, <2>1
  <2>4. \A p \in spoilt' : p[1] \in TableNumbers /\ p[2] \in Ids(p[1])
    <3>1. <<Containers, next[Containers]>>[1] = Containers
          /\ <<Containers, next[Containers]>>[2] = next[Containers]
      OBVIOUS
    <3>2. QED  BY <1>1, <2>1, <2>2, <3>1
  <2>5. QED  BY <1>1, <1>3, <1>7, <1>8, <2>1, <2>2, <2>3, <2>4
<1>11. ASSUME NEW n \in Ids(Containers), ReplaceContent(n) PROVE Typed'
  <2>1. /\ files' = [files EXCEPT ![n] = Encrypted(rows[Containers][n].flag)]
        /\ spoilt' \subseteq spoilt /\ copied' \subseteq copied
        /\ UNCHANGED <<rows, next, flag, state, mode, auth, handler, up, slipped>>
    BY <1>11 DEF ReplaceContent, table
  <2>2. files' \in [Ids(Containers) -> Int \cup {NoFile}]
    BY <1>1, <2>1 DEF Encrypted
  <2>3. QED  BY <1>1, <1>2, <1>3, <2>1, <2>2
\* A row is changed.
<1>12. ASSUME NEW t \in TableNumbers, NEW n \in DOMAIN rows[t], NEW row \in Row,
              Change(t, n, row), next' = next
       PROVE  /\ rows' \in [TableNumbers -> Table] /\ next' \in [TableNumbers -> Nat]
              /\ \A u \in TableNumbers : next'[u] \in 1..(MaxRows[u] + 1)
              /\ \A u \in TableNumbers : DOMAIN rows'[u] \subseteq Ids(u)
              /\ \A u \in TableNumbers : \A m \in DOMAIN rows'[u] : rows'[u][m] \in Row /\ m < next'[u]
  <2>1. /\ rows' \in [TableNumbers -> Table]
        /\ DOMAIN rows'[t] = DOMAIN rows[t] /\ rows'[t][n] = row
        /\ \A m \in DOMAIN rows[t] \ {n} : rows'[t][m] = rows[t][m]
        /\ \A u \in TableNumbers \ {t} : rows'[u] = rows[u]
    BY <1>12, ChangedRow
  <2>2. QED  BY <1>1, <1>12, <2>1
<1>13. ASSUME NEW n \in Ids(Accounts), Rename(n) PROVE Typed'
  <2>1. /\ n \in DOMAIN rows[Accounts]
        /\ rows' = [rows EXCEPT ![Accounts][n].layers = Encrypted(mode)]
        /\ spoilt' \subseteq spoilt \cup {<<Accounts, n>>}
        /\ UNCHANGED <<next, flag, state, files, mode, auth, handler, up, copied, slipped>>
    BY <1>13 DEF Rename, table
  <2>2. /\ [rows[Accounts][n] EXCEPT !.layers = Encrypted(mode)] \in Row
        /\ Change(Accounts, n, [rows[Accounts][n] EXCEPT !.layers = Encrypted(mode)])
    BY <1>1, <2>1 DEF Row, Encrypted, Change
  <2>3. \A p \in spoilt' : p[1] \in TableNumbers /\ p[2] \in Ids(p[1])
    BY <1>1, <2>1
  <2>4. QED  BY <1>1, <1>3, <1>12, <2>1, <2>2, <2>3
<1>14. ASSUME NEW t \in TableNumbers, NEW n \in Ids(t), Delete(t, n) PROVE Typed'
  <2>1. /\ rows' = [rows EXCEPT ![t] = [m \in DOMAIN rows[t] \ {n} |-> rows[t][m]]]
        /\ spoilt' \subseteq spoilt /\ copied' \subseteq copied
        /\ files' = IF t = Containers THEN [files EXCEPT ![n] = NoFile] ELSE files
        /\ UNCHANGED <<next, flag, state, mode, auth, handler, up, slipped>>
    BY <1>14 DEF Delete, table
  <2>2. /\ rows' \in [TableNumbers -> Table]
        /\ DOMAIN rows'[t] = DOMAIN rows[t] \ {n}
        /\ \A m \in DOMAIN rows[t] \ {n} : rows'[t][m] = rows[t][m]
        /\ \A u \in TableNumbers \ {t} : rows'[u] = rows[u]
    BY <2>1, DeletedRow
  <2>3. files' \in [Ids(Containers) -> Int \cup {NoFile}]
    BY <1>1, <2>1
  <2>4. QED  BY <1>1, <1>3, <2>1, <2>2, <2>3
<1>15. Unconverted \in SUBSET Nat /\ {n \in DOMAIN Rows : n > handler.at} \in SUBSET Nat
  <2>1. DOMAIN Rows \subseteq Nat
    BY <1>0, <1>1 DEF Rows
  <2>2. QED  BY <2>1 DEF Unconverted
<1>16. CASE FindFirst
  <2>1. /\ Continue(Unconverted)
        /\ UNCHANGED <<rows, next, flag, files, mode, auth, up, spoilt, copied, slipped>>
    BY <1>16 DEF FindFirst, ghost
  <2>2. /\ handler' \in Handler /\ state' \in States
        /\ handler'.active <=> handler'.state # "idle"
    BY <1>15, <2>1, ContinueTyped
  <2>3. QED  BY <1>1, <1>2, <1>3, <2>1, <2>2
<1>18. AtRow => /\ handler.at \in DOMAIN rows[handler.table] /\ handler.at \in Ids(handler.table)
                /\ ThisRow = {<<handler.table, handler.at>>}
                /\ HasContent => files[handler.at] \in Int
                /\ Content \in [Ids(Containers) -> Int \cup {NoFile}]
  <2>1. AtRow => /\ handler.at \in DOMAIN rows[handler.table] /\ handler.at \in Ids(handler.table)
                 /\ HasContent => files[handler.at] \in Int
    BY <1>1 DEF AtRow, Rows, HasContent
  <2>2. AtRow => Content \in [Ids(Containers) -> Int \cup {NoFile}]
    <3>1. CASE HasContent /\ AtRow
      <4>1. Turn(files[handler.at]) \in Int
        BY <2>1, <3>1 DEF Turn
      <4>2. QED  BY <1>1, <3>1, <4>1 DEF Content
    <3>2. CASE ~HasContent
      <4>1. Content = [files EXCEPT ![handler.at] = @]
        BY <3>2 DEF Content
      <4>2. QED  BY <1>1, <4>1
    <3>3. QED  BY <3>1, <3>2
  <2>3. QED  BY <2>1, <2>2 DEF ThisRow
<1>19. CASE ConvertNext
  <2>1. /\ AtRow /\ Continue({n \in DOMAIN Rows : n > handler.at})
        /\ rows' = IF Needed THEN [rows EXCEPT ![handler.table][handler.at] =
                                      [flag |-> Target, layers |-> Turn(@.layers)]]
                             ELSE rows
        /\ files' = Content \/ files' = files
        /\ spoilt' \subseteq spoilt \cup ThisRow
        /\ UNCHANGED <<flag, mode, auth, up, next, copied, slipped>>
    BY <1>19 DEF ConvertNext
  <2>2. /\ handler' \in Handler /\ state' \in States
        /\ handler'.active <=> handler'.state # "idle"
    BY <1>15, <2>1, ContinueTyped
  <2>3. [flag |-> Target, layers |-> Turn(rows[handler.table][handler.at].layers)] \in Row
    BY <1>1, <1>18, <2>1 DEF Row, Target, Turn
  <2>4. /\ rows' \in [TableNumbers -> Table] /\ next' \in [TableNumbers -> Nat]
        /\ \A u \in TableNumbers : next'[u] \in 1..(MaxRows[u] + 1)
        /\ \A u \in TableNumbers : DOMAIN rows'[u] \subseteq Ids(u)
        /\ \A u \in TableNumbers : \A m \in DOMAIN rows'[u] : rows'[u][m] \in Row /\ m < next'[u]
    <3>1. CASE Needed
      <4>1. Change(handler.table, handler.at,
                   [flag |-> Target, layers |-> Turn(rows[handler.table][handler.at].layers)])
        BY <2>1, <3>1 DEF Change
      <4>2. QED  BY <1>1, <1>12, <1>18, <2>1, <2>3, <4>1
    <3>2. CASE ~Needed
      BY <1>1, <1>2, <2>1, <3>2
    <3>3. QED  BY <3>1, <3>2
  <2>5. \A p \in spoilt' : p[1] \in TableNumbers /\ p[2] \in Ids(p[1])
    BY <1>1, <1>18, <2>1
  <2>6. files' \in [Ids(Containers) -> Int \cup {NoFile}]
    BY <1>1, <1>18, <2>1
  <2>7. QED  BY <1>1, <1>3, <2>1, <2>2, <2>4, <2>5, <2>6
<1>20. CASE RunLLeaves
  <2>1. /\ AtRow /\ up' = FALSE
        /\ files' = Content \/ files' = files
        /\ spoilt' \subseteq spoilt \cup ThisRow
        /\ UNCHANGED <<flag, state, rows, mode, auth, handler, next, copied, slipped>>
    BY <1>20 DEF RunLLeaves, table
  <2>2. \A p \in spoilt' : p[1] \in TableNumbers /\ p[2] \in Ids(p[1])
    BY <1>1, <1>18, <2>1
  <2>3. files' \in [Ids(Containers) -> Int \cup {NoFile}]
    BY <1>1, <1>18, <2>1
  <2>4. QED  BY <1>1, <1>2, <1>3, <2>1, <2>2, <2>3
<1>21. CASE ServerEnds
  BY <1>1, <1>2, <1>3, <1>21 DEF ServerEnds, table, ghost
<1>22. CASE ServerStarts
  <2>1. Start(state) \in Handler /\ (Start(state).active <=> Start(state).state # "idle")
    BY <1>1 DEF Start, Handler
  <2>2. /\ handler' = Start(state) /\ up' = TRUE /\ mode' = flag /\ auth' = FALSE
        /\ UNCHANGED <<flag, state, rows, files, next, spoilt, copied, slipped>>
    BY <1>22 DEF ServerStarts, table, ghost
  <2>3. QED  BY <1>1, <1>2, <1>3, <2>1, <2>2
<1>23. QED
  BY <1>4, <1>5, <1>6, <1>9, <1>10, <1>11, <1>13, <1>14, <1>16, <1>19, <1>20, <1>21, <1>22
  DEF Next, RunL

\* The types, as the other invariants use them.
LEMMA TypedAlways == Spec => []Typed
  BY InitTyped, StepTyped, PTL DEF Spec

\* Every variable keeps its type, whatever is converted, interrupted and started again.
THEOREM TypeCorrect == Spec => []TypeOK
<1>1. Typed => TypeOK
  BY DEF Typed
<1>2. QED  BY <1>1, TypedAlways, PTL

-----------------------------------------------------------------------------
(* Rows are what they say they are.                                           *)

\* The strings of a row are as it says, but for accounts that were renamed; and so is its
\* content, but for what came from an error or a copy.
Right(t, n) ==
    /\ \/ rows[t][n].layers = Encrypted(rows[t][n].flag)
       \/ t = Accounts /\ <<t, n>> \in spoilt
    /\ (t = Containers /\ files[n] # NoFile) =>
          \/ files[n] = Encrypted(rows[t][n].flag)
          \/ <<t, n>> \in spoilt
          \/ n \in copied
\* The same of a row after a step.
RightAfter(t, n) ==
    /\ \/ rows'[t][n].layers = Encrypted(rows'[t][n].flag)
       \/ t = Accounts /\ <<t, n>> \in spoilt'
    /\ (t = Containers /\ files'[n] # NoFile) =>
          \/ files'[n] = Encrypted(rows'[t][n].flag)
          \/ <<t, n>> \in spoilt'
          \/ n \in copied'
AllRight == \A t \in TableNumbers : \A n \in DOMAIN rows[t] : Right(t, n)

\* There are no content files without a container.
NoStrays == \A n \in Ids(Containers) : n \notin DOMAIN rows[Containers] => files[n] = NoFile

\* Every step keeps the rows readable, and leaves no content without its container.
LEMMA StepRight == Typed /\ AllRight /\ NoStrays /\ [Next]_vars => AllRight' /\ NoStrays'
<1> SUFFICES ASSUME Typed, AllRight, NoStrays, [Next]_vars PROVE AllRight' /\ NoStrays'
  OBVIOUS
<1> USE TablesAre
<1>1. /\ rows \in [TableNumbers -> Table]
      /\ \A t \in TableNumbers : DOMAIN rows[t] \subseteq Ids(t)
      /\ \A t \in TableNumbers : \A n \in DOMAIN rows[t] : rows[t][n] \in Row
      /\ files \in [Ids(Containers) -> Int \cup {NoFile}]
      /\ flag \in BOOLEAN /\ mode \in BOOLEAN
      /\ handler.table \in TableNumbers
  BY DEF Typed, TypeOK, Shape, Row
<1>2. \A t \in TableNumbers : \A n \in DOMAIN rows[t] : Right(t, n)
  BY DEF AllRight
<1>3. ASSUME \A t \in TableNumbers : \A n \in DOMAIN rows'[t] : RightAfter(t, n)
      PROVE  AllRight'
  BY <1>3 DEF AllRight, Right, RightAfter
\* Rows that are not touched stay right.
<1>4. ASSUME NEW t \in TableNumbers, NEW n \in DOMAIN rows[t],
             n \in DOMAIN rows'[t], rows'[t][n] = rows[t][n],
             t = Containers => files'[n] = files[n],
             <<t, n>> \in spoilt => <<t, n>> \in spoilt',
             (t = Containers /\ n \in copied) => n \in copied'
      PROVE  RightAfter(t, n)
  BY <1>2, <1>4 DEF Right, RightAfter
<1>5. ASSUME UNCHANGED <<rows, files>>, spoilt \subseteq spoilt', copied \subseteq copied'
      PROVE  AllRight' /\ NoStrays'
  BY <1>3, <1>4, <1>5 DEF NoStrays
<1>6. CASE UNCHANGED vars
  BY <1>5, <1>6 DEF vars, ghost
<1>7. ASSUME NEW on \in BOOLEAN, Toggle(on) \/ Authenticate(on)
      PROVE  AllRight' /\ NoStrays'
  BY <1>5, <1>7 DEF Toggle, Authenticate, ghost
<1>8. [flag |-> mode, layers |-> Encrypted(mode)] \in Row
  BY <1>1 DEF Row, Encrypted
<1>9. ASSUME NEW t \in TableNumbers, Create(t) PROVE AllRight' /\ NoStrays'
  <2>1. /\ Add(t, [flag |-> mode, layers |-> Encrypted(mode)])
        /\ UNCHANGED <<files, spoilt, copied>>
    BY <1>9 DEF Create, ghost
  <2>2. /\ next[t] \in Ids(t) /\ next[t] \notin DOMAIN rows[t]
        /\ DOMAIN rows'[t] = DOMAIN rows[t] \cup {next[t]}
        /\ rows'[t][next[t]] = [flag |-> mode, layers |-> Encrypted(mode)]
        /\ \A n \in DOMAIN rows[t] : rows'[t][n] = rows[t][n]
        /\ \A u \in TableNumbers \ {t} : rows'[u] = rows[u]
    BY <1>8, <2>1, AddedRow
  <2>3. RightAfter(t, next[t])
    <3>1. t = Containers => files'[next[t]] = NoFile
      BY <2>1, <2>2 DEF NoStrays
    <3>2. QED  BY <2>2, <3>1 DEF Right, RightAfter
  <2>4. ASSUME NEW u \in TableNumbers, NEW n \in DOMAIN rows'[u]
        PROVE  RightAfter(u, n)
    <3>1. CASE u = t /\ n = next[t]
      BY <2>3, <3>1
    <3>2. CASE ~(u = t /\ n = next[t])
      <4>1. n \in DOMAIN rows[u] /\ rows'[u][n] = rows[u][n]
        BY <2>2, <3>2
      <4>2. QED  BY <1>4, <2>1, <4>1
    <3>3. QED  BY <3>1, <3>2
  <2>5. NoStrays'
    BY <2>1, <2>2 DEF NoStrays
  <2>6. QED  BY <1>3, <2>4, <2>5
<1>10. ASSUME NEW n \in Ids(Containers), ReplaceContent(n) PROVE AllRight' /\ NoStrays'
  <2>1. /\ n \in DOMAIN rows[Containers]
        /\ files' = [files EXCEPT ![n] = Encrypted(rows[Containers][n].flag)]
        /\ spoilt' = spoilt \ {<<Containers, n>>} /\ copied' = copied \ {n}
        /\ rows' = rows
    BY <1>10 DEF ReplaceContent
  <2>2. ASSUME NEW t \in TableNumbers, NEW m \in DOMAIN rows'[t]
        PROVE  RightAfter(t, m)
    <3>1. CASE t = Containers /\ m = n
      <4>1. files'[n] = Encrypted(rows[Containers][n].flag)
        BY <1>1, <2>1
      <4>2. Right(t, m)
        BY <1>2, <2>1
      <4>3. Containers # Accounts
        BY DEF Containers, Accounts
      <4>4. QED  BY <2>1, <3>1, <4>1, <4>2, <4>3 DEF Right, RightAfter
    <3>2. CASE ~(t = Containers /\ m = n)
      <4>1. t = Containers => files'[m] = files[m]
        BY <1>1, <2>1, <3>2
      <4>2. <<t, m>> # <<Containers, n>>
        BY <3>2
      <4>3. QED  BY <1>4, <2>1, <3>2, <4>1, <4>2
    <3>3. QED  BY <3>1, <3>2
  <2>3. NoStrays'
    BY <1>1, <2>1 DEF NoStrays
  <2>4. QED  BY <1>3, <2>2, <2>3
<1>11. ASSUME NEW n \in Ids(Containers), Copy(n) PROVE AllRight' /\ NoStrays'
  <2> DEFINE new == next[Containers]
  <2>1. /\ Add(Containers, [flag |-> mode, layers |-> Encrypted(mode)])
        /\ n \in DOMAIN rows[Containers]
        /\ files' = [files EXCEPT ![new] = files[n]]
        /\ spoilt \subseteq spoilt' /\ copied \subseteq copied'
        /\ <<Containers, n>> \in spoilt => <<Containers, new>> \in spoilt'
        /\ (files[n] # NoFile /\ (n \in copied \/ rows[Containers][n].flag # mode))
              => new \in copied'
    BY <1>11 DEF Copy
  <2>2. /\ new \in Ids(Containers) /\ new \notin DOMAIN rows[Containers]
        /\ DOMAIN rows'[Containers] = DOMAIN rows[Containers] \cup {new}
        /\ rows'[Containers][new] = [flag |-> mode, layers |-> Encrypted(mode)]
        /\ \A m \in DOMAIN rows[Containers] : rows'[Containers][m] = rows[Containers][m]
        /\ \A u \in TableNumbers \ {Containers} : rows'[u] = rows[u]
    BY <1>8, <2>1, AddedRow
  <2>3. files'[new] = files[n] /\ \A m \in Ids(Containers) \ {new} : files'[m] = files[m]
    BY <1>1, <2>1, <2>2
  <2> HIDE DEF new
  <2>4. RightAfter(Containers, new)
    <3>1. Right(Containers, n)
      BY <1>2, <2>1
    <3>2. QED  BY <2>1, <2>2, <2>3, <3>1 DEF Right, RightAfter
  <2>5. ASSUME NEW u \in TableNumbers, NEW m \in DOMAIN rows'[u]
        PROVE  RightAfter(u, m)
    <3>1. CASE u = Containers /\ m = new
      BY <2>4, <3>1
    <3>2. CASE ~(u = Containers /\ m = new)
      <4>1. m \in DOMAIN rows[u] /\ rows'[u][m] = rows[u][m]
        BY <2>2, <3>2
      <4>2. u = Containers => files'[m] = files[m]
        BY <1>1, <2>3, <3>2, <4>1
      <4>3. QED  BY <1>4, <2>1, <4>1, <4>2
    <3>3. QED  BY <3>1, <3>2
  <2>6. NoStrays'
    BY <1>1, <2>1, <2>2, <2>3 DEF NoStrays
  <2>7. QED  BY <1>3, <2>5, <2>6
<1>12. ASSUME NEW n \in Ids(Accounts), Rename(n) PROVE AllRight' /\ NoStrays'
  <2>1. /\ n \in DOMAIN rows[Accounts]
        /\ rows' = [rows EXCEPT ![Accounts][n].layers = Encrypted(mode)]
        /\ UNCHANGED <<files, copied>>
        /\ spoilt \ {<<Accounts, n>>} \subseteq spoilt'
        /\ rows[Accounts][n].flag # mode => <<Accounts, n>> \in spoilt'
    BY <1>12 DEF Rename
  <2>2. /\ [rows[Accounts][n] EXCEPT !.layers = Encrypted(mode)] \in Row
        /\ Change(Accounts, n, [rows[Accounts][n] EXCEPT !.layers = Encrypted(mode)])
    BY <1>1, <2>1 DEF Row, Encrypted, Change
  <2>3. /\ DOMAIN rows'[Accounts] = DOMAIN rows[Accounts]
        /\ rows'[Accounts][n] = [rows[Accounts][n] EXCEPT !.layers = Encrypted(mode)]
        /\ \A m \in DOMAIN rows[Accounts] \ {n} : rows'[Accounts][m] = rows[Accounts][m]
        /\ \A u \in TableNumbers \ {Accounts} : rows'[u] = rows[u]
    BY <2>1, <2>2, ChangedRow
  <2>4. Containers # Accounts
    BY DEF Containers, Accounts
  <2>5. RightAfter(Accounts, n)
    <3>1. rows[Accounts][n] \in Row
      BY <1>1, <2>1
    <3>2. rows'[Accounts][n].flag = rows[Accounts][n].flag
          /\ rows'[Accounts][n].layers = Encrypted(mode)
      BY <2>3, <3>1 DEF Row
    <3>3. QED  BY <2>1, <2>4, <3>2 DEF Right, RightAfter
  <2>6. ASSUME NEW u \in TableNumbers, NEW m \in DOMAIN rows'[u]
        PROVE  RightAfter(u, m)
    <3>1. CASE u = Accounts /\ m = n
      BY <2>5, <3>1
    <3>2. CASE ~(u = Accounts /\ m = n)
      <4>1. m \in DOMAIN rows[u] /\ rows'[u][m] = rows[u][m]
        BY <2>3, <3>2
      <4>2. <<u, m>> # <<Accounts, n>>
        BY <3>2
      <4>3. QED  BY <1>4, <2>1, <4>1, <4>2
    <3>3. QED  BY <3>1, <3>2
  <2>7. NoStrays'
    BY <2>1, <2>3, <2>4 DEF NoStrays
  <2>8. QED  BY <1>3, <2>6, <2>7
<1>13. ASSUME NEW t \in TableNumbers, NEW n \in Ids(t), Delete(t, n) PROVE AllRight' /\ NoStrays'
  <2>1. /\ rows' = [rows EXCEPT ![t] = [m \in DOMAIN rows[t] \ {n} |-> rows[t][m]]]
        /\ files' = IF t = Containers THEN [files EXCEPT ![n] = NoFile] ELSE files
        /\ spoilt' = spoilt \ {<<t, n>>}
        /\ copied' = IF t = Containers THEN copied \ {n} ELSE copied
    BY <1>13 DEF Delete
  <2>2. /\ DOMAIN rows'[t] = DOMAIN rows[t] \ {n}
        /\ \A m \in DOMAIN rows[t] \ {n} : rows'[t][m] = rows[t][m]
        /\ \A u \in TableNumbers \ {t} : rows'[u] = rows[u]
    BY <2>1, DeletedRow
  <2>3. ASSUME NEW u \in TableNumbers, NEW m \in DOMAIN rows'[u]
        PROVE  RightAfter(u, m)
    <3>1. ~(u = t /\ m = n) /\ m \in DOMAIN rows[u] /\ rows'[u][m] = rows[u][m]
      BY <2>2
    <3>2. u = Containers => files'[m] = files[m]
      BY <1>1, <2>1, <3>1
    <3>3. <<u, m>> # <<t, n>>
      BY <3>1
    <3>4. QED  BY <1>4, <2>1, <3>1, <3>2, <3>3
  <2>4. NoStrays'
    BY <1>1, <2>1, <2>2 DEF NoStrays
  <2>5. QED  BY <1>3, <2>3, <2>4
<1>14. CASE FindFirst \/ ServerEnds \/ ServerStarts
  BY <1>5, <1>14 DEF FindFirst, ServerEnds, ServerStarts, ghost
\* The content of the row the handler is at.
<1>15. ASSUME AtRow
       PROVE  /\ handler.at \in DOMAIN rows[handler.table]
              /\ handler.at \in Ids(handler.table)
              /\ ThisRow = {<<handler.table, handler.at>>}
              /\ HasContent => /\ Content[handler.at] = Turn(files[handler.at])
                               /\ Content[handler.at] \in Int
                               /\ files[handler.at] \in Int
              /\ ~HasContent => Content = files
              /\ handler.table = Containers =>
                    \A m \in Ids(Containers) \ {handler.at} : Content[m] = files[m]
  <2>1. /\ handler.at \in DOMAIN rows[handler.table] /\ handler.at \in Ids(handler.table)
        /\ HasContent => files[handler.at] \in Int /\ handler.table = Containers
    BY <1>1, <1>15 DEF AtRow, Rows, HasContent
  <2>2. HasContent => Content = [files EXCEPT ![handler.at] = Turn(@)]
    BY DEF Content
  <2>3. ~HasContent => Content = files
    <3>1. ~HasContent => Content = [files EXCEPT ![handler.at] = @]
      BY DEF Content
    <3>2. QED  BY <1>1, <3>1
  <2>4. HasContent => Turn(files[handler.at]) \in Int
    BY <2>1 DEF Turn
  <2>5. QED  BY <1>1, <2>1, <2>2, <2>3, <2>4 DEF ThisRow
\* Each but that one stays as it is.
<1>16. ASSUME AtRow, files' = Content \/ files' = files,
              spoilt \subseteq spoilt', copied \subseteq copied',
              \A u \in TableNumbers : DOMAIN rows'[u] = DOMAIN rows[u],
              \A u \in TableNumbers : \A m \in DOMAIN rows[u] :
                  ~(u = handler.table /\ m = handler.at) => rows'[u][m] = rows[u][m],
              RightAfter(handler.table, handler.at)
       PROVE  AllRight' /\ NoStrays'
  <2>1. ASSUME NEW u \in TableNumbers, NEW m \in DOMAIN rows'[u]
        PROVE  RightAfter(u, m)
    <3>1. CASE u = handler.table /\ m = handler.at
      BY <1>16, <3>1
    <3>2. CASE ~(u = handler.table /\ m = handler.at)
      <4>1. m \in DOMAIN rows[u] /\ rows'[u][m] = rows[u][m]
        BY <1>16, <3>2
      <4>2. u = Containers => files'[m] = files[m]
        <5>1. CASE handler.table = Containers
          BY <1>1, <1>15, <1>16, <3>2, <4>1, <5>1
        <5>2. CASE handler.table # Containers
          BY <1>15, <1>16, <5>2 DEF HasContent
        <5>3. QED  BY <5>1, <5>2
      <4>3. QED  BY <1>4, <1>16, <4>1, <4>2
    <3>3. QED  BY <3>1, <3>2
  <2>2. NoStrays'
    BY <1>1, <1>15, <1>16 DEF NoStrays, HasContent
  <2>3. QED  BY <1>3, <2>1, <2>2
<1>17. CASE ConvertNext
  <2> DEFINE t == handler.table
             n == handler.at
             row == [flag |-> Target, layers |-> Turn(rows[t][n].layers)]
  <2>1. /\ AtRow
        /\ rows' = IF Needed THEN [rows EXCEPT ![handler.table][handler.at] =
                                      [flag |-> Target, layers |-> Turn(@.layers)]]
                             ELSE rows
        /\ \/ files' = (IF Needed /\ HasContent THEN Content ELSE files) /\ spoilt' = spoilt
           \/ Needed /\ HasContent /\ spoilt' = spoilt \cup ThisRow /\ files' = files
        /\ copied' = copied
    BY <1>17 DEF ConvertNext
  <2>2. n \in DOMAIN rows[t] /\ rows[t][n] \in Row /\ t \in TableNumbers /\ Right(t, n)
    BY <1>1, <1>2, <1>15, <2>1
  <2>3. CASE ~Needed
    BY <1>5, <2>1, <2>3
  <2>4. CASE Needed
    <3>1. row \in Row /\ Change(t, n, row)
      BY <2>1, <2>2, <2>4 DEF Row, Target, Turn, Change
    <3>2. /\ \A u \in TableNumbers : DOMAIN rows'[u] = DOMAIN rows[u]
          /\ rows'[t][n] = row
          /\ \A u \in TableNumbers : \A m \in DOMAIN rows[u] :
                 ~(u = t /\ m = n) => rows'[u][m] = rows[u][m]
      BY <2>2, <3>1, ChangedRow
    <3>3. rows[t][n].flag = ~Target /\ Target \in BOOLEAN
      BY <2>2, <2>4 DEF Needed, Unconverted, Rows, Row, Target
    <3>4. \A x \in Int : x = Encrypted(~Target) => Turn(x) = Encrypted(Target)
      BY <3>3 DEF Turn, Encrypted
    <3>5. /\ \/ rows'[t][n].layers = Encrypted(Target)
             \/ t = Accounts /\ <<t, n>> \in spoilt
          /\ rows'[t][n].flag = Target
      BY <2>2, <3>2, <3>3, <3>4 DEF Right, RightAfter, Row
    <3>6. (t = Containers /\ files'[n] # NoFile) =>
             \/ files'[n] = Encrypted(Target)
             \/ <<t, n>> \in spoilt'
             \/ n \in copied
      <4>1. CASE t = Containers /\ files[n] = NoFile
        <5>1. ~HasContent
          BY <4>1 DEF HasContent
        <5>2. QED  BY <2>1, <4>1, <5>1
      <4>2. CASE t = Containers /\ files[n] # NoFile
        <5>1. HasContent
          BY <4>2 DEF HasContent
        <5>2. CASE files' = files /\ spoilt' = spoilt \cup ThisRow
          BY <1>15, <2>1, <5>2
        <5>3. CASE files' = Content /\ spoilt' = spoilt
          BY <1>15, <2>1, <2>2, <3>3, <3>4, <4>2, <5>1, <5>3 DEF Right, RightAfter
        <5>4. QED  BY <2>1, <2>4, <5>1, <5>2, <5>3
      <4>3. QED  BY <4>1, <4>2
    <3>7. RightAfter(t, n)
      <4>1. spoilt \subseteq spoilt'
        BY <2>1
      <4>2. QED
        <5> HIDE DEF row
        <5>1. QED  BY <2>1, <3>5, <3>6, <4>1 DEF RightAfter, t, n
    <3>8. QED  BY <1>16, <2>1, <3>2, <3>7
  <2>5. QED  BY <2>3, <2>4
<1>18. CASE RunLLeaves
  <2>1. /\ AtRow /\ UNCHANGED <<rows, copied>>
        /\ \/ UNCHANGED <<files, spoilt>>
           \/ files' = Content /\ spoilt' = IF HasContent THEN spoilt \cup ThisRow ELSE spoilt
    BY <1>18 DEF RunLLeaves
  <2>2. RightAfter(handler.table, handler.at)
    <3>1. Right(handler.table, handler.at)
      BY <1>1, <1>2, <1>15, <2>1
    <3>2. QED  BY <1>15, <2>1, <3>1 DEF Right, RightAfter, HasContent
  <2>3. QED  BY <1>16, <2>1, <2>2
<1>19. QED
  BY <1>6, <1>7, <1>9, <1>10, <1>11, <1>12, <1>13, <1>14, <1>17, <1>18 DEF Next, RunL

\* What a row says of itself is true of its strings and its content, however a conversion
\* is interrupted, but for the rows the property names.
THEOREM RowsReadable == Spec => []Readable
<1>1. Init => AllRight /\ NoStrays
  BY TablesAre DEF Init, AllRight, NoStrays
<1>2. AllRight => Readable
  BY DEF AllRight, Readable, Right, Plain
<1>3. QED  BY <1>1, <1>2, StepRight, TypedAlways, PTL DEF Spec

-----------------------------------------------------------------------------
(* A conversion reaches every row.                                            *)

\* Every row is as the flag of the store says.
AllFlag == \A t \in TableNumbers : \A n \in DOMAIN rows[t] : rows[t][n].flag = flag

\* The rows the handler has passed are as the flag says, also those that came behind it.
Passed ==
    /\ \A t \in TableNumbers : t < handler.table =>
          \A n \in DOMAIN rows[t] : rows[t][n].flag = flag
    /\ ~handler.first =>
          \A n \in DOMAIN rows[handler.table] : n < handler.at => rows[handler.table][n].flag = flag

\* The handler and iEncryption are as the general table says.
Agreed ==
    /\ up => handler.state = state /\ mode = flag
    /\ state # "idle" => (flag <=> state = "encrypting")

Conv == ~slipped => /\ Agreed
                    /\ state = "idle" => AllFlag
                    /\ (up /\ state # "idle") => Passed

\* The least of the rows that were found.
LEMMA LowestIs ==
    ASSUME NEW found \in SUBSET Nat, found # {}
    PROVE  Lowest(found) \in found /\ \A m \in found : Lowest(found) <= m
  BY LeastNumber DEF Lowest

\* The handler goes on from a table of which all rows before those found are converted.
LEMMA ContinueConv ==
    ASSUME Typed, Conv, ~slipped, RunsStep, NEW found \in SUBSET Nat, Continue(found),
           UNCHANGED <<flag, mode, up, slipped>>,
           \A t \in TableNumbers : DOMAIN rows'[t] = DOMAIN rows[t],
           \A t \in TableNumbers : \A n \in DOMAIN rows[t] :
               rows'[t][n].flag = rows[t][n].flag \/ rows'[t][n].flag = flag,
           \A n \in DOMAIN rows[handler.table] :
               (\A m \in found : n < m) => rows'[handler.table][n].flag = flag
    PROVE  Conv'
<1> USE TablesAre
<1>1. /\ handler \in Handler /\ handler.active /\ handler.state # "idle" /\ up
      /\ \A t \in TableNumbers : DOMAIN rows[t] \subseteq Nat
  BY TableIs DEF Typed, TypeOK, Shape, RunsStep
<1>2. handler.state = state /\ mode = flag /\ (flag <=> state = "encrypting") /\ Passed
  BY <1>1 DEF Conv, Agreed
\* What was passed stays so.
<1>3. \A t \in TableNumbers : t < handler.table =>
          \A n \in DOMAIN rows'[t] : rows'[t][n].flag = flag'
  BY <1>2 DEF Passed
<1>4. CASE found # {}
  <2>1. handler' = [handler EXCEPT !.first = FALSE, !.at = Lowest(found)] /\ state' = state
    BY <1>4 DEF Continue
  <2>2. /\ handler'.table = handler.table /\ handler'.at = Lowest(found)
        /\ handler'.state = handler.state
    BY <1>1, <2>1 DEF Handler
  <2>3. \A n \in DOMAIN rows[handler.table] : n < Lowest(found) => \A m \in found : n < m
    <3>1. Lowest(found) \in Nat /\ \A m \in found : m \in Nat /\ Lowest(found) <= m
      BY <1>4, LowestIs
    <3>2. \A n \in DOMAIN rows[handler.table] : n \in Nat
      BY <1>1 DEF Handler
    <3>3. QED  BY <3>1, <3>2
  <2>4. Passed'
    BY <1>1, <1>3, <2>2, <2>3 DEF Passed, Handler
  <2>5. QED  BY <1>1, <1>2, <2>1, <2>2, <2>4 DEF Conv, Agreed
<1>5. CASE found = {}
  <2>1. \A n \in DOMAIN rows'[handler.table] : rows'[handler.table][n].flag = flag'
    BY <1>1, <1>5 DEF Handler
  <2>2. CASE handler.table < 4
    <3>1. handler' = [handler EXCEPT !.first = TRUE, !.table = handler.table + 1] /\ state' = state
      BY <1>5, <2>2 DEF Continue
    <3>2. /\ handler'.table = handler.table + 1 /\ handler'.first
          /\ handler'.state = handler.state
      BY <1>1, <3>1 DEF Handler
    <3>3. \A t \in TableNumbers : t < handler.table + 1 => t < handler.table \/ t = handler.table
      BY <1>1 DEF Handler
    <3>4. Passed'
      <4>1. ASSUME NEW t \in TableNumbers, t < handler'.table
            PROVE  \A n \in DOMAIN rows'[t] : rows'[t][n].flag = flag'
        <5>1. t < handler.table \/ t = handler.table
          BY <3>2, <3>3, <4>1
        <5>2. QED  BY <1>3, <2>1, <5>1
      <4>2. QED  BY <3>2, <4>1 DEF Passed
    <3>5. QED  BY <1>1, <1>2, <3>1, <3>2, <3>4 DEF Conv, Agreed
  <2>3. CASE ~(handler.table < 4)
    <3>1. handler.table = 4
      BY <1>1, <2>3 DEF Handler
    <3>2. handler' = Start("idle") /\ state' = "idle"
      BY <1>5, <3>1 DEF Continue
    <3>3. \A t \in TableNumbers : t < 4 \/ t = 4
      OBVIOUS
    <3>4. AllFlag'
      BY <1>3, <2>1, <3>1, <3>3 DEF AllFlag
    <3>5. QED  BY <1>2, <3>2, <3>4 DEF Conv, Agreed, Start
  <2>4. QED  BY <2>2, <2>3
<1>6. QED  BY <1>4, <1>5

\* Each step keeps what the conversion has reached.
LEMMA StepConv == Typed /\ Conv /\ [Next]_vars => Conv'
<1> SUFFICES ASSUME Typed, Conv, [Next]_vars, ~slipped' PROVE Conv'
  BY DEF Conv
<1> USE TablesAre
<1>1. /\ rows \in [TableNumbers -> Table]
      /\ \A t \in TableNumbers : DOMAIN rows[t] \subseteq Nat
      /\ \A t \in TableNumbers : \A n \in DOMAIN rows[t] : rows[t][n] \in Row
      /\ handler \in Handler /\ flag \in BOOLEAN /\ mode \in BOOLEAN
  BY TableIs DEF Typed, TypeOK, Shape, Row
\* Requests: a row is as it was or as iEncryption says.
<1>2. ASSUME ~slipped, UNCHANGED <<flag, state, mode, handler, slipped>>, up' => up,
             \A t \in TableNumbers : \A n \in DOMAIN rows'[t] :
                 \/ n \in DOMAIN rows[t] /\ rows'[t][n].flag = rows[t][n].flag
                 \/ up /\ rows'[t][n].flag = mode
      PROVE  Conv'
  <2>1. Agreed'
    BY <1>2 DEF Conv, Agreed
  <2>2. \A t \in TableNumbers : \A n \in DOMAIN rows'[t] :
             \/ n \in DOMAIN rows[t] /\ rows'[t][n].flag = rows[t][n].flag
             \/ rows'[t][n].flag = flag'
    BY <1>2 DEF Conv, Agreed
  <2>3. state' = "idle" => AllFlag'
    BY <1>2, <2>2 DEF Conv, AllFlag
  <2>4. up' /\ state' # "idle" => Passed'
    BY <1>1, <1>2, <2>2 DEF Conv, Passed, Handler
  <2>5. QED  BY <2>1, <2>3, <2>4 DEF Conv
<1>3. ASSUME ~slipped, UNCHANGED <<flag, state, mode, handler, slipped, rows>>, up' => up
      PROVE  Conv'
  BY <1>2, <1>3
<1>4. CASE UNCHANGED vars
  BY <1>3, <1>4 DEF vars, table, ghost
<1>5. ASSUME NEW on \in BOOLEAN, Toggle(on) PROVE Conv'
  <2>1. /\ ~slipped /\ up /\ up' = up /\ mode' = on /\ flag' = on
        /\ state' = (IF on THEN "encrypting" ELSE "decrypting") /\ handler' = Start(state')
    BY <1>5 DEF Toggle, table
  <2>2. handler'.state = state' /\ handler'.table = 1 /\ handler'.first /\ state' # "idle"
    BY <2>1 DEF Start
  <2>3. Passed'
    BY <2>2 DEF Passed
  <2>4. QED  BY <2>1, <2>2, <2>3 DEF Conv, Agreed
<1>6. ASSUME NEW to \in BOOLEAN, Authenticate(to) PROVE Conv'
  BY <1>3, <1>6 DEF Authenticate, table, ghost
<1>7. [flag |-> mode, layers |-> Encrypted(mode)] \in Row
  BY <1>1 DEF Row, Encrypted
<1>8. ASSUME NEW t \in TableNumbers, Add(t, [flag |-> mode, layers |-> Encrypted(mode)]), up
      PROVE  \A u \in TableNumbers : \A n \in DOMAIN rows'[u] :
                 \/ n \in DOMAIN rows[u] /\ rows'[u][n].flag = rows[u][n].flag
                 \/ up /\ rows'[u][n].flag = mode
  <2>1. /\ DOMAIN rows'[t] = DOMAIN rows[t] \cup {next[t]}
        /\ rows'[t][next[t]] = [flag |-> mode, layers |-> Encrypted(mode)]
        /\ \A n \in DOMAIN rows[t] : rows'[t][n] = rows[t][n]
        /\ \A u \in TableNumbers \ {t} : rows'[u] = rows[u]
    BY <1>7, <1>8, AddedRow
  <2>2. QED  BY <1>8, <2>1
<1>9. ASSUME NEW t \in TableNumbers, Create(t) PROVE Conv'
  <2>1. /\ Add(t, [flag |-> mode, layers |-> Encrypted(mode)]) /\ up
        /\ UNCHANGED <<flag, state, mode, handler, slipped, up>>
    BY <1>9 DEF Create, table, ghost
  <2>2. QED  BY <1>2, <1>8, <2>1
<1>10. ASSUME NEW n \in Ids(Containers), Copy(n) PROVE Conv'
  <2>1. /\ Add(Containers, [flag |-> mode, layers |-> Encrypted(mode)]) /\ up
        /\ UNCHANGED <<flag, state, mode, handler, slipped, up>>
    BY <1>10 DEF Copy, table
  <2>2. QED  BY <1>2, <1>8, <2>1
<1>11. ASSUME NEW n \in Ids(Containers), ReplaceContent(n) PROVE Conv'
  BY <1>3, <1>11 DEF ReplaceContent, table
<1>12. ASSUME NEW n \in Ids(Accounts), Rename(n) PROVE Conv'
  <2>1. /\ n \in DOMAIN rows[Accounts]
        /\ rows' = [rows EXCEPT ![Accounts][n].layers = Encrypted(mode)]
        /\ UNCHANGED <<flag, state, mode, handler, slipped, up>>
    BY <1>12 DEF Rename, table
  <2>2. /\ [rows[Accounts][n] EXCEPT !.layers = Encrypted(mode)] \in Row
        /\ [rows[Accounts][n] EXCEPT !.layers = Encrypted(mode)].flag = rows[Accounts][n].flag
        /\ Change(Accounts, n, [rows[Accounts][n] EXCEPT !.layers = Encrypted(mode)])
    BY <1>1, <2>1 DEF Row, Encrypted, Change
  <2>3. /\ DOMAIN rows'[Accounts] = DOMAIN rows[Accounts]
        /\ rows'[Accounts][n] = [rows[Accounts][n] EXCEPT !.layers = Encrypted(mode)]
        /\ \A m \in DOMAIN rows[Accounts] \ {n} : rows'[Accounts][m] = rows[Accounts][m]
        /\ \A u \in TableNumbers \ {Accounts} : rows'[u] = rows[u]
    BY <2>1, <2>2, ChangedRow
  <2>4. \A u \in TableNumbers : \A m \in DOMAIN rows'[u] :
            m \in DOMAIN rows[u] /\ rows'[u][m].flag = rows[u][m].flag
    BY <2>2, <2>3
  <2>5. QED  BY <1>2, <2>1, <2>4
<1>13. ASSUME NEW t \in TableNumbers, NEW n \in Ids(t), Delete(t, n) PROVE Conv'
  <2>1. /\ rows' = [rows EXCEPT ![t] = [m \in DOMAIN rows[t] \ {n} |-> rows[t][m]]]
        /\ UNCHANGED <<flag, state, mode, handler, slipped, up>>
    BY <1>13 DEF Delete, table
  <2>2. /\ DOMAIN rows'[t] = DOMAIN rows[t] \ {n}
        /\ \A m \in DOMAIN rows[t] \ {n} : rows'[t][m] = rows[t][m]
        /\ \A u \in TableNumbers \ {t} : rows'[u] = rows[u]
    BY <2>1, DeletedRow
  <2>3. QED  BY <1>2, <2>1, <2>2
<1>14. CASE RunLLeaves \/ ServerEnds
  BY <1>3, <1>14 DEF RunLLeaves, ServerEnds, table, ghost
<1>15. CASE ServerStarts
  <2>1. /\ ~slipped /\ up' /\ mode' = flag /\ handler' = Start(state)
        /\ UNCHANGED <<flag, state, rows>>
    BY <1>15 DEF ServerStarts, table, ghost
  <2>2. handler'.state = state' /\ handler'.table = 1 /\ handler'.first
    BY <2>1 DEF Start
  <2>3. Passed'
    BY <2>2 DEF Passed
  <2>4. QED  BY <2>1, <2>2, <2>3 DEF Conv, Agreed, AllFlag
\* The state of the handler is that of the store while it runs.
<1>16. ASSUME RunsStep, ~slipped
       PROVE  /\ handler.table \in TableNumbers /\ Target = flag
              /\ Unconverted \subseteq Nat
              /\ {n \in DOMAIN Rows : n > handler.at} \subseteq Nat
              /\ ~handler.first => \A n \in DOMAIN rows[handler.table] :
                                       n < handler.at => rows[handler.table][n].flag = flag
  <2>1. /\ handler.state = state /\ state # "idle" /\ up
        /\ handler.table \in TableNumbers
    BY <1>1, <1>16 DEF RunsStep, Typed, TypeOK, Conv, Agreed
  <2>2. Target = flag /\ Passed
    BY <1>1, <1>16, <2>1 DEF Conv, Agreed, Target
  <2>3. QED  BY <1>1, <2>1, <2>2 DEF Passed, Unconverted, Rows
<1>17. CASE FindFirst
  <2>1. /\ RunsStep /\ ~slipped /\ Continue(Unconverted)
        /\ UNCHANGED <<flag, mode, up, slipped, rows>>
    BY <1>17 DEF FindFirst, ghost
  <2>2. \A n \in DOMAIN rows[handler.table] :
            (\A m \in Unconverted : n < m) => rows'[handler.table][n].flag = flag
    BY <1>1, <1>16, <2>1 DEF Unconverted, Rows
  <2>3. QED  BY <1>16, <2>1, <2>2, ContinueConv
<1>18. CASE ConvertNext
  <2> DEFINE t == handler.table
             n == handler.at
             row == [flag |-> Target, layers |-> Turn(rows[t][n].layers)]
             found == {m \in DOMAIN Rows : m > handler.at}
  <2>1. /\ AtRow /\ RunsStep /\ ~slipped /\ Continue(found)
        /\ rows' = IF Needed THEN [rows EXCEPT ![handler.table][handler.at] =
                                      [flag |-> Target, layers |-> Turn(@.layers)]]
                             ELSE rows
        /\ UNCHANGED <<flag, mode, up, slipped>>
    BY <1>18 DEF ConvertNext, AtRow
  <2>2. /\ n \in DOMAIN rows[t] /\ rows[t][n] \in Row /\ t \in TableNumbers /\ n \in Nat
        /\ found \subseteq Nat /\ Target = flag /\ ~handler.first
    BY <1>1, <1>16, <2>1 DEF AtRow, Rows
  <2>3. /\ \A u \in TableNumbers : DOMAIN rows'[u] = DOMAIN rows[u]
        /\ rows'[t][n].flag = flag
        /\ \A u \in TableNumbers : \A m \in DOMAIN rows[u] :
               ~(u = t /\ m = n) => rows'[u][m] = rows[u][m]
    <3>1. CASE ~Needed
      <4>1. rows' = rows
        BY <2>1, <3>1
      <4>2. rows[t][n].flag = flag
        BY <2>2, <3>1 DEF Needed, Unconverted, Rows
      <4>3. QED  BY <4>1, <4>2
    <3>2. CASE Needed
      <4>1. row \in Row /\ Change(t, n, row) /\ row.flag = flag
        BY <1>1, <2>1, <2>2, <3>2 DEF Row, Turn, Change
      <4> HIDE DEF row
      <4>2. QED  BY <2>2, <4>1, ChangedRow
    <3>3. QED  BY <3>1, <3>2
  <2>4. ASSUME NEW m \in DOMAIN rows[t], \A k \in found : m < k
        PROVE  rows'[t][m].flag = flag
    <3>1. m \in Nat /\ m <= n
      <4>1. m \in Nat
        BY <1>1, <2>2
      <4>2. ~(m > n)
        BY <2>4, <4>1 DEF Rows
      <4>3. QED  BY <2>2, <4>1, <4>2
    <3>2. CASE m = n
      BY <2>3, <3>2
    <3>3. CASE m < n
      <4>1. rows[t][m].flag = flag
        BY <1>16, <2>1, <2>2, <3>3
      <4>2. rows'[t][m] = rows[t][m]
        BY <2>2, <2>3, <3>1, <3>3
      <4>3. QED  BY <4>1, <4>2
    <3>4. QED  BY <2>2, <3>1, <3>2, <3>3
  <2>5. \A u \in TableNumbers : \A m \in DOMAIN rows[u] :
            rows'[u][m].flag = rows[u][m].flag \/ rows'[u][m].flag = flag
    BY <2>3
  <2> HIDE DEF found
  <2>6. QED  BY <2>1, <2>2, <2>3, <2>4, <2>5, ContinueConv
<1>19. QED
  BY <1>4, <1>5, <1>6, <1>9, <1>10, <1>11, <1>12, <1>13, <1>14, <1>15, <1>17, <1>18 DEF Next, RunL

\* When a conversion is over, and none of the requests to switch failed half way, every row
\* is as the flag of the store says, whatever came or went meanwhile and however often the
\* server ended.
THEOREM EveryRowConverted == Spec => []AllConverted
<1>1. Init => Conv
  <2>1. Init => /\ \A t \in TableNumbers : DOMAIN rows[t] = {}
                /\ handler.state = "idle" /\ state = "idle" /\ mode = flag
    <3>1. DOMAIN <<>> = {}
      OBVIOUS
    <3>2. Init => rows = [t \in TableNumbers |-> <<>>]
      BY DEF Init
    <3>3. Init => \A t \in TableNumbers : DOMAIN rows[t] = {}
      BY <3>1, <3>2
    <3>4. Init => mode = flag
      BY DEF Init
    <3>5. Init => handler.state = "idle" /\ state = "idle"
      BY DEF Init, Start
    <3>6. QED  BY <3>3, <3>4, <3>5
  <2>2. QED  BY <2>1 DEF Conv, Agreed, AllFlag
<1>2. Conv => AllConverted
  BY DEF Conv, AllConverted, AllFlag
<1>3. QED  BY <1>1, <1>2, StepConv, TypedAlways, PTL DEF Spec

=============================================================================
