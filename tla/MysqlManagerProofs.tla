------------------------- MODULE MysqlManagerProofs -------------------------
(***************************************************************************)
(* Proofs about CMysqlManager::init, for any number of processes and calls *)
(* against one server, any table of the program and any table the server   *)
(* has at first, and any number of refused statements, lost answers and    *)
(* dropped connections: what the result says of the table, and that        *)
(* processes which get in each other's way do not all fail.                *)
(***************************************************************************)
EXTENDS MysqlManager, SequenceLemmas, FiniteSetTheorems

Columns == ToSet(Fields) \cup {OtherColumn}

Types ==
    /\ server \in [db : BOOLEAN, table : Seq(Columns)]
    /\ IsInjective(server.table)
    /\ link \in [Manager -> {"none", "up", "gone"}]
    /\ pc \in [Manager -> {"idle", "connect", "use", "crashed"} \cup Statement \cup Returned]
    /\ retried \in [Manager -> BOOLEAN]
    /\ todo \in [Manager -> Seq(ToSet(Fields))]
    /\ \A m \in Manager : IsInjective(todo[m])
    /\ inits \in 0 .. MaxInits /\ faults \in 0 .. MaxFaults
    /\ disturbed \subseteq Manager /\ misread \subseteq Manager

\* In the order of map_field_.
Sorted(t) ==
    \A a, b \in DOMAIN t : a < b =>
        \A i, j \in DOMAIN Fields : t[a] = Fields[i] /\ t[b] = Fields[j] => i < j

\* Who adds columns will add all that are missing; and since everybody adds them in the
\* same order, nobody finds a later one of its columns there before the next one.
AddsTheRest(m) ==
    /\ todo[m] # <<>> /\ server.table # <<>>
    /\ ToSet(Fields) \subseteq ToSet(server.table) \cup ToSet(todo[m])
    /\ Sorted(todo[m])
    /\ Head(todo[m]) \notin ToSet(server.table) =>
         ToSet(todo[m]) \cap ToSet(server.table) = {}

\* What a process knows that neither the server nor another process disturbed.
Unsurprised(m) ==
    /\ pc[m] = "create" => ~server.db
    /\ pc[m] = "use" => server.db
    /\ pc[m] = "create_table" => server.table = <<>>
    /\ pc[m] = "alter" => Head(todo[m]) \notin ToSet(server.table)
    /\ pc[m] = "false" => ~addable

\* A process has the database before it works on the table, adds what is missing, creates
\* the table only where there is none or somebody has just created it, unless it misread
\* the table, and keeps its connection unless the server did something to it.
Good(m) ==
    /\ pc[m] \in {"desc", "create_table", "alter"} => server.db
    /\ pc[m] = "alter" => AddsTheRest(m)
    /\ m \notin misread /\ pc[m] = "create_table" => server.table = <<>> \/ complete
    /\ m \notin misread /\ pc[m] = "true" => complete
    /\ m \notin disturbed => Unsurprised(m)
    /\ m \notin disturbed \/ faults = 0 =>
         (pc[m] \in Statement => link[m] = "up" /\ ~retried[m])

\* Who has returned true, or will if nobody else moves and the server does its work.
OnTheWay(m) ==
    \/ pc[m] \in {"true", "crashed"}
    \/ pc[m] \in {"idle", "connect", "show", "desc", "create_table"}
    \/ pc[m] = "use" /\ server.db
    \/ pc[m] = "create" /\ ~server.db
    \/ pc[m] = "alter" /\ Head(todo[m]) \notin ToSet(server.table)

\* The table lacks what cannot be added.
Hopeless == server.table # <<>> /\ ~addable

IInv ==
    /\ Types
    /\ server.table # <<>> => server.db
    /\ \A m \in Manager : Good(m)
    /\ faults = 0 => Hopeless \/ \E m \in Manager : OnTheWay(m)

(***************************************************************************)
(* The columns that are missing.                                           *)
(***************************************************************************)
\* checkTable's list holds each missing column once, in the order of map_field_.
LEMMA MissingHolds ==
    /\ missing \in Seq(ToSet(Fields)) /\ IsInjective(missing) /\ Sorted(missing)
    /\ ToSet(missing) = ToSet(Fields) \ ToSet(server.table)
<1>. DEFINE T == ToSet(Fields) \ rows(server.table)
            S == ToSet(Fields)
<1>1. Fields \in Seq(S) /\ IsInjective(Fields) BY ManagerAssumption
<1>2. missing = selected(Fields, T) BY DEF missing
<1>3. T \subseteq S /\ T = S \ ToSet(server.table) BY DEF rows
<1>4. S \cap T = T BY <1>3
<1> HIDE DEF T, S
<1>5. /\ missing \in Seq(S) /\ ToSet(missing) = S \cap T /\ IsInjective(missing)
    <2>1. S = ToSet(Fields) BY DEF S
    <2> QED BY <1>1, <1>2, <2>1, SelectedHolds
<1>6. PICK g : Picks(g, missing, Fields, Len(Fields), T)
    BY <1>1, <1>2, SelectedPicks
<1>7. DOMAIN missing = 1 .. Len(missing) /\ DOMAIN Fields = 1 .. Len(Fields)
    BY <1>1, <1>5, LenProperties
<1>8. Sorted(missing)
    <2>. SUFFICES ASSUME NEW a \in DOMAIN missing, NEW b \in DOMAIN missing, a < b,
                         NEW i \in DOMAIN Fields, NEW j \in DOMAIN Fields,
                         missing[a] = Fields[i], missing[b] = Fields[j]
                  PROVE  i < j
        BY DEF Sorted
    <2>1. /\ g[a] \in DOMAIN Fields /\ g[b] \in DOMAIN Fields /\ g[a] < g[b]
          /\ missing[a] = Fields[g[a]] /\ missing[b] = Fields[g[b]]
        BY <1>6, <1>7 DEF Picks
    <2>2. g[a] = i /\ g[b] = j BY <1>1, <2>1 DEF IsInjective
    <2> QED BY <2>1, <2>2
<1> QED BY <1>3, <1>4, <1>5, <1>8 DEF S

\* Without its head a sorted list is sorted.
LEMMA TailSorted ==
    ASSUME NEW S, NEW t \in Seq(S), t # <<>>, Sorted(t)
    PROVE  Sorted(Tail(t))
<1>1. /\ Len(t) \in Nat /\ DOMAIN t = 1 .. Len(t) /\ DOMAIN Tail(t) = 1 .. Len(t) - 1
      /\ \A a \in 1 .. Len(t) - 1 : Tail(t)[a] = t[a + 1]
    BY HeadTailProperties, LenProperties
<1>. SUFFICES ASSUME NEW a \in DOMAIN Tail(t), NEW b \in DOMAIN Tail(t), a < b,
                     NEW i \in DOMAIN Fields, NEW j \in DOMAIN Fields,
                     Tail(t)[a] = Fields[i], Tail(t)[b] = Fields[j]
              PROVE  i < j
    BY DEF Sorted
<1>2. /\ a + 1 \in DOMAIN t /\ b + 1 \in DOMAIN t /\ a + 1 < b + 1
      /\ t[a + 1] = Fields[i] /\ t[b + 1] = Fields[j]
    BY <1>1
<1> QED BY <1>2 DEF Sorted

\* Two processes add what is missing in the same order: what one adds next is not one of the
\* later columns of the other, unless the other's next column is there.
LEMMA SameOrder ==
    ASSUME NEW s \in Seq(ToSet(Fields)), NEW t \in Seq(ToSet(Fields)), s # <<>>, t # <<>>,
           Sorted(s), Sorted(t), Head(t) \in ToSet(s), Head(s) \in ToSet(t)
    PROVE  Head(s) = Head(t)
<1>. SUFFICES ASSUME Head(s) # Head(t) PROVE FALSE
    OBVIOUS
<1>1. /\ Head(s) = s[1] /\ Head(t) = t[1] /\ 1 \in DOMAIN s /\ 1 \in DOMAIN t
      /\ DOMAIN s = 1 .. Len(s) /\ DOMAIN t = 1 .. Len(t) /\ Len(s) \in Nat /\ Len(t) \in Nat
    BY LenProperties, EmptySeq
<1>2. PICK a \in DOMAIN s : s[a] = Head(t) BY DEF ToSet
<1>3. PICK b \in DOMAIN t : t[b] = Head(s) BY DEF ToSet
<1>4. 1 < a /\ 1 < b BY <1>1, <1>2, <1>3
<1>5. Head(s) \in ToSet(Fields) /\ Head(t) \in ToSet(Fields) BY HeadTailProperties
<1>6. PICK i \in DOMAIN Fields : Fields[i] = Head(s) BY <1>5 DEF ToSet
<1>7. PICK j \in DOMAIN Fields : Fields[j] = Head(t) BY <1>5 DEF ToSet
<1>8. i < j BY <1>1, <1>2, <1>4, <1>6, <1>7 DEF Sorted
<1>9. j < i BY <1>1, <1>3, <1>4, <1>6, <1>7 DEF Sorted
<1>10. i \in Nat /\ j \in Nat
    <2>1. DOMAIN Fields = 1 .. Len(Fields) /\ Len(Fields) \in Nat
        BY ManagerAssumption, LenProperties
    <2> QED BY <2>1
<1> QED BY <1>8, <1>9, <1>10
(***************************************************************************)
(* The server.                                                             *)
(***************************************************************************)
\* What an accepted statement of m does to the server.
LEMMA AfterIs ==
    ASSUME Types, NEW m \in Manager, pc[m] \in Statement, accepts(m)
    PROVE  \/ after(m) = server
           \/ pc[m] = "create" /\ after(m) = [server EXCEPT !.db = TRUE] /\ ~server.db
           \/ /\ pc[m] = "create_table" /\ server.table = <<>>
              /\ after(m) = [server EXCEPT !.table = Fields]
           \/ /\ pc[m] = "alter" /\ Head(todo[m]) \notin ToSet(server.table) \cup AutoIncrement
              /\ after(m) = [server EXCEPT !.table = Append(@, Head(todo[m]))]
<1>1. CASE pc[m] \in {"show", "desc"}
    <2>1. after(m) = server BY <1>1 DEF after, createTable
    <2> QED BY <2>1
<1>2. CASE pc[m] = "create" BY <1>2 DEF after, createTable, accepts
<1>3. CASE pc[m] = "create_table" BY <1>3 DEF after, createTable
<1>4. CASE pc[m] = "alter" BY <1>4 DEF after, createTable, accepts
<1> QED BY <1>1, <1>2, <1>3, <1>4 DEF Statement, Query, Execute

\* The server after a step of m: as before, or m's statement has been carried out.
serves(m) == server' = server \/ (pc[m] \in Statement /\ accepts(m) /\ server' = after(m))

\* The schema only grows, and grows so that nobody who adds columns meets one of them that
\* came there out of order.
LEMMA ServerGrows ==
    ASSUME IInv, NEW m \in Manager, serves(m)
    PROVE  /\ server' \in [db : BOOLEAN, table : Seq(Columns)] /\ IsInjective(server'.table)
           /\ server'.table # <<>> => server'.db
           /\ server.db => server'.db
           /\ server.table # <<>> => server'.table # <<>>
           /\ ToSet(server.table) \subseteq ToSet(server'.table)
           /\ server.table = <<>> =>
                server'.table = <<>> \/ ToSet(server'.table) = ToSet(Fields)
           /\ Hopeless => Hopeless'
           /\ \A k \in Manager : pc[k] = "alter" /\ Head(todo[k]) \notin ToSet(server'.table) =>
                ToSet(todo[k]) \cap ToSet(server'.table) = {}
<1>. USE DEF IInv
<1>1. /\ server \in [db : BOOLEAN, table : Seq(Columns)] /\ IsInjective(server.table)
      /\ server.table # <<>> => server.db
      /\ server.db \in BOOLEAN /\ server.table \in Seq(Columns)
    BY DEF Types
<1>2. \A k \in Manager : pc[k] = "alter" => AddsTheRest(k) BY DEF Good
<1>3. CASE server' = server
    <2>1. \A k \in Manager : pc[k] = "alter" /\ Head(todo[k]) \notin ToSet(server'.table) =>
                ToSet(todo[k]) \cap ToSet(server'.table) = {}
        BY <1>2, <1>3 DEF AddsTheRest
    <2>2. Hopeless => Hopeless' BY <1>3 DEF Hopeless, addable
    <2> QED BY <1>1, <1>3, <2>1, <2>2
<1>4. CASE pc[m] = "create" /\ server' = [server EXCEPT !.db = TRUE] /\ ~server.db
    <2>1. server'.table = server.table /\ server'.db = TRUE BY <1>1, <1>4
    <2>2. server' \in [db : BOOLEAN, table : Seq(Columns)] BY <1>1, <1>4
    <2>3. \A k \in Manager : pc[k] = "alter" /\ Head(todo[k]) \notin ToSet(server'.table) =>
                ToSet(todo[k]) \cap ToSet(server'.table) = {}
        BY <1>2, <2>1 DEF AddsTheRest
    <2>4. Hopeless => Hopeless' BY <2>1 DEF Hopeless, addable
    <2> QED BY <1>1, <2>1, <2>2, <2>3, <2>4
<1>5. CASE /\ pc[m] = "create_table" /\ server.table = <<>>
           /\ server' = [server EXCEPT !.table = Fields]
    <2>1. server'.table = Fields /\ server'.db = server.db BY <1>1, <1>5
    <2>2. Fields \in Seq(Columns) /\ IsInjective(Fields) /\ Fields # <<>>
        <3>1. ToSet(Fields) \subseteq Columns BY DEF Columns
        <3> QED BY <3>1, ManagerAssumption
    <2>3. server' \in [db : BOOLEAN, table : Seq(Columns)] BY <1>1, <1>5, <2>2
    <2>4. server.db BY <1>5 DEF Good
    <2>5. \A k \in Manager : pc[k] # "alter" BY <1>2, <1>5 DEF AddsTheRest
    <2>6. ToSet(<<>>) = {} BY DEF ToSet
    <2>7. ~Hopeless BY <1>5 DEF Hopeless
    <2> QED BY <1>5, <2>1, <2>2, <2>3, <2>4, <2>5, <2>6, <2>7
<1>6. CASE /\ pc[m] = "alter" /\ Head(todo[m]) \notin ToSet(server.table) \cup AutoIncrement
           /\ server' = [server EXCEPT !.table = Append(@, Head(todo[m]))]
    <2>. DEFINE h == Head(todo[m])
    <2>1. server'.table = Append(server.table, h) /\ server'.db = server.db BY <1>1, <1>6
    <2>2. todo[m] \in Seq(ToSet(Fields)) /\ todo[m] # <<>> /\ server.table # <<>>
          /\ ToSet(Fields) \subseteq ToSet(server.table) \cup ToSet(todo[m]) /\ Sorted(todo[m])
          /\ server.db
        BY <1>2, <1>6 DEF Types, AddsTheRest, Good
    <2>3. h \in ToSet(Fields) /\ h \in Columns
        BY <2>2, HeadTailProperties DEF Columns
    <2>4. h \notin ToSet(server.table) /\ h \notin AutoIncrement BY <1>6
    <2> HIDE DEF h
    <2>5. /\ server'.table \in Seq(Columns) /\ server'.table # <<>>
          /\ ToSet(server'.table) = ToSet(server.table) \cup {h} /\ IsInjective(server'.table)
        BY <1>1, <2>1, <2>3, <2>4, AppendHolds, AppendProperties
    <2>6. server' \in [db : BOOLEAN, table : Seq(Columns)]
        BY <1>1, <1>6, <2>1, <2>5
    <2>7. Hopeless => Hopeless'
        BY <2>4, <2>5 DEF Hopeless, addable
    <2>8. ASSUME NEW k \in Manager, pc[k] = "alter", Head(todo[k]) \notin ToSet(server'.table)
          PROVE  ToSet(todo[k]) \cap ToSet(server'.table) = {}
        <3>. DEFINE p == Head(todo[k])
        <3>1. /\ todo[k] \in Seq(ToSet(Fields)) /\ todo[k] # <<>> /\ Sorted(todo[k])
              /\ p \notin ToSet(server.table) => ToSet(todo[k]) \cap ToSet(server.table) = {}
            BY <1>2, <2>8 DEF Types, AddsTheRest
        <3>2. p \in ToSet(Fields) BY <3>1, HeadTailProperties
        <3>3. p \notin ToSet(server.table) /\ p # h BY <2>5, <2>8
        <3>4. p \in ToSet(todo[m]) BY <2>2, <3>2, <3>3
        <3>5. h \notin ToSet(todo[k])
            BY <2>2, <3>1, <3>3, <3>4, SameOrder DEF h
        <3> QED BY <2>5, <3>1, <3>3, <3>5
    <2> QED BY <1>1, <2>1, <2>2, <2>5, <2>6, <2>7, <2>8
<1> QED BY <1>3, <1>4, <1>5, <1>6, AfterIs DEF serves

\* What nobody but m has seen of a step, m's own part left aside.
LEMMA OthersGood ==
    ASSUME IInv, NEW m \in Manager, serves(m), NEW k \in Manager, k # m,
           pc'[k] = pc[k], todo'[k] = todo[k], link'[k] = link[k], retried'[k] = retried[k],
           k \in misread' <=> k \in misread, k \in disturbed => k \in disturbed',
           server' = server \/ k \in disturbed', faults' = 0 => faults = 0
    PROVE  Good(k)'
<1>. USE DEF IInv
<1>1. Good(k) OBVIOUS
<1>2. /\ server.db => server'.db
      /\ server.table # <<>> => server'.table # <<>>
      /\ ToSet(server.table) \subseteq ToSet(server'.table)
      /\ server.table = <<>> => server'.table = <<>> \/ ToSet(server'.table) = ToSet(Fields)
      /\ pc[k] = "alter" /\ Head(todo[k]) \notin ToSet(server'.table) =>
                ToSet(todo[k]) \cap ToSet(server'.table) = {}
    BY ServerGrows
<1>3. pc'[k] \in {"desc", "create_table", "alter"} => server'.db BY <1>1, <1>2 DEF Good
<1>4. pc'[k] = "alter" => AddsTheRest(k)' BY <1>1, <1>2 DEF Good, AddsTheRest
<1>5. complete => complete' BY <1>2 DEF complete
<1>6. /\ k \notin misread' /\ pc'[k] = "create_table" => server'.table = <<>> \/ complete'
      /\ k \notin misread' /\ pc'[k] = "true" => complete'
    BY <1>1, <1>2, <1>5 DEF Good, complete
<1>7. ASSUME k \notin disturbed' PROVE Unsurprised(k)'
    <2>1. server' = server /\ k \notin disturbed BY <1>7
    <2>2. Unsurprised(k) BY <1>1, <2>1 DEF Good
    <2> QED BY <2>1, <2>2 DEF Unsurprised, addable
<1>8. k \notin disturbed' \/ faults' = 0 =>
         (pc'[k] \in Statement => link'[k] = "up" /\ ~retried'[k])
    BY <1>1 DEF Good
<1> QED BY <1>3, <1>4, <1>6, <1>7, <1>8 DEF Good

(***************************************************************************)
(* Steps.                                                                  *)
(***************************************************************************)
\* A step of m leaves the others where they are, and disturbs all of them when it changes
\* the schema.
leavesOthers(m) ==
    /\ \A k \in Manager \ {m} :
         /\ pc'[k] = pc[k] /\ todo'[k] = todo[k]
         /\ link'[k] = link[k] /\ retried'[k] = retried[k]
         /\ k \in misread' <=> k \in misread
         /\ k \in disturbed => k \in disturbed'
         /\ server' = server \/ k \in disturbed'
    /\ faults' = 0 => faults = 0

\* The way a step of m may take without a fault: on to `true', or into what somebody else
\* was faster with, or to a column that cannot be added.
staysOnTheWay(m) ==
    faults' = 0 => \/ OnTheWay(m)' \/ Hopeless'
                   \/ server' = server /\ ~OnTheWay(m)

\* What has to be shown of each step of a process.
LEMMA Preserved ==
    ASSUME IInv, NEW m \in Manager, Types', serves(m), leavesOthers(m), Good(m)',
           staysOnTheWay(m)
    PROVE  IInv'
<1>1. \A k \in Manager : Good(k)'
    <2>. SUFFICES ASSUME NEW k \in Manager, k # m PROVE Good(k)'
        OBVIOUS
    <2>1. /\ pc'[k] = pc[k] /\ todo'[k] = todo[k] /\ link'[k] = link[k]
          /\ retried'[k] = retried[k] /\ (k \in misread' <=> k \in misread)
          /\ (k \in disturbed => k \in disturbed')
          /\ server' = server \/ k \in disturbed'
          /\ faults' = 0 => faults = 0
        BY DEF leavesOthers
    <2> QED BY <2>1, OthersGood
<1>2. server'.table # <<>> => server'.db /\ (Hopeless => Hopeless') BY ServerGrows
<1>3. Hopeless => Hopeless' BY ServerGrows
<1>4. ASSUME faults' = 0, ~Hopeless' PROVE \E k \in Manager : OnTheWay(k)'
    <2>1. PICK k \in Manager : OnTheWay(k)
        BY <1>3, <1>4 DEF leavesOthers, IInv
    <2>2. CASE OnTheWay(m)' BY <2>2
    <2>3. CASE server' = server /\ ~OnTheWay(m)
        <3>1. k # m BY <2>1, <2>3
        <3>2. pc'[k] = pc[k] /\ todo'[k] = todo[k] BY <3>1 DEF leavesOthers
        <3>3. OnTheWay(k)' BY <2>1, <2>3, <3>2 DEF OnTheWay
        <3> QED BY <3>3
    <2> QED BY <1>4, <2>2, <2>3 DEF staysOnTheWay
<1> QED BY <1>1, <1>2, <1>4 DEF IInv

\* Going to the next statement or result.
LEMMA GoesTo ==
    ASSUME Types, NEW m \in Manager, NEW s, goTo(m, s),
           s \in {"idle", "connect", "use", "crashed"} \cup Statement \cup Returned
    PROVE  /\ pc' \in [Manager -> {"idle", "connect", "use", "crashed"}
                                    \cup Statement \cup Returned]
           /\ retried' \in [Manager -> BOOLEAN]
           /\ pc'[m] = s /\ retried'[m] = FALSE
           /\ \A k \in Manager \ {m} : pc'[k] = pc[k] /\ retried'[k] = retried[k]
BY DEF Types, goTo

\* A fault is counted, and disturbs the process, or all when the schema changes with it.
LEMMA Counted ==
    ASSUME Types, NEW m \in Manager, faulty(m)
    PROVE  /\ faults' \in 0 .. MaxFaults /\ faults' # 0
           /\ disturbed' \subseteq Manager /\ m \in disturbed'
           /\ \A k \in Manager : k \in disturbed => k \in disturbed'
           /\ server' = server \/ \A k \in Manager : k \in disturbed'
<1>1. faults \in Nat /\ MaxFaults \in Nat /\ disturbed \subseteq Manager
    BY ManagerAssumption DEF Types
<1>2. faults' = faults + 1 /\ faults < MaxFaults
      /\ disturbed' = (disturbed \cup {m}) \cup (IF server' = server THEN {} ELSE Manager)
    BY DEF faulty
<1> QED BY <1>1, <1>2

\* A call of init(), and a connection that is made.
LEMMA Connecting ==
    ASSUME IInv, NEW m \in Manager, InitCall(m) \/ Connects(m)
    PROVE  IInv'
<1>1. Types BY DEF IInv
<1>2. CASE InitCall(m)
    <2>. USE <1>2 DEF InitCall
    <2>1. /\ pc' \in [Manager -> {"idle", "connect", "use", "crashed"}
                                    \cup Statement \cup Returned]
          /\ retried' \in [Manager -> BOOLEAN]
          /\ pc'[m] = "connect" /\ retried'[m] = FALSE
          /\ \A k \in Manager \ {m} : pc'[k] = pc[k] /\ retried'[k] = retried[k]
        BY <1>1, GoesTo
    <2>2. link' \in [Manager -> {"none", "up", "gone"}]
          /\ \A k \in Manager \ {m} : link'[k] = link[k]
        BY <1>1 DEF Types
    <2>3. inits' \in 0 .. MaxInits BY <1>1, ManagerAssumption DEF Types
    <2>4. Types' BY <1>1, <2>1, <2>2, <2>3 DEF Types
    <2>5. leavesOthers(m) BY <2>1, <2>2 DEF leavesOthers
    <2>6. Good(m)' BY <2>1 DEF Good, Unsurprised, Statement, Query, Execute
    <2>7. staysOnTheWay(m) BY <2>1 DEF staysOnTheWay, OnTheWay
    <2>8. serves(m) BY DEF serves
    <2> QED BY <2>4, <2>5, <2>6, <2>7, <2>8, Preserved
<1>3. CASE Connects(m)
    <2>. USE <1>3 DEF Connects
    <2>1. PICK s \in {"show", "desc"} : goTo(m, s) /\ (s = "desc" => server.db) OBVIOUS
    <2>2. /\ pc' \in [Manager -> {"idle", "connect", "use", "crashed"}
                                    \cup Statement \cup Returned]
          /\ retried' \in [Manager -> BOOLEAN]
          /\ pc'[m] = s /\ retried'[m] = FALSE
          /\ \A k \in Manager \ {m} : pc'[k] = pc[k] /\ retried'[k] = retried[k]
        BY <1>1, <2>1, GoesTo DEF Statement, Query
    <2>3. link' \in [Manager -> {"none", "up", "gone"}] /\ link'[m] = "up"
          /\ \A k \in Manager \ {m} : link'[k] = link[k]
        BY <1>1 DEF Types
    <2>4. Types' BY <1>1, <2>2, <2>3 DEF Types
    <2>5. leavesOthers(m) BY <2>2, <2>3 DEF leavesOthers
    <2>6. Good(m)' BY <2>1, <2>2, <2>3 DEF Good, Unsurprised
    <2>7. staysOnTheWay(m) BY <2>2 DEF staysOnTheWay, OnTheWay
    <2>8. serves(m) BY DEF serves
    <2> QED BY <2>4, <2>5, <2>6, <2>7, <2>8, Preserved
<1> QED BY <1>2, <1>3

\* The connection is refused, or the process is at an end.
LEMMA Giving ==
    ASSUME IInv, NEW m \in Manager, ConnectFails(m) \/ HandleFaults(m)
    PROVE  IInv'
<1>1. Types BY DEF IInv
<1>2. CASE ConnectFails(m)
    <2>. USE <1>2 DEF ConnectFails
    <2>1. /\ pc' \in [Manager -> {"idle", "connect", "use", "crashed"}
                                    \cup Statement \cup Returned]
          /\ retried' \in [Manager -> BOOLEAN]
          /\ pc'[m] = "false" /\ retried'[m] = FALSE
          /\ \A k \in Manager \ {m} : pc'[k] = pc[k] /\ retried'[k] = retried[k]
        BY <1>1, GoesTo DEF Returned
    <2>2. link' \in [Manager -> {"none", "up", "gone"}]
          /\ \A k \in Manager \ {m} : link'[k] = link[k]
        BY <1>1 DEF Types
    <2>3. /\ faults' \in 0 .. MaxFaults /\ faults' # 0
          /\ disturbed' \subseteq Manager /\ m \in disturbed'
          /\ \A k \in Manager : k \in disturbed => k \in disturbed'
        BY <1>1, Counted
    <2>4. Types' BY <1>1, <2>1, <2>2, <2>3 DEF Types
    <2>5. leavesOthers(m) BY <2>1, <2>2, <2>3 DEF leavesOthers
    <2>6. Good(m)' BY <2>1, <2>3 DEF Good
    <2>7. staysOnTheWay(m) BY <2>3 DEF staysOnTheWay
    <2>8. serves(m) BY DEF serves
    <2> QED BY <2>4, <2>5, <2>6, <2>7, <2>8, Preserved
<1>3. CASE HandleFaults(m)
    <2>. USE <1>3 DEF HandleFaults
    <2>1. /\ pc' \in [Manager -> {"idle", "connect", "use", "crashed"}
                                    \cup Statement \cup Returned]
          /\ retried' \in [Manager -> BOOLEAN]
          /\ pc'[m] = "crashed" /\ retried'[m] = FALSE
          /\ \A k \in Manager \ {m} : pc'[k] = pc[k] /\ retried'[k] = retried[k]
        BY <1>1, GoesTo
    <2>2. Types' BY <1>1, <2>1 DEF Types
    <2>3. leavesOthers(m) BY <2>1 DEF leavesOthers
    <2>4. Good(m)' BY <2>1 DEF Good, Statement, Query, Execute
    <2>5. staysOnTheWay(m) BY <2>1 DEF staysOnTheWay, OnTheWay
    <2>6. serves(m) BY DEF serves
    <2> QED BY <2>2, <2>3, <2>4, <2>5, <2>6, Preserved
<1> QED BY <1>2, <1>3

\* A statement that is given up after a fault, whether or not the server carried it out:
\* init() goes on as if there were no database or no table, or returns false.
LEMMA GivesUp ==
    ASSUME IInv, NEW m \in Manager, pc[m] \in Statement, goTo(m, onFailure(m)), misreads(m),
           link' \in [Manager -> {"none", "up", "gone"}],
           \A k \in Manager \ {m} : link'[k] = link[k],
           serves(m), UNCHANGED <<todo, inits>>,
           faults' \in 0 .. MaxFaults, faults' # 0, disturbed' \subseteq Manager, m \in disturbed',
           \A k \in Manager : k \in disturbed => k \in disturbed',
           server' = server \/ \A k \in Manager : k \in disturbed'
    PROVE  IInv'
<1>1. Types /\ Good(m) BY DEF IInv
<1>2. \/ pc[m] = "show" /\ onFailure(m) = "create"
      \/ pc[m] = "desc" /\ onFailure(m) = "create_table"
      \/ pc[m] \in Execute /\ onFailure(m) = "false"
    BY DEF onFailure, Statement, Query, Execute
<1>3. onFailure(m) \in {"idle", "connect", "use", "crashed"} \cup Statement \cup Returned
    BY <1>2 DEF Statement, Query, Execute, Returned
<1>4. /\ pc' \in [Manager -> {"idle", "connect", "use", "crashed"} \cup Statement \cup Returned]
      /\ retried' \in [Manager -> BOOLEAN]
      /\ pc'[m] = onFailure(m) /\ retried'[m] = FALSE
      /\ \A k \in Manager \ {m} : pc'[k] = pc[k] /\ retried'[k] = retried[k]
    BY <1>1, <1>3, GoesTo
<1>5. /\ misread' \subseteq Manager
      /\ \A k \in Manager \ {m} : k \in misread' <=> k \in misread
      /\ (pc[m] = "desc" /\ m \notin misread' => server.table = <<>>)
    BY <1>1 DEF misreads, Types
<1>6. server' \in [db : BOOLEAN, table : Seq(Columns)] /\ IsInjective(server'.table)
    BY ServerGrows
<1>7. Types' BY <1>1, <1>4, <1>5, <1>6 DEF Types
<1>8. leavesOthers(m) BY <1>4, <1>5 DEF leavesOthers
<1>9. CASE pc[m] = "desc"
    <2>1. server' = server BY <1>9 DEF serves, after, createTable
    <2>2. pc'[m] = "create_table" BY <1>2, <1>4, <1>9 DEF Execute
    <2>3. server.db BY <1>1, <1>9 DEF Good
    <2>4. Good(m)' BY <1>5, <1>9, <2>1, <2>2, <2>3 DEF Good
    <2>5. staysOnTheWay(m) BY DEF staysOnTheWay
    <2> QED BY <1>7, <1>8, <2>4, <2>5, Preserved
<1>10. CASE pc[m] # "desc"
    <2>1. pc'[m] \in {"create", "false"} BY <1>2, <1>4, <1>10
    <2>2. Good(m)' BY <2>1 DEF Good
    <2>3. staysOnTheWay(m) BY DEF staysOnTheWay
    <2> QED BY <1>7, <1>8, <2>2, <2>3, Preserved
<1> QED BY <1>9, <1>10

\* Without a connection a process has been disturbed, and a fault has been counted.
LEMMA LostConnection ==
    ASSUME IInv, NEW m \in Manager, pc[m] \in Statement, link[m] # "up"
    PROVE  m \in disturbed /\ faults # 0
BY DEF IInv, Good

\* An answer that does not arrive.
LEMMA NoAnswer ==
    ASSUME IInv, NEW m \in Manager,
           Refused(m) \/ ReconnectFails(m) \/ GoneAgain(m) \/ NoHandle(m)
    PROVE  IInv'
<1>1. Types BY DEF IInv
<1>2. link \in [Manager -> {"none", "up", "gone"}] /\ faults \in 0 .. MaxFaults
      /\ disturbed \subseteq Manager
    BY <1>1 DEF Types
<1>3. CASE Refused(m)
    <2>. USE <1>3 DEF Refused
    <2>1. serves(m) BY DEF serves
    <2>2. /\ faults' \in 0 .. MaxFaults /\ faults' # 0
          /\ disturbed' \subseteq Manager /\ m \in disturbed'
          /\ \A k \in Manager : k \in disturbed => k \in disturbed'
          /\ server' = server \/ \A k \in Manager : k \in disturbed'
        BY <1>1, Counted
    <2> QED BY <1>2, <2>1, <2>2, GivesUp
<1>4. CASE ReconnectFails(m)
    <2>. USE <1>4 DEF ReconnectFails
    <2>1. serves(m) BY DEF serves
    <2>2. /\ faults' \in 0 .. MaxFaults /\ faults' # 0
          /\ disturbed' \subseteq Manager /\ m \in disturbed'
          /\ \A k \in Manager : k \in disturbed => k \in disturbed'
          /\ server' = server \/ \A k \in Manager : k \in disturbed'
        BY <1>1, Counted
    <2>3. link' \in [Manager -> {"none", "up", "gone"}]
          /\ \A k \in Manager \ {m} : link'[k] = link[k]
        BY <1>2
    <2> QED BY <2>1, <2>2, <2>3, GivesUp
<1>5. CASE GoneAgain(m)
    <2>. USE <1>5 DEF GoneAgain
    <2>1. serves(m) BY DEF serves
    <2>2. m \in disturbed /\ faults # 0 BY LostConnection
    <2> QED BY <1>2, <2>1, <2>2, GivesUp
<1>6. CASE NoHandle(m)
    <2>. USE <1>6 DEF NoHandle
    <2>1. serves(m) BY DEF serves
    <2>2. m \in disturbed /\ faults # 0 BY LostConnection DEF Statement
    <2>3. pc[m] \in Statement /\ pc[m] # "desc" /\ onFailure(m) = "false"
        BY DEF Statement, Execute, onFailure
    <2>4. goTo(m, onFailure(m)) /\ misreads(m) BY <2>3 DEF misreads
    <2> QED BY <1>2, <2>1, <2>2, <2>3, <2>4, GivesUp
<1> QED BY <1>3, <1>4, <1>5, <1>6

\* A connection that is lost, or made again for the statement.
LEMMA ComesAndGoes ==
    ASSUME IInv, NEW m \in Manager, Drops(m) \/ Reconnects(m)
    PROVE  IInv'
<1>1. Types /\ Good(m) BY DEF IInv
<1>2. CASE Drops(m)
    <2>. USE <1>2 DEF Drops
    <2>1. /\ faults' \in 0 .. MaxFaults /\ faults' # 0
          /\ disturbed' \subseteq Manager /\ m \in disturbed'
          /\ \A k \in Manager : k \in disturbed => k \in disturbed'
        BY <1>1, Counted
    <2>2. link' \in [Manager -> {"none", "up", "gone"}]
          /\ \A k \in Manager \ {m} : link'[k] = link[k]
        BY <1>1 DEF Types
    <2>3. Types' BY <1>1, <2>1, <2>2 DEF Types
    <2>4. leavesOthers(m) BY <2>1, <2>2 DEF leavesOthers
    <2>5. Good(m)' BY <1>1, <2>1 DEF Good, AddsTheRest, complete
    <2>6. staysOnTheWay(m) BY <2>1 DEF staysOnTheWay
    <2>7. serves(m) BY DEF serves
    <2> QED BY <2>3, <2>4, <2>5, <2>6, <2>7, Preserved
<1>3. CASE Reconnects(m)
    <2>. USE <1>3 DEF Reconnects
    <2>1. m \in disturbed /\ faults # 0 BY LostConnection
    <2>2. /\ link' \in [Manager -> {"none", "up", "gone"}]
          /\ retried' \in [Manager -> BOOLEAN]
          /\ \A k \in Manager \ {m} : link'[k] = link[k] /\ retried'[k] = retried[k]
        BY <1>1 DEF Types
    <2>3. Types' BY <1>1, <2>2 DEF Types
    <2>4. leavesOthers(m) BY <2>2 DEF leavesOthers
    <2>5. Good(m)' BY <1>1, <2>1 DEF Good, AddsTheRest, complete
    <2>6. staysOnTheWay(m) BY <2>1 DEF staysOnTheWay
    <2>7. serves(m) BY DEF serves
    <2> QED BY <2>3, <2>4, <2>5, <2>6, <2>7, Preserved
<1> QED BY <1>2, <1>3

\* What the server holds is in the way: the database is there already, the table is not, a
\* column is there already or cannot be added.
LEMMA InTheWay ==
    ASSUME IInv, NEW m \in Manager, Rejected(m)
    PROVE  IInv'
<1>. USE DEF Rejected
<1>1. Types /\ Good(m) BY DEF IInv
<1>2. serves(m) BY DEF serves
<1>3. PICK s \in {"create_table", "false"} :
          /\ goTo(m, s)
          /\ \/ s = "create_table" /\ pc[m] = "desc" /\ server.table = <<>>
             \/ s = "false" /\ pc[m] = "create" /\ server.db
             \/ s = "false" /\ pc[m] = "alter"
                  /\ Head(todo[m]) \in ToSet(server.table) \cup AutoIncrement
    <2>1. CASE pc[m] = "create" BY <1>1, <2>1 DEF accepts, onFailure, Types
    <2>2. CASE pc[m] = "desc" BY <2>2 DEF accepts, onFailure
    <2>3. CASE pc[m] = "alter" BY <2>3 DEF accepts, onFailure
    <2>4. CASE pc[m] \in {"show", "create_table"} BY <2>4 DEF accepts
    <2> QED BY <2>1, <2>2, <2>3, <2>4 DEF Statement, Query, Execute
<1>4. /\ pc' \in [Manager -> {"idle", "connect", "use", "crashed"} \cup Statement \cup Returned]
      /\ retried' \in [Manager -> BOOLEAN]
      /\ pc'[m] = s /\ retried'[m] = FALSE
      /\ \A k \in Manager \ {m} : pc'[k] = pc[k] /\ retried'[k] = retried[k]
    BY <1>1, <1>3, GoesTo DEF Statement, Execute, Returned
<1>5. Types' BY <1>1, <1>4 DEF Types
<1>6. leavesOthers(m) BY <1>4 DEF leavesOthers
<1>7. CASE s = "create_table"
    <2>1. pc[m] = "desc" /\ server.table = <<>> /\ server.db BY <1>1, <1>3, <1>7 DEF Good
    <2>2. Good(m)' BY <1>4, <1>7, <2>1 DEF Good, Unsurprised
    <2>3. staysOnTheWay(m) BY <1>4, <1>7 DEF staysOnTheWay, OnTheWay
    <2> QED BY <1>2, <1>5, <1>6, <2>2, <2>3, Preserved
<1>8. CASE s = "false" /\ pc[m] = "create" /\ server.db
    <2>1. m \in disturbed BY <1>1, <1>8 DEF Good, Unsurprised
    <2>2. Good(m)' BY <1>4, <1>8, <2>1 DEF Good, Statement, Query, Execute
    <2>3. staysOnTheWay(m) BY <1>8 DEF staysOnTheWay, OnTheWay
    <2> QED BY <1>2, <1>5, <1>6, <2>2, <2>3, Preserved
<1>9. CASE s = "false" /\ pc[m] = "alter"
             /\ Head(todo[m]) \in ToSet(server.table) \cup AutoIncrement
    <2>1. server.table # <<>> BY <1>1, <1>9 DEF Good, AddsTheRest
    <2>2. Head(todo[m]) \in ToSet(server.table) \/ ~addable BY <1>9 DEF addable
    <2>3. addable' <=> addable BY DEF addable
    <2>4. m \notin disturbed => ~addable BY <1>1, <1>9, <2>2 DEF Good, Unsurprised
    <2>5. Good(m)' BY <1>4, <1>9, <2>3, <2>4 DEF Good, Unsurprised, Statement, Query, Execute
    <2>6. staysOnTheWay(m)
        BY <1>9, <2>1, <2>2, <2>3 DEF staysOnTheWay, OnTheWay, Hopeless
    <2> QED BY <1>2, <1>5, <1>6, <2>5, <2>6, Preserved
<1> QED BY <1>3, <1>7, <1>8, <1>9

\* What all accepted statements have in common once it is known where init() goes.
LEMMA AnswerArrives ==
    ASSUME IInv, NEW m \in Manager, Accepted(m), NEW s, goTo(m, s),
           s \in {"use", "false", "true"} \cup Statement,
           NEW t \in Seq(ToSet(Fields)), IsInjective(t), todo' = [todo EXCEPT ![m] = t]
    PROVE  /\ Types' /\ leavesOthers(m) /\ serves(m)
           /\ pc'[m] = s /\ todo'[m] = t /\ link'[m] = "up" /\ retried'[m] = FALSE
           /\ misread' = misread /\ faults' = faults
           /\ m \in disturbed <=> m \in disturbed'
<1>. USE DEF Accepted
<1>1. Types BY DEF IInv
<1>2. serves(m) BY DEF serves
<1>3. server' \in [db : BOOLEAN, table : Seq(Columns)] /\ IsInjective(server'.table)
    BY <1>2, ServerGrows
<1>4. /\ pc' \in [Manager -> {"idle", "connect", "use", "crashed"} \cup Statement \cup Returned]
      /\ retried' \in [Manager -> BOOLEAN]
      /\ pc'[m] = s /\ retried'[m] = FALSE
      /\ \A k \in Manager \ {m} : pc'[k] = pc[k] /\ retried'[k] = retried[k]
    BY <1>1, GoesTo DEF Returned
<1>5. /\ todo' \in [Manager -> Seq(ToSet(Fields))] /\ todo'[m] = t
      /\ \A k \in Manager \ {m} : todo'[k] = todo[k]
      /\ \A k \in Manager : IsInjective(todo'[k])
    BY <1>1 DEF Types
<1>6. /\ disturbed' \subseteq Manager
      /\ m \in disturbed <=> m \in disturbed'
      /\ \A k \in Manager \ {m} :
            (k \in disturbed => k \in disturbed') /\ (server' = server \/ k \in disturbed')
    BY <1>1 DEF Types
<1>7. Types' BY <1>1, <1>3, <1>4, <1>5, <1>6 DEF Types
<1>8. leavesOthers(m) BY <1>4, <1>5, <1>6 DEF leavesOthers
<1> QED BY <1>2, <1>4, <1>5, <1>6, <1>7, <1>8

\* A statement that had to be repeated counts as failed, although it was carried out.
LEMMA RepeatedFails ==
    ASSUME IInv, NEW m \in Manager, Accepted(m), pc[m] \in Execute, retried[m]
    PROVE  IInv'
<1>1. goTo(m, "false") /\ todo' = todo BY DEF Accepted
<1>2. /\ todo[m] \in Seq(ToSet(Fields)) /\ IsInjective(todo[m])
      /\ todo' = [todo EXCEPT ![m] = todo[m]]
    BY <1>1 DEF IInv, Types
<1>3. /\ Types' /\ leavesOthers(m) /\ serves(m)
      /\ pc'[m] = "false" /\ faults' = faults /\ (m \in disturbed <=> m \in disturbed')
    BY <1>1, <1>2, AnswerArrives
<1>4. m \in disturbed /\ faults # 0 BY DEF IInv, Good, Statement
<1>5. Good(m)' BY <1>3, <1>4 DEF Good, Statement, Query, Execute
<1>6. staysOnTheWay(m) BY <1>3, <1>4 DEF staysOnTheWay
<1> QED BY <1>3, <1>5, <1>6, Preserved

\* The database is found or made.
LEMMA FindsDatabase ==
    ASSUME IInv, NEW m \in Manager, Accepted(m), ~(pc[m] \in Execute /\ retried[m]),
           pc[m] \in {"show", "create"}
    PROVE  IInv'
<1>1. Types BY DEF IInv
<1>2. goTo(m, onSuccess(m)) /\ todo' = [todo EXCEPT ![m] = todo[m]]
    BY DEF Accepted, todoAfter
<1>3. todo[m] \in Seq(ToSet(Fields)) /\ IsInjective(todo[m]) BY <1>1 DEF Types
<1>4. \/ onSuccess(m) = "use" /\ server'.db
      \/ onSuccess(m) = "create" /\ ~server'.db
    <2>1. CASE pc[m] = "show"
        <3>1. server' = server BY <2>1 DEF Accepted, after, createTable
        <3> QED BY <2>1, <3>1 DEF onSuccess, isDBExist
    <2>2. CASE pc[m] = "create"
        <3>1. server'.db = TRUE BY <1>1, <2>2 DEF Accepted, after, createTable, Types
        <3> QED BY <2>2, <3>1 DEF onSuccess, isDBExist
    <2> QED BY <2>1, <2>2
<1>5. /\ Types' /\ leavesOthers(m) /\ serves(m)
      /\ pc'[m] = onSuccess(m) /\ link'[m] = "up" /\ retried'[m] = FALSE
    BY <1>2, <1>3, <1>4, AnswerArrives DEF Statement, Execute
<1>6. Good(m)' BY <1>4, <1>5 DEF Good, Unsurprised
<1>7. staysOnTheWay(m) BY <1>4, <1>5 DEF staysOnTheWay, OnTheWay
<1> QED BY <1>5, <1>6, <1>7, Preserved

\* The columns are read and compared.
LEMMA ReadsTable ==
    ASSUME IInv, NEW m \in Manager, Accepted(m), pc[m] = "desc"
    PROVE  IInv'
<1>1. Good(m) BY DEF IInv
<1>2. /\ goTo(m, IF missing = <<>> THEN "true" ELSE "alter")
      /\ todo' = [todo EXCEPT ![m] = missing]
      /\ server' = server /\ server.table # <<>>
    BY DEF Accepted, onSuccess, isDBExist, todoAfter, after, createTable, accepts, Execute
<1>3. /\ missing \in Seq(ToSet(Fields)) /\ IsInjective(missing) /\ Sorted(missing)
      /\ ToSet(missing) = ToSet(Fields) \ ToSet(server.table)
    BY MissingHolds
<1>4. server.db BY <1>1 DEF Good
<1>. DEFINE t == missing
<1> HIDE DEF t
<1>5. CASE t = <<>>
    <2>1. goTo(m, "true") BY <1>2, <1>5 DEF t
    <2>2. /\ Types' /\ leavesOthers(m) /\ serves(m) /\ pc'[m] = "true"
        BY <1>2, <1>3, <2>1, AnswerArrives DEF t
    <2>3. ToSet(t) = {} BY <1>5 DEF ToSet
    <2>4. complete' BY <1>2, <1>3, <2>3 DEF complete, t
    <2>5. Good(m)' BY <2>2, <2>4 DEF Good, Unsurprised, Statement, Query, Execute
    <2>6. staysOnTheWay(m) BY <2>2 DEF staysOnTheWay, OnTheWay
    <2> QED BY <2>2, <2>5, <2>6, Preserved
<1>6. CASE t # <<>>
    <2>1. goTo(m, "alter") BY <1>2, <1>6 DEF t
    <2>2. /\ Types' /\ leavesOthers(m) /\ serves(m)
          /\ pc'[m] = "alter" /\ todo'[m] = t /\ link'[m] = "up" /\ retried'[m] = FALSE
        BY <1>2, <1>3, <2>1, AnswerArrives DEF t, Statement, Execute
    <2>3. t \in Seq(ToSet(Fields)) /\ Sorted(t) /\ ToSet(t) = ToSet(Fields) \ ToSet(server.table)
        BY <1>3 DEF t
    <2>4. Head(t) \notin ToSet(server.table) BY <1>6, <2>3, TailHolds
    <2>5. AddsTheRest(m)' BY <1>2, <1>6, <2>2, <2>3 DEF AddsTheRest, Sorted
    <2>6. Good(m)' BY <1>2, <1>4, <2>2, <2>4, <2>5 DEF Good, Unsurprised
    <2>7. staysOnTheWay(m) BY <1>2, <2>2, <2>4 DEF staysOnTheWay, OnTheWay
    <2> QED BY <2>2, <2>6, <2>7, Preserved
<1> QED BY <1>5, <1>6

\* The table is made, unless another process was faster: then it is complete.
LEMMA MakesTable ==
    ASSUME IInv, NEW m \in Manager, Accepted(m), ~retried[m], pc[m] = "create_table"
    PROVE  IInv'
<1>1. Types /\ Good(m) BY DEF IInv
<1>2. goTo(m, "true") /\ todo' = [todo EXCEPT ![m] = todo[m]]
    BY DEF Accepted, onSuccess, isDBExist, todoAfter
<1>3. todo[m] \in Seq(ToSet(Fields)) /\ IsInjective(todo[m]) BY <1>1 DEF Types
<1>4. /\ Types' /\ leavesOthers(m) /\ serves(m)
      /\ pc'[m] = "true" /\ misread' = misread
    BY <1>2, <1>3, AnswerArrives
<1>5. m \notin misread => complete'
    <2>1. CASE server.table = <<>>
        <3>1. server'.table = Fields BY <1>1, <2>1 DEF Accepted, after, createTable, Types
        <3> QED BY <3>1 DEF complete
    <2>2. CASE server.table # <<>>
        <3>1. server' = server BY <2>2 DEF Accepted, after, createTable
        <3> QED BY <1>1, <2>2, <3>1 DEF Good, complete
    <2> QED BY <2>1, <2>2
<1>6. Good(m)' BY <1>4, <1>5 DEF Good, Unsurprised, Statement, Query, Execute
<1>7. staysOnTheWay(m) BY <1>4 DEF staysOnTheWay, OnTheWay
<1> QED BY <1>4, <1>6, <1>7, Preserved

\* A column is added; the next one is not there either, or it was the last.
LEMMA AddsColumn ==
    ASSUME IInv, NEW m \in Manager, Accepted(m), ~retried[m], pc[m] = "alter"
    PROVE  IInv'
<1>. DEFINE t == todo[m]
            h == Head(t)
            u == Tail(t)
<1>1. Types /\ AddsTheRest(m) /\ server.db BY DEF IInv, Good
<1>2. goTo(m, IF Len(t) = 1 THEN "true" ELSE "alter") /\ todo' = [todo EXCEPT ![m] = u]
    BY DEF Accepted, onSuccess, isDBExist, todoAfter
<1>3. t \in Seq(ToSet(Fields)) /\ IsInjective(t) /\ t # <<>> /\ Sorted(t)
    BY <1>1 DEF Types, AddsTheRest
<1>4. /\ h \notin ToSet(server.table)
      /\ server'.table = Append(server.table, h) /\ server'.db = server.db
    BY <1>1 DEF Accepted, accepts, after, createTable, Types
<1>5. /\ ToSet(Fields) \subseteq ToSet(server.table) \cup ToSet(t)
      /\ ToSet(t) \cap ToSet(server.table) = {}
    BY <1>1, <1>4 DEF AddsTheRest
<1> HIDE DEF t
<1>6. /\ h \in ToSet(Fields) /\ ToSet(t) = ToSet(u) \cup {h}
      /\ IsInjective(u) /\ h \notin ToSet(u)
    BY <1>3, TailHolds
<1>7. u \in Seq(ToSet(Fields)) /\ Len(u) = Len(t) - 1 /\ Len(t) \in Nat \ {0}
    BY <1>3, HeadTailProperties, LenProperties, EmptySeq
<1>8. Sorted(u) BY <1>3, TailSorted
<1>9. ToSet(server'.table) = ToSet(server.table) \cup {h} /\ server'.table # <<>>
    <2>1. server.table \in Seq(Columns) /\ h \in Columns BY <1>1, <1>6 DEF Types, Columns
    <2> HIDE DEF h
    <2> QED BY <1>4, <2>1, AppendHolds, AppendProperties
<1> HIDE DEF h, u
<1>10. CASE Len(t) = 1
    <2>1. goTo(m, "true") BY <1>2, <1>10
    <2>2. Types' /\ leavesOthers(m) /\ serves(m) /\ pc'[m] = "true"
        BY <1>2, <1>6, <1>7, <2>1, AnswerArrives
    <2>3. u = <<>> BY <1>7, <1>10, EmptySeq
    <2>4. ToSet(u) = {} BY <2>3 DEF ToSet
    <2>5. complete' BY <1>5, <1>6, <1>9, <2>4 DEF complete
    <2>6. Good(m)' BY <2>2, <2>5 DEF Good, Unsurprised, Statement, Query, Execute
    <2>7. staysOnTheWay(m) BY <2>2 DEF staysOnTheWay, OnTheWay
    <2> QED BY <2>2, <2>6, <2>7, Preserved
<1>11. CASE Len(t) # 1
    <2>1. goTo(m, "alter") BY <1>2, <1>11
    <2>2. /\ Types' /\ leavesOthers(m) /\ serves(m)
          /\ pc'[m] = "alter" /\ todo'[m] = u /\ link'[m] = "up" /\ retried'[m] = FALSE
        BY <1>2, <1>6, <1>7, <2>1, AnswerArrives DEF Statement, Execute
    <2>3. u # <<>> BY <1>7, <1>11, EmptySeq
    <2>4. ToSet(u) \cap ToSet(server'.table) = {} BY <1>5, <1>6, <1>9
    <2>5. Head(u) \notin ToSet(server'.table) BY <1>7, <2>3, <2>4, TailHolds
    <2>6. ToSet(Fields) \subseteq ToSet(server'.table) \cup ToSet(u) BY <1>5, <1>6, <1>9
    <2>7. AddsTheRest(m)'
        BY <1>8, <1>9, <2>2, <2>3, <2>4, <2>6 DEF AddsTheRest, Sorted
    <2>8. Good(m)' BY <1>1, <1>4, <2>2, <2>5, <2>7 DEF Good, Unsurprised
    <2>9. staysOnTheWay(m) BY <2>2, <2>5 DEF staysOnTheWay, OnTheWay
    <2> QED BY <2>2, <2>8, <2>9, Preserved
<1> QED BY <1>10, <1>11

\* The answer the process waited for.
LEMMA Answered ==
    ASSUME IInv, NEW m \in Manager, Accepted(m)
    PROVE  IInv'
<1>1. CASE pc[m] \in Execute /\ retried[m] BY <1>1, RepeatedFails
<1>2. CASE ~(pc[m] \in Execute /\ retried[m])
    <2>1. CASE pc[m] \in {"show", "create"} BY <1>2, <2>1, FindsDatabase
    <2>2. CASE pc[m] = "desc" BY <2>2, ReadsTable
    <2>3. CASE pc[m] = "create_table" BY <1>2, <2>3, MakesTable DEF Execute
    <2>4. CASE pc[m] = "alter" BY <1>2, <2>4, AddsColumn DEF Execute
    <2>5. pc[m] \in Statement BY DEF Accepted
    <2> QED BY <2>1, <2>2, <2>3, <2>4, <2>5 DEF Statement, Query, Execute
<1> QED BY <1>1, <1>2

(***************************************************************************)
(* The tables the model speaks of.                                         *)
(***************************************************************************)
\* A table without a repeated column has at most one column more than the program's.
LEMMA TablesAre ==
    ASSUME NEW t
    PROVE  t \in OldTables <=> t \in Seq(Columns) /\ IsInjective(t)
<1>. DEFINE S == ToSet(Fields)
            N == Len(Fields)
<1>1. Fields \in Seq(S) /\ N \in Nat /\ DOMAIN Fields = 1 .. N
    BY ManagerAssumption, LenProperties
<1>2. Columns = S \cup {OtherColumn} BY DEF Columns
<1>3. ASSUME t \in OldTables PROVE t \in Seq(Columns) /\ IsInjective(t)
    <2>1. PICK n \in 0 .. N + 1 : t \in [1 .. n -> Columns]
        BY <1>3 DEF OldTables, Columns
    <2>2. n \in Nat BY <1>1, <2>1
    <2>3. t \in Seq(Columns) BY <2>1, <2>2, SeqDef
    <2> QED BY <1>3, <2>3 DEF OldTables
<1>4. ASSUME t \in Seq(Columns), IsInjective(t) PROVE t \in OldTables
    <2>1. Len(t) \in Nat /\ DOMAIN t = 1 .. Len(t) /\ t \in [1 .. Len(t) -> Columns]
        BY <1>4, LenProperties
    <2>2. IsFiniteSet(S) /\ Cardinality(S) <= N /\ Cardinality(S) \in Nat
        <3>1. Fields \in Surjection(1 .. N, S)
            BY <1>1 DEF Surjection, ToSet
        <3>2. IsFiniteSet(1 .. N) /\ Cardinality(1 .. N) = N BY <1>1, FS_Interval
        <3> HIDE DEF S
        <3>3. IsFiniteSet(S) /\ Cardinality(S) <= N BY <3>1, <3>2, FS_Surjection
        <3> QED BY <3>3, FS_CardinalityType
    <2>3. IsFiniteSet(Columns) /\ Cardinality(Columns) <= N + 1
        <3> HIDE DEF S, N
        <3>1. /\ IsFiniteSet(S \cup {OtherColumn})
              /\ Cardinality(S \cup {OtherColumn}) =
                   IF OtherColumn \in S THEN Cardinality(S) ELSE Cardinality(S) + 1
            BY <2>2, FS_AddElement
        <3>2. /\ IsFiniteSet(Columns)
              /\ Cardinality(Columns) =
                   IF OtherColumn \in S THEN Cardinality(S) ELSE Cardinality(S) + 1
            BY <1>2, <3>1
        <3> QED BY <1>1, <2>2, <3>2
    <2>4. Len(t) <= Cardinality(Columns)
        <3>1. t \in Injection(1 .. Len(t), Columns) BY <1>4, <2>1 DEF Injection
        <3>2. Cardinality(1 .. Len(t)) = Len(t) BY <2>1, FS_Interval
        <3> QED BY <2>3, <3>1, <3>2, FS_Injection
    <2>5. Cardinality(Columns) \in Nat BY <2>3, FS_CardinalityType
    <2>6. Len(t) \in 0 .. N + 1 BY <1>1, <2>1, <2>3, <2>4, <2>5
    <2> QED BY <1>4, <2>1, <2>6 DEF OldTables, Columns
<1> QED BY <1>3, <1>4

(***************************************************************************)
(* The invariant.                                                          *)
(***************************************************************************)
LEMMA InitHolds == Init => IInv
<1>. SUFFICES ASSUME Init PROVE IInv
    OBVIOUS
<1>. USE DEF Init
<1>1. /\ server.db \in BOOLEAN /\ server.table \in Seq(Columns) /\ IsInjective(server.table)
      /\ server \in [db : BOOLEAN, table : Seq(Columns)]
    <2>1. server.db \in BOOLEAN /\ server.table \in OldTables OBVIOUS
    <2>2. server.table \in Seq(Columns) /\ IsInjective(server.table) BY <2>1, TablesAre
    <2>3. server = [db |-> server.db, table |-> server.table] OBVIOUS
    <2> QED BY <2>1, <2>2, <2>3
<1>2. <<>> \in Seq(ToSet(Fields)) /\ IsInjective(<<>>) BY DEF IsInjective
<1>3. Types BY <1>1, <1>2, ManagerAssumption DEF Types
<1>4. \A m \in Manager : Good(m)
    BY DEF Good, Unsurprised, Statement, Query, Execute
<1>5. \E m \in Manager : OnTheWay(m) BY ManagerAssumption DEF OnTheWay
<1> QED BY <1>1, <1>3, <1>4, <1>5 DEF IInv

\* A step that changes nothing.
LEMMA StutterHolds == IInv /\ UNCHANGED vars => IInv'
BY DEF IInv, vars, Types, Good, AddsTheRest, Unsurprised, OnTheWay, Hopeless, complete,
       addable, Sorted

LEMMA StepHolds == IInv /\ [Next]_vars => IInv'
<1>. SUFFICES ASSUME IInv, [Next]_vars PROVE IInv'
    OBVIOUS
<1>1. CASE UNCHANGED vars BY <1>1, StutterHolds
<1>2. ASSUME NEW m \in Manager,
             \/ InitCall(m) \/ Connects(m) \/ ConnectFails(m) \/ HandleFaults(m)
             \/ Accepted(m) \/ Rejected(m) \/ Refused(m) \/ Drops(m)
             \/ Reconnects(m) \/ ReconnectFails(m) \/ GoneAgain(m) \/ NoHandle(m)
      PROVE  IInv'
    <2>1. CASE InitCall(m) \/ Connects(m) BY <2>1, Connecting
    <2>2. CASE ConnectFails(m) \/ HandleFaults(m) BY <2>2, Giving
    <2>3. CASE Accepted(m) BY <2>3, Answered
    <2>4. CASE Rejected(m) BY <2>4, InTheWay
    <2>5. CASE Refused(m) \/ ReconnectFails(m) \/ GoneAgain(m) \/ NoHandle(m)
        BY <2>5, NoAnswer
    <2>6. CASE Drops(m) \/ Reconnects(m) BY <2>6, ComesAndGoes
    <2> QED BY <1>2, <2>1, <2>2, <2>3, <2>4, <2>5, <2>6
<1> QED BY <1>1, <1>2 DEF Next

LEMMA Invariant == Spec => []IInv
<1>1. Init => IInv BY InitHolds
<1>2. IInv /\ [Next]_vars => IInv' BY StepHolds
<1> QED BY <1>1, <1>2, PTL DEF Spec

\* Every value keeps its type; a server without the database has no table, and who adds
\* columns has one to add.
THEOREM TypeCorrect == Spec => []TypeOK
<1>1. IInv => TypeOK
    <2>. SUFFICES ASSUME IInv PROVE TypeOK
        OBVIOUS
    <2>1. Types BY DEF IInv
    <2>2. server \in [db : BOOLEAN, table : OldTables]
        <3>1. server.db \in BOOLEAN /\ server.table \in OldTables BY <2>1, TablesAre DEF Types
        <3>2. server = [db |-> server.db, table |-> server.table] BY <2>1 DEF Types
        <3> QED BY <3>1, <3>2
    <2>3. ~server.db => server.table = <<>> BY DEF IInv
    <2>4. todo \in [Manager -> {t \in OldTables : ToSet(t) \subseteq ToSet(Fields)}]
        <3>1. ASSUME NEW m \in Manager
              PROVE  todo[m] \in OldTables /\ ToSet(todo[m]) \subseteq ToSet(Fields)
            <4>1. todo[m] \in Seq(ToSet(Fields)) /\ IsInjective(todo[m]) BY <2>1 DEF Types
            <4>2. todo[m] \in Seq(Columns) BY <4>1 DEF Columns
            <4>3. ToSet(todo[m]) \subseteq ToSet(Fields)
                <5>1. DOMAIN todo[m] = 1 .. Len(todo[m])
                      /\ \A i \in 1 .. Len(todo[m]) : todo[m][i] \in ToSet(Fields)
                    BY <4>1, LenProperties, ElementOfSeq
                <5> QED BY <5>1 DEF ToSet
            <4> QED BY <4>1, <4>2, <4>3, TablesAre
        <3> QED BY <2>1, <3>1 DEF Types
    <2>5. \A m \in Manager : pc[m] = "alter" => todo[m] # <<>>
        BY DEF IInv, Good, AddsTheRest
    <2> QED BY <2>1, <2>2, <2>3, <2>4, <2>5 DEF Types, TypeOK
<1> QED BY <1>1, Invariant, PTL

\* init() returns true only when the table has the program's columns, for any number of
\* processes that create and alter it together, whatever statements are repeated and
\* whatever answers are lost, except the answer to `desc' on a table that exists.
THEOREM TrueCorrect == Spec => []TrueMeansColumns
<1>1. IInv => TrueMeansColumns BY DEF IInv, Good, TrueMeansColumns
<1> QED BY <1>1, Invariant, PTL

\* init() returns false only after a fault of the server, after another process's change,
\* or for an AUTO_INCREMENT column that the table lacks.
THEOREM FailureCorrect == Spec => []FalseHasCause
<1>1. IInv => FalseHasCause BY DEF IInv, Good, Unsurprised, FalseHasCause
<1> QED BY <1>1, Invariant, PTL

\* Processes that start together never all fail, when the server does its work.
THEOREM SomeoneCorrect == Spec => []SomeoneSucceeds
<1>1. IInv => SomeoneSucceeds
    <2>. SUFFICES ASSUME IInv, faults = 0, addable, \A m \in Manager : pc[m] \in Returned
                  PROVE  \E m \in Manager : pc[m] = "true"
        BY DEF SomeoneSucceeds
    <2>1. PICK m \in Manager : OnTheWay(m) BY DEF IInv, Hopeless
    <2>2. pc[m] = "true" BY <2>1 DEF OnTheWay, Returned
    <2> QED BY <2>2
<1> QED BY <1>1, Invariant, PTL
=============================================================================
