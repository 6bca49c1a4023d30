-------------------------- MODULE MasterDemoProofs --------------------------
(***************************************************************************)
(* The safety of MasterDemo for any threads, vehicles, commands and number *)
(* of changes of the lists.                                                *)
(***************************************************************************)
EXTENDS MasterDemo, TLAPS, FiniteSetTheorems

-----------------------------------------------------------------------------
(* The operators that the display and the choice of a row are built from.  *)

\* A set of vehicles that is not empty has a least element.
LEMMA LeastIsFirst ==
  ASSUME NEW S \in SUBSET Nat, S # {}
  PROVE  Least(S) \in S /\ \A u \in S : Least(S) <= u
<1>1. PICK v \in S : \A u \in S : ~(<<u, v>> \in OpToRel(<, Nat))
  BY NatLessThanWellFounded, WFMin
<1>2. ASSUME NEW u \in S PROVE v <= u
  <2>1. ~(u < v)
    BY <1>1 DEF OpToRel
  <2> QED
    BY <2>1
<1> QED
  BY <1>2 DEF Least

\* In an ascending sequence there are i - 1 elements below the i-th.
LEMMA RankInAscending ==
  ASSUME NEW s \in Seq(Nat), Ascending(s), NEW i \in 1..Len(s)
  PROVE  Cardinality({u \in Range(s) : u < s[i]}) = i - 1
<1> DEFINE Below == {u \in Range(s) : u < s[i]}
           f == [j \in 1..(i - 1) |-> s[j]]
<1>1. DOMAIN s = 1..Len(s) /\ \A j \in 1..Len(s) : s[j] \in Nat
  OBVIOUS
<1>2. f \in [1..(i - 1) -> Below]
  <2>1. ASSUME NEW j \in 1..(i - 1) PROVE s[j] \in Below
    <3>1. j \in 1..Len(s) /\ j < i
      OBVIOUS
    <3>2. s[j] < s[i]
      BY <1>1, <3>1 DEF Ascending
    <3>3. s[j] \in Range(s)
      BY <1>1, <3>1 DEF Range
    <3> QED
      BY <3>2, <3>3
  <2> QED
    BY <2>1
<1>3. f \in Injection(1..(i - 1), Below)
  <2>1. ASSUME NEW a \in 1..(i - 1), NEW b \in 1..(i - 1), f[a] = f[b] PROVE a = b
    <3>1. a \in 1..Len(s) /\ b \in 1..Len(s) /\ s[a] = s[b]
      BY <2>1
    <3>2. s[a] \in Nat /\ ~(s[a] < s[b]) /\ ~(s[b] < s[a])
      BY <1>1, <3>1
    <3>3. ~(a < b) /\ ~(b < a)
      BY <1>1, <3>1, <3>2 DEF Ascending
    <3> QED
      BY <3>3
  <2> QED
    BY <1>2, <2>1 DEF Injection, IsInjective
<1>4. f \in Surjection(1..(i - 1), Below)
  <2>1. ASSUME NEW u \in Below PROVE \E j \in 1..(i - 1) : f[j] = u
    <3>1. PICK j \in 1..Len(s) : s[j] = u /\ u < s[i]
      BY <1>1 DEF Range
    <3>2. i < j => s[i] < s[j]
      BY <1>1 DEF Ascending
    <3>3. s[i] \in Nat /\ s[j] \in Nat /\ j \in Int /\ i \in Int
      BY <1>1
    <3>4. j < i
      BY <3>1, <3>2, <3>3
    <3> QED
      BY <3>1, <3>4
  <2> QED
    BY <1>2, <2>1 DEF Surjection
<1>5. ExistsBijection(1..(i - 1), Below)
  BY <1>3, <1>4 DEF ExistsBijection, Bijection
<1>6. i - 1 \in Nat
  OBVIOUS
<1> QED
  BY <1>5, <1>6, FS_CountingElements

\* An ascending sequence has as many elements as places.
LEMMA AscendingCounts ==
  ASSUME NEW s \in Seq(Nat), Ascending(s)
  PROVE  Cardinality(Range(s)) = Len(s)
<1>1. DOMAIN s = 1..Len(s) /\ \A j \in 1..Len(s) : s[j] \in Nat
  OBVIOUS
<1>2. s \in [1..Len(s) -> Range(s)]
  BY <1>1 DEF Range
<1>3. s \in Injection(1..Len(s), Range(s))
  <2>1. ASSUME NEW a \in 1..Len(s), NEW b \in 1..Len(s), s[a] = s[b] PROVE a = b
    BY <1>1, <2>1 DEF Ascending
  <2> QED
    BY <1>2, <2>1 DEF Injection, IsInjective
<1>4. s \in Surjection(1..Len(s), Range(s))
  BY <1>1, <1>2 DEF Surjection, Range
<1>5. ExistsBijection(1..Len(s), Range(s))
  BY <1>3, <1>4 DEF ExistsBijection, Bijection
<1> QED
  BY <1>5, FS_CountingElements

LEMMA SeqOfNames ==
  ASSUME NEW s \in Seq(Names)
  PROVE  s \in Seq(Nat) /\ DOMAIN s = 1..Len(s) /\ \A i \in DOMAIN s : s[i] \in Names
<1>1. Names \subseteq Nat
  BY DemoAssumption
<1>2. Len(s) \in Nat /\ s \in [1..Len(s) -> Names]
  OBVIOUS
<1>3. s \in [1..Len(s) -> Nat]
  BY <1>1, <1>2
<1> QED
  BY <1>2, <1>3

\* When the set holds what the screen shows, get_vehicle_name finds the vehicle
\* that is shown in a row.
LEMMA RowIsFound ==
  ASSUME screen \in Seq(Names), Ascending(screen), vehicles = Range(screen), NEW n \in Int
  PROVE  GetVehicleName(n) = Shown(n)
<1> DEFINE Row(v) == Cardinality({u \in vehicles : u < v})
<1>1. screen \in Seq(Nat) /\ DOMAIN screen = 1..Len(screen)
  BY SeqOfNames
<1>2. \A i \in 1..Len(screen) : Row(screen[i]) = i - 1
  BY <1>1, RankInAscending
<1>3. \A v \in vehicles : \E i \in 1..Len(screen) : v = screen[i]
  BY <1>1 DEF Range
<1> HIDE DEF Row
<1>4. CASE n \in 0..(Len(screen) - 1)
  <2>1. n + 1 \in 1..Len(screen) /\ screen[n + 1] \in vehicles
    BY <1>1, <1>4 DEF Range
  <2>2. Row(screen[n + 1]) = n
    BY <1>2, <2>1
  <2>3. \A v \in vehicles : Row(v) = n => v = screen[n + 1]
    BY <1>2, <1>3, <2>1
  <2>4. (CHOOSE v \in vehicles : Row(v) = n) = screen[n + 1]
    BY <2>1, <2>2, <2>3
  <2> QED
    BY <1>4, <2>1, <2>2, <2>4 DEF GetVehicleName, Shown, Row
<1>5. CASE n \notin 0..(Len(screen) - 1)
  <2>1. ~\E v \in vehicles : Row(v) = n
    BY <1>1, <1>2, <1>3, <1>5
  <2> QED
    BY <1>5, <2>1 DEF GetVehicleName, Shown, Row
<1> QED
  BY <1>4, <1>5

-----------------------------------------------------------------------------
(* The inductive invariant.                                                *)

\* Rows are there only while they are printed.
RowsInv == \A th \in All : pc[th] # "print" => local[th].rows = <<>>

\* Why only an unpaired vehicle is missed: what was listed all along is in a list
\* that has yet to be read, or has been copied, or was unpaired after line 168.
SteadyInv ==
  \A th \in All :
    /\ pc[th] = "read_pairing" => steady[th] \subseteq Listed
    /\ pc[th] = "read_paired" =>
         steady[th] \subseteq local[th].pairing \cup paired \cup unpaired[th]

\* Why the table is a snapshot: until a display is disturbed, the set and what it
\* has yet to insert are the two copies; then the set is, and each of its elements
\* has been printed or is ahead.
DisplayInv ==
  \A th \in All : ~disturbed[th] =>
    LET copies == local[th].pairing \cup local[th].paired
    IN  /\ pc[th] = "insert" => vehicles \cup local[th].todo = copies
        /\ pc[th] = "print" => /\ vehicles = copies
                               /\ Range(local[th].rows) \subseteq vehicles
                               /\ vehicles \subseteq Range(local[th].rows) \cup Ahead(th)

ScreenInv == Ascending(screen) /\ (fresh => vehicles = Range(screen))

DemoInv ==
  /\ TypeOK /\ VehiclesOutliveThreads /\ OnlyUnpairedMissed
  /\ RowsInv /\ SteadyInv /\ DisplayInv /\ ScreenInv

LEMMA MainIsNoThread == Main \in All /\ Threads \subseteq All /\ Main \notin Threads
BY DemoAssumption DEF All

LEMMA InitDemoInv == Init => DemoInv
<1> SUFFICES ASSUME Init PROVE DemoInv
  OBVIOUS
<1> USE DemoAssumption, MainIsNoThread DEF Init
<1>1. TypeOK
  <2>1. local \in [All -> Locals]
    BY DEF Locals, NoLocals
  <2>2. /\ pc \in [All -> Displaying \cup MainPlaces \cup {"idle"}]
        /\ pc[Main] # "idle" /\ \A th \in Threads : pc[th] \notin MainPlaces
    BY DEF MainPlaces
  <2>3. \A th \in All : Ascending(local[th].rows)
    BY DEF Ascending, NoLocals
  <2>4. pairing \subseteq Names /\ paired \subseteq Names /\ vehicles \subseteq Names
    OBVIOUS
  <2>5. in \in Tokens \cup {NoToken} /\ call.name \in Names \cup {NoName}
    BY DEF NoToken, NoCall
  <2>6. alive \in BOOLEAN /\ fresh \in BOOLEAN
    BY Zenon
  <2>9. screen \in Seq(Names)
    OBVIOUS
  <2>7. /\ disturbed \in [All -> BOOLEAN]
        /\ steady \in [All -> SUBSET Names] /\ unpaired \in [All -> SUBSET Names]
    OBVIOUS
  <2>8. changes \in 0..MaxChanges /\ connects \in 0..MaxConnects
    OBVIOUS
  <2> QED
    BY <2>1, <2>2, <2>3, <2>4, <2>5, <2>6, <2>7, <2>8, <2>9 DEF TypeOK
<1>2. VehiclesOutliveThreads /\ OnlyUnpairedMissed /\ RowsInv /\ SteadyInv /\ DisplayInv
  BY DEF VehiclesOutliveThreads, OnlyUnpairedMissed, RowsInv, SteadyInv, DisplayInv, NoLocals
<1>3. ScreenInv
  BY DEF ScreenInv, Ascending
<1> QED
  BY <1>1, <1>2, <1>3 DEF DemoInv

-----------------------------------------------------------------------------
(* display_lists.                                                          *)

\* A step of a display moves its thread from place to place of display_lists, or
\* out of it; nobody displays once the manager has been destroyed.
LEMMA DisplayMoves ==
  ASSUME DemoInv, NEW th \in All, NEW from \in Displaying,
         NEW to \in Displaying \cup {"prompt", "idle"}, Goto(th, from, to),
         to = "prompt" => th = Main, to = "idle" => th \in Threads
  PROVE  /\ pc' \in [All -> Displaying \cup MainPlaces \cup {"idle"}]
         /\ pc'[Main] # "idle" /\ \A u \in Threads : pc'[u] \notin MainPlaces
         /\ VehiclesOutliveThreads'
         /\ pc'[th] = to /\ \A u \in All \ {th} : pc'[u] = pc[u]
<1> USE MainIsNoThread DEF DemoInv, TypeOK, Goto, Displaying, MainPlaces
<1>1. pc' \in [All -> Displaying \cup MainPlaces \cup {"idle"}]
  OBVIOUS
<1>2. pc'[th] = to /\ \A u \in All \ {th} : pc'[u] = pc[u]
  OBVIOUS
<1>3. pc'[Main] # "idle" /\ \A u \in Threads : pc'[u] \notin MainPlaces
  BY <1>2
<1>4. VehiclesOutliveThreads'
  BY <1>2 DEF VehiclesOutliveThreads
<1> QED
  BY <1>1, <1>2, <1>3, <1>4

\* A display's locals with another set in one of its fields.
LEMMA LocalsFields ==
  ASSUME NEW own \in Locals, NEW S \in SUBSET Names
  PROVE  /\ [own EXCEPT !.pairing = S] \in Locals
         /\ [own EXCEPT !.paired = S] \in Locals
         /\ [own EXCEPT !.todo = S] \in Locals
BY DEF Locals

\* Only the locals of the thread that moves change, and keep their type.
LEMMA LocalsMove ==
  ASSUME local \in [All -> Locals], NEW th \in All, NEW own \in Locals,
         local' = [local EXCEPT ![th] = own]
  PROVE  /\ local' \in [All -> Locals]
         /\ local'[th] = own
         /\ \A u \in All \ {th} : local'[u] = local[u]
OBVIOUS

LEMMA ReadPairingInv ==
  ASSUME DemoInv, NEW th \in All, ReadPairing(th)
  PROVE  DemoInv'
<1> USE MainIsNoThread DEF DemoInv, ReadPairing, lists, history
<1>1. /\ pc' \in [All -> Displaying \cup MainPlaces \cup {"idle"}]
      /\ pc'[Main] # "idle" /\ \A u \in Threads : pc'[u] \notin MainPlaces
      /\ VehiclesOutliveThreads'
      /\ pc'[th] = "read_paired" /\ \A u \in All \ {th} : pc'[u] = pc[u]
  BY DisplayMoves DEF Displaying
<1>2. /\ local' \in [All -> Locals]
      /\ local'[th] = [local[th] EXCEPT !.pairing = pairing]
      /\ \A u \in All \ {th} : local'[u] = local[u]
  <2>1. [local[th] EXCEPT !.pairing = pairing] \in Locals
    <3>1. local[th] \in Locals /\ pairing \in SUBSET Names
      BY DEF TypeOK
    <3> QED
      BY <3>1, LocalsFields
  <2>2. local' = [local EXCEPT ![th] = [local[th] EXCEPT !.pairing = pairing]]
    OBVIOUS
  <2> QED
    BY <2>1, <2>2, LocalsMove DEF TypeOK
<1>3. TypeOK'
  <2>1. local'[th].rows = local[th].rows
    BY <1>2 DEF TypeOK, Locals
  <2>2. \A u \in All : Ascending(local'[u].rows)
    BY <1>2, <2>1 DEF TypeOK
  <2> QED
    BY <1>1, <1>2, <2>2 DEF TypeOK
<1>4. OnlyUnpairedMissed' /\ RowsInv'
  BY <1>1, <1>2 DEF OnlyUnpairedMissed, RowsInv, TypeOK, Goto, Locals
<1>5. SteadyInv'
  BY <1>1, <1>2 DEF SteadyInv, Listed, TypeOK, Goto, Locals
<1>6. DisplayInv'
  BY <1>1, <1>2 DEF DisplayInv, Ahead, TypeOK, Goto, Locals
<1>7. ScreenInv'
  BY DEF ScreenInv, Ascending
<1> QED
  BY <1>1, <1>3, <1>4, <1>5, <1>6, <1>7

LEMMA ReadPairedInv ==
  ASSUME DemoInv, NEW th \in All, ReadPaired(th)
  PROVE  DemoInv'
<1> USE MainIsNoThread DEF DemoInv, ReadPaired, lists, history
<1>1. /\ pc' \in [All -> Displaying \cup MainPlaces \cup {"idle"}]
      /\ pc'[Main] # "idle" /\ \A u \in Threads : pc'[u] \notin MainPlaces
      /\ VehiclesOutliveThreads'
      /\ pc'[th] = "clear" /\ \A u \in All \ {th} : pc'[u] = pc[u]
  BY DisplayMoves DEF Displaying
<1>2. /\ local' \in [All -> Locals]
      /\ local'[th] = [local[th] EXCEPT !.paired = paired]
      /\ \A u \in All \ {th} : local'[u] = local[u]
  <2>1. [local[th] EXCEPT !.paired = paired] \in Locals
    <3>1. local[th] \in Locals /\ paired \in SUBSET Names
      BY DEF TypeOK
    <3> QED
      BY <3>1, LocalsFields
  <2>2. local' = [local EXCEPT ![th] = [local[th] EXCEPT !.paired = paired]]
    OBVIOUS
  <2> QED
    BY <2>1, <2>2, LocalsMove DEF TypeOK
<1>3. TypeOK'
  <2>1. local'[th].rows = local[th].rows
    BY <1>2 DEF TypeOK, Locals
  <2>2. \A u \in All : Ascending(local'[u].rows)
    BY <1>2, <2>1 DEF TypeOK
  <2> QED
    BY <1>1, <1>2, <2>2 DEF TypeOK
<1>4. OnlyUnpairedMissed'
  BY <1>1, <1>2 DEF OnlyUnpairedMissed, SteadyInv, TypeOK, Goto, Locals
<1>5. RowsInv' /\ SteadyInv'
  BY <1>1, <1>2 DEF RowsInv, SteadyInv, Listed, TypeOK, Goto, Locals
<1>6. DisplayInv'
  BY <1>1, <1>2 DEF DisplayInv, Ahead, TypeOK, Goto, Locals
<1>7. ScreenInv'
  BY DEF ScreenInv, Ascending
<1> QED
  BY <1>1, <1>3, <1>4, <1>5, <1>6, <1>7

LEMMA ClearInv ==
  ASSUME DemoInv, NEW th \in All, Clear(th)
  PROVE  DemoInv'
<1> USE MainIsNoThread DEF DemoInv, Clear, Disturb, lists
<1>1. /\ pc' \in [All -> Displaying \cup MainPlaces \cup {"idle"}]
      /\ pc'[Main] # "idle" /\ \A u \in Threads : pc'[u] \notin MainPlaces
      /\ VehiclesOutliveThreads'
      /\ pc'[th] = "insert" /\ \A u \in All \ {th} : pc'[u] = pc[u]
  BY DisplayMoves DEF Displaying
<1>2. /\ local' \in [All -> Locals]
      /\ local'[th] = [local[th] EXCEPT !.todo = local[th].pairing \cup local[th].paired]
      /\ \A u \in All \ {th} : local'[u] = local[u]
  <2>1. [local[th] EXCEPT !.todo = local[th].pairing \cup local[th].paired] \in Locals
    <3>1. local[th] \in Locals /\ local[th].pairing \cup local[th].paired \in SUBSET Names
      BY DEF TypeOK, Locals
    <3> QED
      BY <3>1, LocalsFields
  <2>2. local' = [local EXCEPT ![th] = [local[th] EXCEPT !.todo = local[th].pairing \cup local[th].paired]]
    OBVIOUS
  <2> QED
    BY <2>1, <2>2, LocalsMove DEF TypeOK
<1>3. TypeOK'
  <2>1. local'[th].rows = local[th].rows
    BY <1>2 DEF TypeOK, Locals
  <2>2. \A u \in All : Ascending(local'[u].rows)
    BY <1>2, <2>1 DEF TypeOK
  <2> QED
    BY <1>1, <1>2, <2>2 DEF TypeOK
<1>4. OnlyUnpairedMissed'
  BY <1>1, <1>2 DEF OnlyUnpairedMissed, TypeOK, Goto, Locals
<1>5. RowsInv' /\ SteadyInv'
  BY <1>1, <1>2 DEF RowsInv, SteadyInv, Listed, TypeOK, Goto, Locals
<1>6. DisplayInv'
  BY <1>1, <1>2 DEF DisplayInv, TypeOK, Goto, Locals
<1>7. ScreenInv'
  BY DEF ScreenInv, Ascending
<1> QED
  BY <1>1, <1>3, <1>4, <1>5, <1>6, <1>7

LEMMA InsertInv ==
  ASSUME DemoInv, NEW th \in All, Insert(th)
  PROVE  DemoInv'
<1> USE MainIsNoThread DEF DemoInv, lists, history
<1>1. CASE \E v \in local[th].todo :
             /\ Goto(th, "insert", "insert")
             /\ vehicles' = vehicles \cup {v}
             /\ local' = [local EXCEPT ![th].todo = @ \ {v}]
             /\ Disturb(th, disturbed[th])
             /\ UNCHANGED <<lists, in, call, alive>>
  <2>1. PICK v \in local[th].todo :
          /\ Goto(th, "insert", "insert")
          /\ vehicles' = vehicles \cup {v}
          /\ local' = [local EXCEPT ![th].todo = @ \ {v}]
          /\ Disturb(th, disturbed[th])
          /\ UNCHANGED <<lists, in, call, alive>>
    BY <1>1
  <2>2. /\ pc' \in [All -> Displaying \cup MainPlaces \cup {"idle"}]
        /\ pc'[Main] # "idle" /\ \A u \in Threads : pc'[u] \notin MainPlaces
        /\ VehiclesOutliveThreads'
        /\ pc'[th] = "insert" /\ \A u \in All \ {th} : pc'[u] = pc[u]
    BY <2>1, DisplayMoves DEF Displaying
  <2>3. /\ local' \in [All -> Locals]
        /\ local'[th] = [local[th] EXCEPT !.todo = local[th].todo \ {v}]
        /\ \A u \in All \ {th} : local'[u] = local[u]
        /\ v \in Names
    <3>1. local[th] \in Locals /\ local[th].todo \in SUBSET Names
      BY DEF TypeOK, Locals
    <3>2. v \in Names /\ [local[th] EXCEPT !.todo = local[th].todo \ {v}] \in Locals
      BY <3>1, LocalsFields
    <3>3. local' = [local EXCEPT ![th] = [local[th] EXCEPT !.todo = local[th].todo \ {v}]]
      BY <2>1
    <3> QED
      BY <3>2, <3>3, LocalsMove DEF TypeOK
  <2>4. TypeOK'
    <3>1. local'[th].rows = local[th].rows
      BY <2>3 DEF TypeOK, Locals
    <3>2. \A u \in All : Ascending(local'[u].rows)
      BY <2>3, <3>1 DEF TypeOK
    <3> QED
      BY <2>1, <2>2, <2>3, <3>2 DEF TypeOK, Disturb
  <2>5. OnlyUnpairedMissed' /\ RowsInv' /\ SteadyInv'
    BY <2>1, <2>2, <2>3
    DEF OnlyUnpairedMissed, RowsInv, SteadyInv, Listed, TypeOK, Goto, Locals, Disturb
  <2>6. DisplayInv'
    BY <2>1, <2>2, <2>3 DEF DisplayInv, TypeOK, Goto, Locals, Disturb
  <2>7. ScreenInv'
    BY <2>1 DEF ScreenInv, Ascending, Disturb
  <2> QED
    BY <2>2, <2>4, <2>5, <2>6, <2>7
<1>2. CASE /\ local[th].todo = {}
           /\ Goto(th, "insert", "print")
           /\ UNCHANGED <<lists, vehicles, local, in, call, alive, history>>
  <2>1. /\ pc' \in [All -> Displaying \cup MainPlaces \cup {"idle"}]
        /\ pc'[Main] # "idle" /\ \A u \in Threads : pc'[u] \notin MainPlaces
        /\ VehiclesOutliveThreads'
        /\ pc'[th] = "print" /\ \A u \in All \ {th} : pc'[u] = pc[u]
    BY <1>2, DisplayMoves DEF Displaying
  <2>2. TypeOK' /\ OnlyUnpairedMissed' /\ RowsInv' /\ SteadyInv'
    BY <1>2, <2>1 DEF TypeOK, OnlyUnpairedMissed, RowsInv, SteadyInv, Listed, Goto, Ascending
  <2>3. local[th].rows = <<>> /\ Range(<<>>) = {}
    BY <1>2 DEF RowsInv, Goto, Range
  <2>4. DisplayInv'
    BY <1>2, <2>1, <2>3 DEF DisplayInv, Ahead, TypeOK, Goto
  <2>5. ScreenInv'
    BY <1>2 DEF ScreenInv, Ascending
  <2> QED
    BY <2>1, <2>2, <2>4, <2>5
<1> QED
  BY <1>1, <1>2 DEF Insert

\* The least element ahead extends the rows in their order, and what is ahead
\* of it then is all the rest.
LEMMA NextRow ==
  ASSUME DemoInv, NEW th \in All, Ahead(th) # {},
         NEW r, r = Least(Ahead(th)), NEW rows, rows = Append(local[th].rows, r)
  PROVE  /\ r \in Ahead(th) /\ r \in vehicles /\ r \in Names
         /\ rows \in Seq(Names) /\ Ascending(rows) /\ rows # <<>> /\ Last(rows) = r
         /\ Range(rows) = Range(local[th].rows) \cup {r}
         /\ \A v \in Ahead(th) : v = r \/ v > r
<1>1. Names \subseteq Nat
  BY DemoAssumption
<1>2. Ahead(th) \in SUBSET Nat /\ Ahead(th) \subseteq vehicles
  BY <1>1 DEF Ahead, DemoInv, TypeOK
<1>3. r \in Ahead(th) /\ \A v \in Ahead(th) : r <= v
  BY <1>2, LeastIsFirst
<1>4. r \in Names /\ r \in vehicles /\ r \in Nat
  BY <1>1, <1>2, <1>3 DEF DemoInv, TypeOK
<1>5. local[th].rows \in Seq(Names)
  BY DEF DemoInv, TypeOK, Locals
<1> DEFINE old == local[th].rows
<1>6. /\ rows \in Seq(Names) /\ Len(rows) = Len(old) + 1 /\ Len(old) \in Nat
      /\ \A i \in 1..Len(old) : rows[i] = old[i]
      /\ rows[Len(old) + 1] = r
      /\ DOMAIN rows = 1..(Len(old) + 1) /\ DOMAIN old = 1..Len(old)
  BY <1>4, <1>5
<1>7. \A i \in 1..Len(old) : old[i] \in Nat
  BY <1>1, <1>5, <1>6, SeqOfNames
<1> HIDE DEF old
<1>8. Ascending(rows)
  <2>1. ASSUME NEW i \in 1..Len(old) PROVE old[i] < r
    <3>0. old # <<>>
      BY <1>5, <1>6 DEF old
    <3>1. old[Len(old)] < r
      BY <1>3, <1>4, <1>6, <1>7, <3>0 DEF Ahead, Last, old
    <3>2. i < Len(old) => old[i] < old[Len(old)]
      BY <1>6 DEF DemoInv, TypeOK, Ascending, old
    <3> QED
      BY <3>1, <3>2, <1>4, <1>6, <1>7
  <2>2. \A i, j \in 1..Len(old) : i < j => old[i] < old[j]
    BY <1>6 DEF DemoInv, TypeOK, Ascending, old
  <2>3. ASSUME NEW i \in DOMAIN rows, NEW j \in DOMAIN rows, i < j PROVE rows[i] < rows[j]
    BY <1>6, <2>1, <2>2, <2>3
  <2> QED
    BY <2>3 DEF Ascending
<1>9. Range(rows) = Range(old) \cup {r}
  BY <1>6 DEF Range
<1>10. rows # <<>> /\ Last(rows) = r
  BY <1>6 DEF Last
<1> QED
  BY <1>1, <1>2, <1>3, <1>4, <1>6, <1>8, <1>9, <1>10 DEF old

LEMMA PrintRowInv ==
  ASSUME DemoInv, NEW th \in All, PrintRow(th)
  PROVE  DemoInv'
<1> USE MainIsNoThread DEF DemoInv, PrintRow, lists, history
<1> DEFINE r == Least(Ahead(th))
           rows == Append(local[th].rows, r)
<1>1. /\ pc' \in [All -> Displaying \cup MainPlaces \cup {"idle"}]
      /\ pc'[Main] # "idle" /\ \A u \in Threads : pc'[u] \notin MainPlaces
      /\ VehiclesOutliveThreads'
      /\ pc'[th] = "print" /\ \A u \in All \ {th} : pc'[u] = pc[u]
  BY DisplayMoves DEF Displaying
<1>2. /\ r \in Ahead(th) /\ r \in vehicles /\ r \in Names
      /\ rows \in Seq(Names) /\ Ascending(rows) /\ rows # <<>> /\ Last(rows) = r
      /\ Range(rows) = Range(local[th].rows) \cup {r}
      /\ \A v \in Ahead(th) : v = r \/ v > r
  BY NextRow
<1> HIDE DEF rows
<1>3. /\ local' \in [All -> Locals]
      /\ local'[th] = [local[th] EXCEPT !.rows = rows]
      /\ \A u \in All \ {th} : local'[u] = local[u]
  <2>1. local[th] \in Locals /\ rows \in Seq(Names)
    BY <1>2 DEF TypeOK, rows
  <2>2. [local[th] EXCEPT !.rows = rows] \in Locals
    BY <2>1 DEF Locals
  <2>3. local' = [local EXCEPT ![th] = [local[th] EXCEPT !.rows = rows]]
    BY DEF rows
  <2> QED
    BY <2>2, <2>3, LocalsMove DEF TypeOK
<1>4. local'[th].rows = rows
  BY <1>3 DEF TypeOK, Locals
<1>5. TypeOK'
  <2>1. \A u \in All : Ascending(local'[u].rows)
    BY <1>2, <1>3, <1>4 DEF TypeOK
  <2> QED
    BY <1>1, <1>3, <2>1 DEF TypeOK
<1>6. OnlyUnpairedMissed' /\ RowsInv' /\ SteadyInv'
  BY <1>1, <1>3 DEF OnlyUnpairedMissed, RowsInv, SteadyInv, Listed, TypeOK, Goto, Locals
<1>7. DisplayInv'
  <2>1. \A v \in Ahead(th) : v = r \/ v \in Ahead(th)'
    BY <1>2, <1>4 DEF Ahead
  <2>2. ASSUME NEW u \in All \ {th} PROVE Ahead(u)' = Ahead(u)
    BY <1>3 DEF Ahead
  <2>3. ~disturbed[th] => /\ vehicles = local[th].pairing \cup local[th].paired
                          /\ Range(rows) \subseteq vehicles
                          /\ vehicles \subseteq Range(rows) \cup Ahead(th)'
    BY <1>2, <2>1 DEF DisplayInv, Goto
  <2>4. local'[th].pairing = local[th].pairing /\ local'[th].paired = local[th].paired
    BY <1>3 DEF TypeOK, Locals
  <2>5. disturbed' = disturbed /\ vehicles' = vehicles
    OBVIOUS
  <2> HIDE DEF Ahead, r, PrintRow
  <2> SUFFICES ASSUME NEW u \in All, ~disturbed[u]
               PROVE  LET copies == local'[u].pairing \cup local'[u].paired
                      IN  /\ pc'[u] = "insert" => vehicles \cup local'[u].todo = copies
                          /\ pc'[u] = "print" =>
                               /\ vehicles = copies
                               /\ Range(local'[u].rows) \subseteq vehicles
                               /\ vehicles \subseteq Range(local'[u].rows) \cup Ahead(u)'
    BY <2>5 DEF DisplayInv
  <2>6. CASE u = th
    BY <1>1, <1>4, <2>3, <2>4, <2>6
  <2>7. CASE u # th
    BY <1>1, <1>3, <2>2, <2>7 DEF DisplayInv
  <2> QED
    BY <2>6, <2>7
<1>8. ScreenInv'
  BY DEF ScreenInv, Ascending
<1> QED
  BY <1>1, <1>5, <1>6, <1>7, <1>8

LEMMA ReturnInv ==
  ASSUME DemoInv, NEW th \in All, Return(th)
  PROVE  DemoInv'
<1> USE MainIsNoThread DEF DemoInv, Return, lists
<1>1. PICK to \in {"prompt", "idle"} :
        /\ Goto(th, "print", to)
        /\ to = "prompt" => th = Main
        /\ to = "idle" => th \in Threads
  BY DEF All
<1>2. /\ pc' \in [All -> Displaying \cup MainPlaces \cup {"idle"}]
      /\ pc'[Main] # "idle" /\ \A u \in Threads : pc'[u] \notin MainPlaces
      /\ VehiclesOutliveThreads'
      /\ pc'[th] = to /\ \A u \in All \ {th} : pc'[u] = pc[u]
  BY <1>1, DisplayMoves DEF Displaying
<1>3. /\ local' \in [All -> Locals]
      /\ local'[th] = NoLocals
      /\ \A u \in All \ {th} : local'[u] = local[u]
      /\ Ascending(<<>>)
  BY DEF TypeOK, Locals, NoLocals, Ascending
<1>4. local[th].rows \in Seq(Names) /\ Ascending(local[th].rows)
  BY DEF TypeOK, Locals
<1>5. TypeOK'
  <2>1. \A u \in All : Ascending(local'[u].rows)
    BY <1>3 DEF TypeOK, NoLocals
  <2>2. fresh' \in BOOLEAN
    BY DEF TypeOK
  <2>3. steady' \in [All -> SUBSET Names] /\ unpaired' \in [All -> SUBSET Names]
    BY DEF TypeOK
  <2> QED
    BY <1>2, <1>3, <1>4, <2>1, <2>2, <2>3 DEF TypeOK
<1>6. OnlyUnpairedMissed' /\ RowsInv' /\ SteadyInv'
  BY <1>2, <1>3 DEF OnlyUnpairedMissed, RowsInv, SteadyInv, Listed, TypeOK, Goto, NoLocals
<1>7. DisplayInv'
  BY <1>2, <1>3 DEF DisplayInv, Ahead, TypeOK, Goto
<1>8. ScreenInv'
  <2>1. ~disturbed[th] => vehicles = Range(local[th].rows)
    BY DEF DisplayInv, Goto
  <2> QED
    BY <1>4, <2>1 DEF ScreenInv
<1> QED
  BY <1>2, <1>5, <1>6, <1>7, <1>8

LEMMA DisplayKeepsInv ==
  ASSUME DemoInv, NEW th \in All, Display(th)
  PROVE  DemoInv'
BY ReadPairingInv, ReadPairedInv, ClearInv, InsertInv, PrintRowInv, ReturnInv DEF Display

-----------------------------------------------------------------------------
(* Entering display_lists, from a callback or from the command l, which    *)
(* lets the displays in progress see how the lists have changed.           *)

\* What Observe records keeps its type.
LEMMA ObserveTypes ==
  ASSUME DemoInv, NEW th \in All, Observe(th), pairing' \subseteq Names, paired' \subseteq Names
  PROVE  /\ steady' \in [All -> SUBSET Names] /\ unpaired' \in [All -> SUBSET Names]
         /\ steady'[th] = Listed'
         /\ \A u \in All \ {th} :
              /\ steady'[u] = steady[u] \cap Listed'
              /\ pc[u] = "read_paired" => unpaired'[u] = unpaired[u] \cup (paired \ paired')
              /\ pc[u] # "read_paired" => unpaired'[u] = unpaired[u]
<1> DEFINE Seen(u) == CASE u = th -> {}
                      [] u # th /\ pc[u] = "read_paired" -> unpaired[u] \cup (paired \ paired')
                      [] OTHER -> unpaired[u]
<1>1. /\ steady' = [u \in All |-> IF u = th THEN Listed' ELSE steady[u] \cap Listed']
      /\ unpaired' = [u \in All |-> Seen(u)]
  BY DEF Observe
<1>2. /\ Seen(th) = {}
      /\ \A u \in All \ {th} :
           /\ pc[u] = "read_paired" => Seen(u) = unpaired[u] \cup (paired \ paired')
           /\ pc[u] # "read_paired" => Seen(u) = unpaired[u]
  OBVIOUS
<1>3. /\ steady \in [All -> SUBSET Names] /\ unpaired \in [All -> SUBSET Names]
      /\ paired \subseteq Names /\ Listed' \subseteq Names
  BY DEF DemoInv, TypeOK, Listed
<1> HIDE DEF Seen
<1>4. \A u \in All : Seen(u) \in SUBSET Names
  BY <1>2, <1>3
<1> QED
  BY <1>1, <1>2, <1>3, <1>4

LEMMA EnterInv ==
  ASSUME DemoInv, NEW th \in All, NEW from \in {"switch", "idle"}, Enter(th, from), Observe(th),
         th \in Threads => Running, from = "switch" => th = Main,
         pairing' \subseteq Names, paired' \subseteq Names, UNCHANGED <<vehicles, call, alive>>,
         in' \in Tokens \cup {NoToken},
         changes' \in 0..MaxChanges, connects' \in 0..MaxConnects
  PROVE  DemoInv'
<1> USE MainIsNoThread DEF DemoInv, Enter
<1>1. pc[th] = from /\ pc'[th] = "read_pairing" /\ \A u \in All \ {th} : pc'[u] = pc[u]
  BY DEF TypeOK, Goto
<1>2. /\ local' \in [All -> Locals] /\ \A u \in All : Ascending(local'[u].rows)
      /\ local'[th] = NoLocals /\ \A u \in All \ {th} : local'[u] = local[u]
  BY DEF TypeOK, Locals, NoLocals, Ascending
<1>3. /\ steady' \in [All -> SUBSET Names] /\ unpaired' \in [All -> SUBSET Names]
      /\ steady'[th] = Listed'
      /\ \A u \in All \ {th} :
           /\ steady'[u] = steady[u] \cap Listed'
           /\ pc[u] = "read_paired" => unpaired'[u] = unpaired[u] \cup (paired \ paired')
           /\ pc[u] # "read_paired" => unpaired'[u] = unpaired[u]
  BY ObserveTypes
<1>4. TypeOK'
  <2>1. /\ pc' \in [All -> Displaying \cup MainPlaces \cup {"idle"}]
        /\ pc'[Main] # "idle" /\ \A u \in Threads : pc'[u] \notin MainPlaces
    BY <1>1 DEF TypeOK, Goto, Displaying, MainPlaces
  <2>2. UNCHANGED <<screen, fresh, disturbed>>
    BY DEF Observe
  <2> QED
    BY <1>2, <1>3, <2>1, <2>2 DEF TypeOK, Goto
<1>5. VehiclesOutliveThreads'
  BY <1>1 DEF VehiclesOutliveThreads, Running
<1>6. OnlyUnpairedMissed' /\ RowsInv'
  BY <1>1, <1>2, <1>3 DEF OnlyUnpairedMissed, RowsInv, NoLocals
<1>7. SteadyInv'
  BY <1>1, <1>2, <1>3 DEF SteadyInv
<1>8. DisplayInv'
  BY <1>1, <1>2 DEF DisplayInv, Ahead, Observe
<1>9. ScreenInv'
  BY DEF ScreenInv, Ascending, Observe
<1> QED
  BY <1>4, <1>5, <1>6, <1>7, <1>8, <1>9

LEMMA ListChangeInv ==
  ASSUME DemoInv, NEW th \in Threads, ListChange(th)
  PROVE  DemoInv'
<1>1. changes' \in 0..MaxChanges
  BY DemoAssumption DEF ListChange, DemoInv, TypeOK
<1>2. /\ th \in All /\ th # Main /\ Running /\ Enter(th, "idle") /\ Observe(th)
      /\ UNCHANGED <<vehicles, in, call, alive, connects>>
  BY MainIsNoThread DEF ListChange
<1>3. /\ pairing \subseteq Names /\ paired \subseteq Names /\ in \in Tokens \cup {NoToken}
      /\ connects \in 0..MaxConnects
  BY DEF DemoInv, TypeOK
<1>4. pairing' \subseteq Names /\ paired' \subseteq Names
  BY <1>3 DEF ListChange
<1> QED
  BY <1>1, <1>2, <1>3, <1>4, EnterInv

LEMMA ConnectedChangeInv ==
  ASSUME DemoInv, NEW th \in Threads, ConnectedChange(th)
  PROVE  DemoInv'
<1>1. connects' \in 0..MaxConnects
  BY DemoAssumption DEF ConnectedChange, DemoInv, TypeOK
<1>2. /\ th \in All /\ th # Main /\ Running /\ Enter(th, "idle") /\ Observe(th)
      /\ UNCHANGED <<pairing, paired, vehicles, in, call, alive, changes>>
  BY MainIsNoThread DEF ConnectedChange
<1>3. /\ pairing \subseteq Names /\ paired \subseteq Names /\ in \in Tokens \cup {NoToken}
      /\ changes \in 0..MaxChanges
  BY DEF DemoInv, TypeOK
<1> QED
  BY <1>1, <1>2, <1>3, EnterInv

LEMMA ListInv ==
  ASSUME DemoInv, List
  PROVE  DemoInv'
<1>1. /\ Main \in All /\ Main \notin Threads /\ Enter(Main, "switch") /\ Observe(Main)
      /\ UNCHANGED <<pairing, paired, vehicles, call, alive, changes, connects>>
      /\ in' = NoToken
  BY MainIsNoThread DEF List, lists
<1>2. /\ pairing \subseteq Names /\ paired \subseteq Names
      /\ changes \in 0..MaxChanges /\ connects \in 0..MaxConnects
  BY DEF DemoInv, TypeOK
<1> QED
  BY <1>1, <1>2, EnterInv

-----------------------------------------------------------------------------
(* Main's loop.                                                            *)

LEMMA MainMovesInv ==
  ASSUME DemoInv, NEW from \in MainPlaces, NEW to \in MainPlaces, MainGoto(from, to),
         in' \in Tokens \cup {NoToken}, call'.name \in Names \cup {NoName},
         to \in {"joined", "end"} => \A th \in Threads : pc[th] = "idle"
  PROVE  DemoInv'
<1> USE MainIsNoThread DEF DemoInv, MainGoto, lists, history
<1>1. /\ pc[Main] = from /\ pc'[Main] = to
      /\ \A u \in All \ {Main} : pc'[u] = pc[u]
  BY DEF TypeOK, Goto
<1>2. TypeOK'
  <2>1. /\ pc' \in [All -> Displaying \cup MainPlaces \cup {"idle"}]
        /\ pc'[Main] # "idle" /\ \A u \in Threads : pc'[u] \notin MainPlaces
    BY <1>1 DEF TypeOK, Goto, MainPlaces
  <2> QED
    BY <2>1 DEF TypeOK, Goto
<1>3. VehiclesOutliveThreads'
  BY <1>1 DEF VehiclesOutliveThreads
<1>4. OnlyUnpairedMissed' /\ RowsInv' /\ SteadyInv' /\ DisplayInv'
  BY <1>1 DEF OnlyUnpairedMissed, RowsInv, SteadyInv, DisplayInv, Listed, Ahead, MainPlaces
<1>5. ScreenInv'
  BY DEF ScreenInv, Ascending
<1> QED
  BY <1>2, <1>3, <1>4, <1>5

LEMMA NameFound == ASSUME DemoInv, NEW n PROVE GetVehicleName(n) \in Names \cup {NoName}
BY DEF GetVehicleName, DemoInv, TypeOK

\* A command that names a vehicle or none, and goes back to the prompt or on.
LEMMA CallInv ==
  ASSUME DemoInv, NEW to \in {"prompt", "pair"}, NEW from \in {"switch", "pair"},
         MainGoto(from, to), NEW fn, NEW name \in Names \cup {NoName}, Call(fn, name)
  PROVE  DemoInv'
<1>1. in' \in Tokens \cup {NoToken} /\ call'.name \in Names \cup {NoName}
  BY DEF Call, DemoInv, TypeOK
<1>2. from \in MainPlaces /\ to \in MainPlaces /\ to \notin {"joined", "end"}
  BY DEF MainPlaces
<1> QED
  BY <1>1, <1>2, MainMovesInv

LEMMA CommandInv ==
  ASSUME DemoInv, Command \/ InitManager \/ ReadToken \/ Finish
  PROVE  DemoInv'
<1>0. /\ in \in Tokens \cup {NoToken} /\ call.name \in Names \cup {NoName}
      /\ NoCall.name \in Names \cup {NoName}
  BY DEF DemoInv, TypeOK, NoCall
<1>1. CASE InitManager
  <2>1. PICK to \in {"prompt", "exit"} : MainGoto("init", to)
    BY <1>1 DEF InitManager
  <2> QED
    BY <1>0, <1>1, <2>1, MainMovesInv DEF InitManager, MainPlaces
<1>2. CASE ReadToken
  BY <1>0, <1>2, MainMovesInv DEF ReadToken, MainPlaces
<1>3. CASE Exit
  BY <1>0, <1>3, MainMovesInv DEF Exit, MainPlaces
<1>4. CASE List
  BY <1>4, ListInv
<1>5. CASE EnterPairing
  <2>1. PICK to \in {"prompt", "pair"} : MainGoto("switch", to)
    BY <1>5 DEF EnterPairing
  <2> QED
    BY <1>5, <2>1, CallInv DEF EnterPairing
<1>6. CASE PairTo
  BY <1>6, CallInv, NameFound DEF PairTo
<1>7. CASE OnVehicle
  BY <1>7, CallInv, NameFound DEF OnVehicle
<1>8. CASE Stop
  BY <1>8, CallInv DEF Stop
<1>9. CASE Ignore
  BY <1>0, <1>9, MainMovesInv DEF Ignore, MainPlaces
<1>10. CASE JoinManager
  BY <1>0, <1>10, MainMovesInv DEF JoinManager, MainPlaces
<1>11. CASE DestroyVehicles
  <2>1. \A th \in Threads : pc[th] = "idle"
    BY <1>11 DEF DestroyVehicles, MainGoto, Goto, DemoInv, VehiclesOutliveThreads
  <2> QED
    BY <1>0, <1>11, <2>1, MainMovesInv DEF DestroyVehicles, MainPlaces
<1> QED
  BY <1>1, <1>2, <1>3, <1>4, <1>5, <1>6, <1>7, <1>8, <1>9, <1>10, <1>11 DEF Command, Finish

LEMMA NothingElseInv ==
  ASSUME DemoInv, Crash \/ UNCHANGED vars
  PROVE  DemoInv'
<1>1. /\ UNCHANGED <<pairing, paired, vehicles, pc, local, in, call, changes, connects, screen>>
      /\ UNCHANGED <<fresh, disturbed, steady, unpaired>>
      /\ alive' \in BOOLEAN
  BY DEF Crash, vars, lists, history, DemoInv, TypeOK
<1>2. TypeOK'
  BY <1>1 DEF DemoInv, TypeOK
<1>3. VehiclesOutliveThreads' /\ OnlyUnpairedMissed' /\ RowsInv' /\ SteadyInv' /\ DisplayInv'
  BY <1>1 DEF DemoInv, VehiclesOutliveThreads, OnlyUnpairedMissed, RowsInv, SteadyInv, DisplayInv,
              Listed, Ahead
<1>4. ScreenInv'
  BY <1>1 DEF DemoInv, ScreenInv, Ascending
<1> QED
  BY <1>2, <1>3, <1>4 DEF DemoInv

LEMMA StepDemoInv == DemoInv /\ [Next]_vars => DemoInv'
<1> SUFFICES ASSUME DemoInv, [Next]_vars PROVE DemoInv'
  OBVIOUS
<1> QED
  BY DisplayKeepsInv, ListChangeInv, ConnectedChangeInv, CommandInv, NothingElseInv DEF Next

-----------------------------------------------------------------------------
(* What follows from it.                                                   *)

\* DemoInv holds in every reachable state, whatever the threads and the user do.
THEOREM DemoInvariance == Spec => []DemoInv
BY InitDemoInv, StepDemoInv, PTL DEF Spec

\* Every variable keeps its type, and rows are printed in the order of the set
\* (the loop over vehicles in display_lists).
THEOREM DemoTypeCorrect == Spec => []TypeOK
<1>1. DemoInv => TypeOK
  BY DEF DemoInv
<1> QED
  BY <1>1, DemoInvariance, PTL

\* The static set vehicles is destroyed after the last thread that uses it is
\* gone: main's local connection_manager, which joins them, goes first.
THEOREM VehiclesOutlive == Spec => []VehiclesOutliveThreads
<1>1. DemoInv => VehiclesOutliveThreads
  BY DEF DemoInv
<1> QED
  BY <1>1, DemoInvariance, PTL

\* Of the vehicles that are listed all along, display_lists misses only such as
\* are unpaired between its two reads; being paired hides none.
THEOREM OnlyUnpairedAreMissed == Spec => []OnlyUnpairedMissed
<1>1. DemoInv => OnlyUnpairedMissed
  BY DEF DemoInv
<1> QED
  BY <1>1, DemoInvariance, PTL

\* An undisturbed display_lists leaves in vehicles, and prints, exactly the
\* vehicles of the two lists it read, each once.
THEOREM TableIsASnapshot == Spec => []TableIsSnapshot
<1>1. ASSUME DemoInv PROVE TableIsSnapshot
  <2>1. screen \in Seq(Nat) /\ Ascending(screen)
    BY <1>1, SeqOfNames DEF DemoInv, TypeOK, ScreenInv
  <2>2. Len(screen) = Cardinality(Range(screen))
    BY <2>1, AscendingCounts
  <2> QED
    BY <1>1, <2>2 DEF DemoInv, DisplayInv, ScreenInv, TableIsSnapshot
<1> QED
  BY <1>1, DemoInvariance, PTL

\* An undisturbed table has a row for every vehicle that was listed all along and
\* not unpaired between the two reads, for any threads, vehicles and changes.
THEOREM TablesLackOnlyUnpaired == Spec => TableLacksOnlyUnpaired
<1>1. ASSUME DemoInv, NEW th \in All, Return(th), ~disturbed[th]
      PROVE  steady[th] \subseteq Range(screen') \cup unpaired[th]
  <2>1. pc[th] = "print" /\ Ahead(th) = {} /\ screen' = local[th].rows
    BY <1>1 DEF Return, Goto
  <2>2. vehicles = local[th].pairing \cup local[th].paired /\ vehicles \subseteq Range(screen')
    BY <1>1, <2>1 DEF DemoInv, DisplayInv
  <2>3. steady[th] \subseteq local[th].pairing \cup local[th].paired \cup unpaired[th]
    BY <1>1, <2>1 DEF DemoInv, OnlyUnpairedMissed
  <2> QED
    BY <2>2, <2>3
<1>2. DemoInv /\ [Next]_vars =>
        [\A th \in All :
           Return(th) /\ ~disturbed[th] => steady[th] \subseteq Range(screen') \cup unpaired[th]]_vars
  BY <1>1
<1> QED
  BY <1>2, DemoInvariance, PTL DEF Spec, TableLacksOnlyUnpaired

\* A command of two characters names the vehicle shown in the row of its second
\* one, whatever that character is (get_vehicle_name), while nobody has touched
\* the set since that display.
THEOREM CharacterSelects == Spec => CharacterSelectsRow
<1>1. ASSUME DemoInv, [Next]_vars
      PROVE  [Selects(in.arg[1], fresh /\ Len(in.arg) = 1)]_vars
  <2> SUFFICES ASSUME PairTo \/ OnVehicle, fresh, Len(in.arg) = 1
               PROVE  call'.name = Shown(in.arg[1])
    BY DEF Selects
  <2>1. in \in Tokens
    <3>1. in \in Tokens \cup {NoToken}
      BY <1>1 DEF DemoInv, TypeOK
    <3>2. NoToken.arg = <<>> /\ Len(<<>>) = 0
      BY DEF NoToken
    <3>3. in # NoToken
      BY <3>2
    <3> QED
      BY <3>1, <3>3
  <2>2. in.arg[1] \in Int
    BY <2>1, DemoAssumption
  <2>3. GetVehicleName(in.arg[1]) = Shown(in.arg[1])
    BY <1>1, <2>2, RowIsFound DEF DemoInv, TypeOK, ScreenInv
  <2>4. call'.name = GetVehicleName(in.arg[1])
    BY DEF PairTo, OnVehicle, Call
  <2> QED
    BY <2>3, <2>4
<1> QED
  BY <1>1, DemoInvariance, PTL DEF Spec, CharacterSelectsRow

=============================================================================
