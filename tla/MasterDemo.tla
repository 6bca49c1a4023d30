----------------------------- MODULE MasterDemo -----------------------------
(***************************************************************************)
(* The console program of master_demo.cpp.  Main reads commands and names  *)
(* vehicles by their row in the table that display_lists printed last; the *)
(* rows are the elements, in order, of the static set vehicles, which      *)
(* every call of display_lists clears and fills again.  The manager's      *)
(* threads call display_lists too, from the list callbacks, while Main is  *)
(* anywhere in its loop: nothing protects vehicles.                        *)
(*                                                                         *)
(* A vehicle is a natural number, the order of std::set<std::string> being *)
(* theirs; a character is its code minus '0'.  The manager is external:    *)
(* its threads change its lists and call the callbacks.  What the rows say *)
(* of connections is left out: it is read and printed, and changes nothing.*)
(***************************************************************************)
EXTENDS Integers, Sequences, FiniteSets, SequencesExt

CONSTANTS
  Threads,      \* threads of the connection manager
  Main,         \* the thread that runs main
  Names,        \* vehicles
  NoName,       \* the empty string
  Tokens,       \* what the user may type: [op : letter, arg : sequence of characters]
  InitPairing,  \* the pairing list when the program starts
  InitPaired,   \* the paired list then, which the manager keeps in a file (line 55)
  MaxChanges,   \* bound: changes of the pairing and paired lists
  MaxConnects   \* bound: calls of the connected list callback

ASSUME DemoAssumption ==
  /\ Main \notin Threads
  /\ Names \subseteq Nat
  /\ NoName \notin Names
  /\ InitPairing \subseteq Names /\ InitPaired \subseteq Names
  /\ MaxChanges \in Nat
  /\ MaxConnects \in Nat
  /\ \A token \in Tokens : token.arg \in Seq(Int)

All == Threads \cup {Main}

VARIABLES
  pairing,    \* the manager's list of remotes available for pairing
  paired,     \* the manager's list of paired remotes
  vehicles,   \* static std::set<std::string> vehicles
  pc,         \* where each thread is
  local,      \* per thread, the locals of display_lists
  in,         \* the token Main read last
  call,       \* the last call Main made to the manager for this token
  alive,      \* FALSE once undefined behaviour brought the program down
  changes, connects,              \* the counters that are bounded
  screen, fresh, disturbed, steady, unpaired  \* history, see below

(* screen: the rows of the display that completed last; fresh: it was not     *)
(* disturbed, and vehicles has not been written since; disturbed: per thread, *)
(* whether another thread wrote vehicles since this thread cleared it;        *)
(* steady: per thread, the vehicles that were in at least one of the two      *)
(* lists in every state since its display began; unpaired: per thread, those  *)
(* that left the paired list between the two reads of its display.            *)

lists == <<pairing, paired, changes, connects>>
history == <<screen, fresh, disturbed, steady, unpaired>>
vars == <<pairing, paired, vehicles, pc, local, in, call, alive, changes, connects,
          screen, fresh, disturbed, steady, unpaired>>

NoToken == [op |-> "none", arg |-> <<>>]
NoCall == [fn |-> "none", name |-> NoName]
NoLocals == [pairing |-> {}, paired |-> {}, todo |-> {}, rows |-> <<>>]

Listed == pairing \cup paired

Init ==
  /\ pairing = InitPairing
  /\ paired = InitPaired
  /\ vehicles = {}
  /\ pc = [th \in All |-> IF th = Main THEN "init" ELSE "idle"]
  /\ local = [th \in All |-> NoLocals]
  /\ in = NoToken
  /\ call = NoCall
  /\ alive = TRUE
  /\ changes = 0 /\ connects = 0
  /\ screen = <<>>
  /\ fresh = FALSE
  /\ disturbed = [th \in All |-> FALSE]
  /\ steady = [th \in All |-> {}]
  /\ unpaired = [th \in All |-> {}]

Goto(th, from, to) ==
  /\ alive
  /\ pc[th] = from
  /\ pc' = [pc EXCEPT ![th] = to]

-----------------------------------------------------------------------------
(* display_lists, called by any thread.                                    *)

\* Entering display_lists: the header is printed, nothing is read yet.
Enter(th, from) ==
  /\ Goto(th, from, "read_pairing")
  /\ local' = [local EXCEPT ![th] = NoLocals]

\* auto pairing_list = connection_manager.get_pairing_list()
ReadPairing(th) ==
  /\ Goto(th, "read_pairing", "read_paired")
  /\ local' = [local EXCEPT ![th].pairing = pairing]
  /\ UNCHANGED <<lists, vehicles, in, call, alive, history>>

\* auto paired_list = connection_manager.get_paired_list()
ReadPaired(th) ==
  /\ Goto(th, "read_paired", "clear")
  /\ local' = [local EXCEPT ![th].paired = paired]
  /\ UNCHANGED <<lists, vehicles, in, call, alive, history>>

\* A write to vehicles disturbs every other display.
Disturb(th, self) ==
  /\ fresh' = FALSE
  /\ disturbed' = [u \in All |-> IF u = th THEN self ELSE TRUE]
  /\ UNCHANGED <<screen, steady, unpaired>>

\* Mutant: vehicles is not cleared.
Clear_KeepsAll(th) ==
  /\ Goto(th, "clear", "insert")
  /\ local' = [local EXCEPT ![th].todo = local[th].pairing \cup local[th].paired]
  /\ Disturb(th, FALSE)
  /\ UNCHANGED <<lists, vehicles, in, call, alive>>

\* vehicles.clear()
Clear(th) ==
  /\ Goto(th, "clear", "insert")
  /\ vehicles' = {}
  /\ local' = [local EXCEPT ![th].todo = local[th].pairing \cup local[th].paired]
  /\ Disturb(th, FALSE)
  /\ UNCHANGED <<lists, in, call, alive>>

\* vehicles.insert(v), for each v of the two copies; the loops end.
Insert(th) ==
  \/ \E v \in local[th].todo :
       /\ Goto(th, "insert", "insert")
       /\ vehicles' = vehicles \cup {v}
       /\ local' = [local EXCEPT ![th].todo = @ \ {v}]
       /\ Disturb(th, disturbed[th])
       /\ UNCHANGED <<lists, in, call, alive>>
  \/ /\ local[th].todo = {}
     /\ Goto(th, "insert", "print")
     /\ UNCHANGED <<lists, vehicles, local, in, call, alive, history>>

\* What the iterator over vehicles has yet to reach.
Ahead(th) ==
  {v \in vehicles : local[th].rows = <<>> \/ v > Last(local[th].rows)}

Least(S) == CHOOSE v \in S : \A u \in S : v <= u

\* Mutant: the iterator is not advanced.
PrintRow_Stuck(th) ==
  /\ Ahead(th) # {}
  /\ Goto(th, "print", "print")
  /\ UNCHANGED <<lists, vehicles, local, in, call, alive, history>>

\* Mutant: the iterator goes back to the first element.
PrintRow_First(th) ==
  /\ Ahead(th) # {}
  /\ Goto(th, "print", "print")
  /\ local' = [local EXCEPT ![th].rows = Append(@, Least(vehicles))]
  /\ UNCHANGED <<lists, vehicles, in, call, alive, history>>

\* for (const auto& v : vehicles): one row; its number is its place in rows.
PrintRow(th) ==
  /\ Ahead(th) # {}
  /\ Goto(th, "print", "print")
  /\ local' = [local EXCEPT ![th].rows = Append(@, Least(Ahead(th)))]
  /\ UNCHANGED <<lists, vehicles, in, call, alive, history>>

\* The display is complete.
Return(th) ==
  /\ Ahead(th) = {}
  /\ Goto(th, "print", IF th = Main THEN "prompt" ELSE "idle")
  /\ local' = [local EXCEPT ![th] = NoLocals]
  /\ screen' = local[th].rows
  /\ fresh' = ~disturbed[th]
  /\ steady' = [steady EXCEPT ![th] = {}]
  /\ unpaired' = [unpaired EXCEPT ![th] = {}]
  /\ UNCHANGED <<lists, vehicles, in, call, alive, disturbed>>

\* Mutant: the paired list is read first.
Display_PairedFirst(th) ==
  \/ /\ \/ /\ Goto(th, "read_pairing", "read_paired")
           /\ local' = [local EXCEPT ![th].paired = paired]
        \/ /\ Goto(th, "read_paired", "clear")
           /\ local' = [local EXCEPT ![th].pairing = pairing]
     /\ UNCHANGED <<lists, vehicles, in, call, alive, history>>
  \/ Clear(th) \/ Insert(th) \/ PrintRow(th) \/ Return(th)

Display(th) ==
  ReadPairing(th) \/ ReadPaired(th) \/ Clear(th) \/ Insert(th) \/ PrintRow(th) \/ Return(th)

-----------------------------------------------------------------------------
(* The manager's threads.  Every change of a list is followed by a call of *)
(* its callback on the same thread.  They run between init and the end of  *)
(* the manager's destructor.                                               *)

Running == pc[Main] \notin {"init", "joined", "end"}

\* What the display that th starts, and those in progress, see of the lists.
Observe(th) ==
  /\ steady' = [u \in All |-> IF u = th THEN Listed' ELSE steady[u] \cap Listed']
  /\ unpaired' = [u \in All |->
       CASE u = th -> {}
         [] u # th /\ pc[u] = "read_paired" -> unpaired[u] \cup (paired \ paired')
         [] OTHER -> unpaired[u]]
  /\ UNCHANGED <<screen, fresh, disturbed>>

ListChange(th) ==
  /\ Running
  /\ changes < MaxChanges
  /\ changes' = changes + 1
  /\ \E v \in Names :
       \/ pairing' = pairing \cup {v} /\ UNCHANGED paired  \* broadcast
       \/ pairing' = pairing \ {v} /\ UNCHANGED paired     \* expired
       \/ paired' = paired \cup {v} /\ UNCHANGED pairing   \* paired
       \/ paired' = paired \ {v} /\ UNCHANGED pairing      \* unpaired
  /\ Enter(th, "idle")
  /\ Observe(th)
  /\ UNCHANGED <<vehicles, in, call, alive, connects>>

ConnectedChange(th) ==
  /\ Running
  /\ connects < MaxConnects
  /\ connects' = connects + 1
  /\ Enter(th, "idle")
  /\ UNCHANGED <<pairing, paired, vehicles, in, call, alive, changes>>
  /\ Observe(th)

-----------------------------------------------------------------------------
(* Main's loop.                                                            *)

MainGoto(from, to) ==
  /\ Goto(Main, from, to)
  /\ UNCHANGED <<lists, vehicles, local, alive, history>>

\* connection_manager.init(config) succeeds, or main returns -1
InitManager ==
  /\ MainGoto("init", "prompt") \/ MainGoto("init", "exit")
  /\ UNCHANGED <<in, call>>

\* std::string in; std::cin >> in; an empty token, all that is ever read after
\* the end of the input, changes nothing.
ReadToken ==
  /\ MainGoto("prompt", "switch")
  /\ in' \in Tokens
  /\ call' = NoCall

\* Mutant: rows are counted from one.
GetVehicleName_FromOne(n) ==
  LET Row(v) == Cardinality({u \in vehicles : u <= v})
  IN  IF \E v \in vehicles : Row(v) = n
      THEN CHOOSE v \in vehicles : Row(v) = n ELSE NoName

\* get_vehicle_name(in[1]): the element of vehicles with that index
GetVehicleName(n) ==
  LET Row(v) == Cardinality({u \in vehicles : u < v})
  IN  IF \E v \in vehicles : Row(v) = n
      THEN CHOOSE v \in vehicles : Row(v) = n ELSE NoName

Call(fn, name) ==
  /\ call' = [fn |-> fn, name |-> name]
  /\ in' = IF pc'[Main] = "prompt" THEN NoToken ELSE in

\* case 'x': run = false
Exit ==
  /\ in.op = "x"
  /\ MainGoto("switch", "exit")
  /\ in' = NoToken
  /\ UNCHANGED call

\* case 'l'
List ==
  /\ in.op = "l"
  /\ Enter(Main, "switch")
  /\ in' = NoToken
  /\ UNCHANGED <<lists, vehicles, call, alive>>
  /\ Observe(Main)

\* case 'p': pairing mode is entered, then any argument names a vehicle
EnterPairing ==
  /\ in.op = "p"
  /\ MainGoto("switch", IF Len(in.arg) > 0 THEN "pair" ELSE "prompt")
  /\ Call("enter_pairing_mode", NoName)

PairTo ==
  /\ MainGoto("pair", "prompt")
  /\ Call("pair_to", GetVehicleName(in.arg[1]))

\* cases 'c', 'd' and 'u', for a token of length 2
OnVehicle ==
  /\ Len(in.arg) = 1
  /\ MainGoto("switch", "prompt")
  /\ \/ in.op = "c" /\ Call("connect_to", GetVehicleName(in.arg[1]))
     \/ in.op = "d" /\ Call("disconnect_from", GetVehicleName(in.arg[1]))
     \/ in.op = "u" /\ Call("unpair_from", GetVehicleName(in.arg[1]))

\* 'p' - '0' and 'c' - '0'
CharP == 64
CharC == 51

\* case 's'
Stop ==
  /\ in.op = "s"
  /\ Len(in.arg) = 1
  /\ MainGoto("switch", "prompt")
  /\ \/ in.arg[1] = CharP /\ Call("stop_pairing", NoName)
     \/ in.arg[1] = CharC /\ Call("stop_connecting", NoName)

\* cases '?' and 'h', letters without a case, arguments the cases do not take
Ignore ==
  /\ \/ in.op \notin {"x", "l", "p", "s", "c", "d", "u"}
     \/ in.op \in {"s", "c", "d", "u"} /\ Len(in.arg) # 1
     \/ in.op = "s" /\ Len(in.arg) = 1 /\ in.arg[1] \notin {CharP, CharC}
  /\ MainGoto("switch", "prompt")
  /\ in' = NoToken
  /\ UNCHANGED call

\* Mutant: the static set is destroyed before the manager.
JoinManager_Late ==
  /\ MainGoto("exit", "joined")
  /\ UNCHANGED <<in, call>>

\* main returns: connection_manager, its local, is destroyed and joins its
\* threads; then the static vehicles is.
JoinManager ==
  /\ \A th \in Threads : pc[th] = "idle"
  /\ MainGoto("exit", "joined")
  /\ UNCHANGED <<in, call>>

DestroyVehicles ==
  /\ MainGoto("joined", "end")
  /\ UNCHANGED <<in, call>>

Command == Exit \/ List \/ EnterPairing \/ PairTo \/ OnVehicle \/ Stop \/ Ignore

Finish == JoinManager \/ DestroyVehicles

-----------------------------------------------------------------------------
(* Unsynchronised use of vehicles.                                         *)

Writes(th) == pc[th] \in {"clear", "insert"}

Uses(th) ==
  \/ pc[th] \in {"clear", "insert", "print"}
  \/ th = Main /\ pc[th] = "pair"
  \/ th = Main /\ pc[th] = "switch" /\ in.op \in {"c", "d", "u"} /\ Len(in.arg) = 1

\* Two threads use vehicles at once, one of them writing: the steps of the
\* set's operations may come out whole, as above, or corrupt it.
Crash ==
  /\ alive
  /\ \E th \in All : \E u \in All \ {th} : Writes(th) /\ Uses(u)
  /\ alive' = FALSE
  /\ UNCHANGED <<lists, vehicles, pc, local, in, call, history>>

-----------------------------------------------------------------------------

Next ==
  \/ \E th \in Threads : ListChange(th) \/ ConnectedChange(th)
  \/ \E th \in All : Display(th)
  \/ InitManager \/ ReadToken \/ Command \/ Finish
  \/ Crash

\* Threads run; nothing makes the user type or the manager call back.
Fairness ==
  /\ \A th \in All : WF_vars(Display(th))
  /\ WF_vars(Command)
  /\ WF_vars(Finish)

Spec == Init /\ [][Next]_vars /\ Fairness

-----------------------------------------------------------------------------
(* Properties.                                                             *)

Displaying == {"read_pairing", "read_paired", "clear", "insert", "print"}

MainPlaces == {"init", "prompt", "switch", "pair", "exit", "joined", "end"}

Locals == [pairing : SUBSET Names, paired : SUBSET Names, todo : SUBSET Names, rows : Seq(Names)]

Ascending(s) == \A i, j \in DOMAIN s : i < j => s[i] < s[j]

\* Types of every variable; rows are printed in the order of the set.
TypeOK ==
  /\ pairing \subseteq Names /\ paired \subseteq Names /\ vehicles \subseteq Names
  /\ pc \in [All -> Displaying \cup MainPlaces \cup {"idle"}]
  /\ pc[Main] # "idle" /\ \A th \in Threads : pc[th] \notin MainPlaces
  /\ local \in [All -> Locals]
  /\ screen \in Seq(Names)
  /\ \A th \in All : Ascending(local[th].rows)
  /\ in \in Tokens \cup {NoToken}
  /\ call.name \in Names \cup {NoName}
  /\ alive \in BOOLEAN /\ fresh \in BOOLEAN
  /\ disturbed \in [All -> BOOLEAN]
  /\ steady \in [All -> SUBSET Names] /\ unpaired \in [All -> SUBSET Names]
  /\ changes \in 0..MaxChanges /\ connects \in 0..MaxConnects

\* A display that no other thread's display disturbed prints exactly the
\* vehicles of the two lists it read, and leaves them in vehicles.
TableIsSnapshot ==
  /\ \A th \in All : (pc[th] = "print" /\ ~disturbed[th]) =>
       vehicles = local[th].pairing \cup local[th].paired
  /\ fresh => vehicles = Range(screen) /\ Len(screen) = Cardinality(vehicles)

\* The two lists are read one after the other, and the manager changes them in
\* between (lines 168-169).  A vehicle that is listed all the time, in one list
\* or the other, can be missing from both copies in one way only: it enters the
\* pairing list after that was read, and is unpaired before the paired list is.
\* The other way round, from the pairing list to the paired one, which is what
\* pairing does, it cannot be missed, because the pairing list is read first.
OnlyUnpairedMissed ==
  \A th \in All : pc[th] \in {"clear", "insert", "print"} =>
    steady[th] \subseteq local[th].pairing \cup local[th].paired \cup unpaired[th]

\* What a user may conclude from a table that no other display disturbed: a
\* vehicle that was listed from its first line to its last has a row, unless it
\* was unpaired between the two reads, although the lists are read apart, copied
\* into a set and printed while the manager changes them (lines 168-218).
TableLacksOnlyUnpaired ==
  [][\A th \in All :
       Return(th) /\ ~disturbed[th] => steady[th] \subseteq Range(screen') \cup unpaired[th]]_vars

\* No thread uses the set after its destruction: the manager, whose threads
\* use it, is destroyed first.
VehiclesOutliveThreads ==
  pc[Main] \in {"joined", "end"} => \A th \in Threads : pc[th] = "idle"

\* The row that a token of N digits names, and what the screen shows there.
Decimal(digits) == FoldLeft(LAMBDA n, d : 10 * n + d, 0, digits)

IsDecimal(arg) == arg # <<>> /\ \A i \in DOMAIN arg : arg[i] \in 0..9

Shown(n) == IF n \in 0..(Len(screen) - 1) THEN screen[n + 1] ELSE NoName

Selects(row, condition) == (PairTo \/ OnVehicle) /\ condition => call'.name = Shown(row)

\* A single character names the vehicle that the last display printed in the
\* row of its code, counted from '0', and a row that is not on the screen names
\* no vehicle, as long as nobody touched the set since that display.
CharacterSelectsRow == [][Selects(in.arg[1], fresh /\ Len(in.arg) = 1)]_vars

\* Once the user types x the program ends, whatever its threads are doing,
\* unless undefined behaviour brings it down.
ExitEnds == pc[Main] = "exit" ~> (pc[Main] = "end" \/ ~alive)

\* "pN - pair to N": N is a row of the table on the screen, also when the
\* table has more than ten (master_demo.cpp:243).
NumberSelectsRow == [][Selects(Decimal(in.arg), fresh /\ IsDecimal(in.arg))]_vars

\* "cN - connect to N": N is a row of the table on the screen, also while
\* another thread prints the same table again (master_demo.cpp:244).
RowIsStable ==
  [][Selects(in.arg[1], Len(in.arg) = 1 /\ in.arg[1] \in 0..(Len(screen) - 1))]_vars

=============================================================================
