------------------------- MODULE PairingTestsProofs -------------------------
(***************************************************************************)
(* The safety of PairingTests for any delay of the reports and any number  *)
(* of lost statuses that TimingAssumption admits.                          *)
(***************************************************************************)
EXTENDS PairingTests, TLAPS

M == at["master"]
S == at["slave"]

-----------------------------------------------------------------------------
(* The inductive invariant.                                                *)

\* What there is at which place of the programs.
PlacesInv ==
  /\ (up["master"] <=> M \in (3..13) \cup (15..17))
  /\ (up["slave"] <=> S \in (3..8) \cup (10..12))
  /\ pairing_mode["master"] => M \in 5..13
  /\ pairing_mode["slave"] => S \in 5..8
  /\ "pair_to" \in commands => M \in 7..13
  /\ "reconfigure" \in commands => M \in 10..13
  /\ reconfigured => linked /\ "reconfigure" \in commands
  /\ M <= 2 => status_list["master"] = {}
  /\ M = 4 => "DRIVER_CONNECTED" \in status_list["master"]
  /\ history.gave_up => M >= 13

\* Why no program is past a wait for CONNECTED before the managers have paired:
\* each has removed its file, so that what connects them is the new pairing.
NewPairingInv ==
  /\ M >= 2 /\ paired["master"] => history.paired
  /\ S >= 2 /\ paired["slave"] => history.paired
  /\ linked => history.paired
  /\ \A p \in Programs : "CONNECTED" \in status_list[p] => history.paired
  /\ M \in (8..12) \cup (17..18) \/ (M = 13 /\ ~history.gave_up) => history.paired
  /\ S \in (6..8) \cup (12..13) => history.paired

\* A CONNECTED in the list of the second manager has been reported to it.
NewConnectionInv ==
  /\ \A p \in Programs : at[p] > Autoconnect(p) /\ "CONNECTED" \in status_list[p] =>
       \E i \in history.links[p] : i > Autoconnect(p)
  /\ M >= 17 => "CONNECTED" \in status_list["master"]
  /\ S >= 12 => "CONNECTED" \in status_list["slave"]

\* The first managers stay linked while they exist, and neither program is
\* further than the other allows.
FirstLinkInv ==
  /\ M \in 8..12 => "CONNECTED" \in status_list["master"]
  /\ "CONNECTED" \in status_list["master"] /\ M \in 3..13 /\ S <= 8 => linked
  /\ S \in 7..8 => "RECONFIGURED" \in status_list["slave"]
  /\ "RECONFIGURED" \in status_list["slave"] /\ S \in 3..8 /\ M <= 13 => reconfigured
  /\ M <= 9 => S <= 6
  /\ M = 10 => S <= 7

\* The master hears of the slave as often as the losses allow.  Its last sleep
\* begins at most ReportDelay after the slave's, and so does not last longer than
\* that without the slave.
TimeInv ==
  /\ M \notin {8, 11} => left["master"] = SleepTime
  /\ S # 7 => left["slave"] = SleepTime
  /\ linked => beat.silence <= beat.lost * StatusPeriod + (StatusPeriod - beat.due)
  /\ M = 10 /\ S = 7 => SleepTime - left["slave"] <= age
  /\ M = 11 /\ S = 7 => left["master"] <= left["slave"] + ReportDelay
  /\ M = 11 /\ S >= 8 => left["master"] <= ReportDelay
  /\ M = 11 /\ S >= 9 =>
       beat.silence <= (MaxLost + 1) * StatusPeriod + (ReportDelay - left["master"])
  /\ M = 12 => beat.silence <= (MaxLost + 1) * StatusPeriod + ReportDelay

PairingInv ==
  TypeOK /\ PlacesInv /\ NewPairingInv /\ NewConnectionInv /\ FirstLinkInv /\ TimeInv

\* Why nobody is stuck.  Until they have paired the managers stay in pairing
\* mode, what was asked of the master's stays asked, and the files stay.
OfferInv ==
  /\ ~history.paired => (M \in 5..13 => pairing_mode["master"]) /\ (S \in 5..8 => pairing_mode["slave"])
  /\ ~history.paired => S <= 5
  /\ history.paired => M >= 7 /\ S >= 5 /\ paired["master"] /\ paired["slave"]
  /\ M \in 7..12 => "pair_to" \in commands
  /\ M \in 10..12 => "reconfigure" \in commands
  /\ pairing_list => list_changed
  /\ history.gave_up => ~history.paired /\ "pair_to" \notin commands

Heard(p) == "CONNECTED" \in status_list[p] /\ "RECONFIGURED" \in status_list[p]

\* The slave hears of the connection and of the new parameters before the last
\* sleep of the master is over: while it has not, no more of that sleep has
\* passed than the report has been owed for.
KeepsUpInv ==
  /\ "RECONFIGURED" \in status_list["master"] /\ M \in 3..13 /\ S <= 8 => reconfigured
  /\ M \in 11..12 => "RECONFIGURED" \in status_list["master"]
  /\ M = 11 /\ S <= 6 => SleepTime - left["master"] <= ReportDelay
  /\ M = 11 /\ S <= 6 /\ ~Heard("slave") => SleepTime - left["master"] <= age
  /\ M >= 12 => history.gave_up \/ S >= 7

ProgressInv == PairingInv /\ OfferInv /\ KeepsUpInv

-----------------------------------------------------------------------------
(* What the programs do where.                                             *)

Instructions ==
  [op : {"remove", "init", "await", "enter_pairing_mode", "await_pairing_list", "pair_to", "sleep",
         "reconfigure", "expect_connected", "return"},
   status : {"none", "DRIVER_CONNECTED", "CONNECTED", "RECONFIGURED"}]

\* Len, folded: unfolded, a length that is a number is replaced by the list of
\* the sequence's places.
Length(s) == Len(s)

\* s consists of a, b and c.
Joined(a, b, c, s) ==
  /\ Length(s) = Length(a) + Length(b) + Length(c)
  /\ \A i \in 1..Length(a) : s[i] = a[i]
  /\ \A i \in 1..Length(b) : s[Length(a) + i] = b[i]
  /\ \A i \in 1..Length(c) : s[Length(a) + Length(b) + i] = c[i]

LEMMA ThreeParts ==
  ASSUME NEW T, NEW a \in Seq(T), NEW b \in Seq(T), NEW c \in Seq(T)
  PROVE  Joined(a, b, c, (a \o b) \o c)
BY DEF Joined, Length

LEMMA MasterCode ==
  /\ End("master") = 18 /\ Autoconnect("master") = 14 /\ PairReturn("master") = 13
  /\ Code("master")[1] = Op("remove") /\ Code("master")[2] = Op("init")
  /\ Code("master")[3] = Await("DRIVER_CONNECTED") /\ Code("master")[4] = Op("enter_pairing_mode")
  /\ Code("master")[5] = Op("await_pairing_list") /\ Code("master")[6] = Op("pair_to")
  /\ Code("master")[7] = Await("CONNECTED") /\ Code("master")[8] = Op("sleep")
  /\ Code("master")[9] = Op("reconfigure") /\ Code("master")[10] = Await("RECONFIGURED")
  /\ Code("master")[11] = Op("sleep") /\ Code("master")[12] = Op("expect_connected")
  /\ Code("master")[13] = Op("return") /\ Code("master")[14] = Op("init")
  /\ Code("master")[15] = Await("DRIVER_CONNECTED") /\ Code("master")[16] = Await("CONNECTED")
  /\ Code("master")[17] = Op("return")
<1> DEFINE first == <<Op("remove")>>
<1>1. first \in Seq(Instructions) /\ Length(first) = 1 /\ first[1] = Op("remove")
  BY DEF Instructions, Op, Length
<1>2. /\ MasterPairTest \in Seq(Instructions) /\ Length(MasterPairTest) = 12
      /\ MasterPairTest[1] = Op("init") /\ MasterPairTest[2] = Await("DRIVER_CONNECTED")
      /\ MasterPairTest[3] = Op("enter_pairing_mode") /\ MasterPairTest[4] = Op("await_pairing_list")
      /\ MasterPairTest[5] = Op("pair_to") /\ MasterPairTest[6] = Await("CONNECTED")
      /\ MasterPairTest[7] = Op("sleep") /\ MasterPairTest[8] = Op("reconfigure")
      /\ MasterPairTest[9] = Await("RECONFIGURED") /\ MasterPairTest[10] = Op("sleep")
      /\ MasterPairTest[11] = Op("expect_connected") /\ MasterPairTest[12] = Op("return")
  BY DEF Instructions, MasterPairTest, Op, Await, Length
<1>3. /\ AutoconnectTest \in Seq(Instructions) /\ Length(AutoconnectTest) = 4
      /\ AutoconnectTest[1] = Op("init") /\ AutoconnectTest[2] = Await("DRIVER_CONNECTED")
      /\ AutoconnectTest[3] = Await("CONNECTED") /\ AutoconnectTest[4] = Op("return")
  BY DEF Instructions, AutoconnectTest, Op, Await, Length
<1>4. Code("master") = (first \o MasterPairTest) \o AutoconnectTest
  BY DEF Code, PairTest
<1> HIDE DEF first
<1>5. /\ first \in Seq(Instructions) /\ MasterPairTest \in Seq(Instructions)
      /\ AutoconnectTest \in Seq(Instructions)
  BY <1>1, <1>2, <1>3
<1> HIDE DEF Instructions
<1>6. Joined(first, MasterPairTest, AutoconnectTest, Code("master"))
  BY <1>4, <1>5, ThreeParts
<1>7. /\ Length(Code("master")) = 17 /\ Code("master")[1] = first[1]
      /\ \A i \in 1..12 : Code("master")[1 + i] = MasterPairTest[i]
      /\ \A i \in 1..4 : Code("master")[13 + i] = AutoconnectTest[i]
  <2>1. Length(first) = 1 /\ Length(MasterPairTest) = 12 /\ Length(AutoconnectTest) = 4
    BY <1>1, <1>2, <1>3
  <2> QED
    BY <1>6, <2>1 DEF Joined
<1>8. End("master") = 18 /\ Autoconnect("master") = 14 /\ PairReturn("master") = 13
  <2>1. /\ End("master") = Length(Code("master")) + 1 /\ Autoconnect("master") = Length(MasterPairTest) + 2
        /\ PairReturn("master") = Length(MasterPairTest) + 1
    BY DEF End, Autoconnect, PairReturn, PairTest, Length
  <2>2. Length(MasterPairTest) = 12
    BY <1>2
  <2> QED
    BY <1>7, <2>1, <2>2
<1> DEFINE T == MasterPairTest
           A == AutoconnectTest
<1>9. /\ Code("master")[1] = first[1]
      /\ Code("master")[2] = T[1] /\ Code("master")[3] = T[2]
      /\ Code("master")[4] = T[3] /\ Code("master")[5] = T[4]
      /\ Code("master")[6] = T[5] /\ Code("master")[7] = T[6]
      /\ Code("master")[8] = T[7] /\ Code("master")[9] = T[8]
      /\ Code("master")[10] = T[9] /\ Code("master")[11] = T[10]
      /\ Code("master")[12] = T[11] /\ Code("master")[13] = T[12]
      /\ Code("master")[14] = A[1] /\ Code("master")[15] = A[2]
      /\ Code("master")[16] = A[3] /\ Code("master")[17] = A[4]
  BY <1>7
<1> QED
  BY <1>1, <1>2, <1>3, <1>8, <1>9

LEMMA SlaveCode ==
  /\ End("slave") = 13 /\ Autoconnect("slave") = 9 /\ PairReturn("slave") = 8
  /\ Code("slave")[1] = Op("remove") /\ Code("slave")[2] = Op("init")
  /\ Code("slave")[3] = Await("DRIVER_CONNECTED") /\ Code("slave")[4] = Op("enter_pairing_mode")
  /\ Code("slave")[5] = Await("CONNECTED") /\ Code("slave")[6] = Await("RECONFIGURED")
  /\ Code("slave")[7] = Op("sleep") /\ Code("slave")[8] = Op("return")
  /\ Code("slave")[9] = Op("init") /\ Code("slave")[10] = Await("DRIVER_CONNECTED")
  /\ Code("slave")[11] = Await("CONNECTED") /\ Code("slave")[12] = Op("return")
<1> DEFINE first == <<Op("remove")>>
<1>1. first \in Seq(Instructions) /\ Length(first) = 1 /\ first[1] = Op("remove")
  BY DEF Instructions, Op, Length
<1>2. /\ SlavePairTest \in Seq(Instructions) /\ Length(SlavePairTest) = 7
      /\ SlavePairTest[1] = Op("init") /\ SlavePairTest[2] = Await("DRIVER_CONNECTED")
      /\ SlavePairTest[3] = Op("enter_pairing_mode") /\ SlavePairTest[4] = Await("CONNECTED")
      /\ SlavePairTest[5] = Await("RECONFIGURED") /\ SlavePairTest[6] = Op("sleep")
      /\ SlavePairTest[7] = Op("return")
  BY DEF Instructions, SlavePairTest, Op, Await, Length
<1>3. /\ AutoconnectTest \in Seq(Instructions) /\ Length(AutoconnectTest) = 4
      /\ AutoconnectTest[1] = Op("init") /\ AutoconnectTest[2] = Await("DRIVER_CONNECTED")
      /\ AutoconnectTest[3] = Await("CONNECTED") /\ AutoconnectTest[4] = Op("return")
  BY DEF Instructions, AutoconnectTest, Op, Await, Length
<1>4. Code("slave") = (first \o SlavePairTest) \o AutoconnectTest
  BY DEF Code, PairTest
<1> HIDE DEF first
<1>5. /\ first \in Seq(Instructions) /\ SlavePairTest \in Seq(Instructions)
      /\ AutoconnectTest \in Seq(Instructions)
  BY <1>1, <1>2, <1>3
<1> HIDE DEF Instructions
<1>6. Joined(first, SlavePairTest, AutoconnectTest, Code("slave"))
  BY <1>4, <1>5, ThreeParts
<1>7. /\ Length(Code("slave")) = 12 /\ Code("slave")[1] = first[1]
      /\ \A i \in 1..7 : Code("slave")[1 + i] = SlavePairTest[i]
      /\ \A i \in 1..4 : Code("slave")[8 + i] = AutoconnectTest[i]
  <2>1. Length(first) = 1 /\ Length(SlavePairTest) = 7 /\ Length(AutoconnectTest) = 4
    BY <1>1, <1>2, <1>3
  <2> QED
    BY <1>6, <2>1 DEF Joined
<1>8. End("slave") = 13 /\ Autoconnect("slave") = 9 /\ PairReturn("slave") = 8
  <2>1. /\ End("slave") = Length(Code("slave")) + 1 /\ Autoconnect("slave") = Length(SlavePairTest) + 2
        /\ PairReturn("slave") = Length(SlavePairTest) + 1
    BY DEF End, Autoconnect, PairReturn, PairTest, Length
  <2>2. Length(SlavePairTest) = 7
    BY <1>2
  <2> QED
    BY <1>7, <2>1, <2>2
<1> DEFINE T == SlavePairTest
           A == AutoconnectTest
<1>9. /\ Code("slave")[1] = first[1]
      /\ Code("slave")[2] = T[1] /\ Code("slave")[3] = T[2]
      /\ Code("slave")[4] = T[3] /\ Code("slave")[5] = T[4]
      /\ Code("slave")[6] = T[5] /\ Code("slave")[7] = T[6]
      /\ Code("slave")[8] = T[7] /\ Code("slave")[9] = A[1]
      /\ Code("slave")[10] = A[2] /\ Code("slave")[11] = A[3]
      /\ Code("slave")[12] = A[4]
  BY <1>7
<1> QED
  BY <1>1, <1>2, <1>3, <1>8, <1>9

\* The places of each kind of instruction.
LEMMA MasterInstruction ==
  ASSUME M \in 1..18
  PROVE  LET op == Instruction("master").op IN
    /\ op = "remove" <=> M = 1
    /\ op = "init" <=> M \in {2, 14}
    /\ op = "await" <=> M \in {3, 7, 10, 15, 16}
    /\ op = "enter_pairing_mode" <=> M = 4
    /\ op = "await_pairing_list" <=> M = 5
    /\ op = "pair_to" <=> M = 6
    /\ op = "sleep" <=> M \in {8, 11}
    /\ op = "reconfigure" <=> M = 9
    /\ op = "expect_connected" <=> M = 12
    /\ op = "return" <=> M \in {13, 17}
    /\ op = "ended" <=> M = 18
    /\ M \in {3, 15} => Instruction("master").status = "DRIVER_CONNECTED"
    /\ M \in {7, 16} => Instruction("master").status = "CONNECTED"
    /\ M = 10 => Instruction("master").status = "RECONFIGURED"
BY MasterCode DEF Instruction, Op, Await, M

LEMMA SlaveInstruction ==
  ASSUME S \in 1..13
  PROVE  LET op == Instruction("slave").op IN
    /\ op = "remove" <=> S = 1
    /\ op = "init" <=> S \in {2, 9}
    /\ op = "await" <=> S \in {3, 5, 6, 10, 11}
    /\ op = "enter_pairing_mode" <=> S = 4
    /\ op = "sleep" <=> S = 7
    /\ op = "return" <=> S \in {8, 12}
    /\ op = "ended" <=> S = 13
    /\ op \notin {"await_pairing_list", "pair_to", "reconfigure", "expect_connected"}
    /\ S \in {3, 10} => Instruction("slave").status = "DRIVER_CONNECTED"
    /\ S \in {5, 11} => Instruction("slave").status = "CONNECTED"
    /\ S = 6 => Instruction("slave").status = "RECONFIGURED"
BY SlaveCode DEF Instruction, Op, Await, S

LEMMA Ends ==
  /\ End("master") = 18 /\ Autoconnect("master") = 14 /\ PairReturn("master") = 13
  /\ End("slave") = 13 /\ Autoconnect("slave") = 9 /\ PairReturn("slave") = 8
BY MasterCode, SlaveCode

LEMMA Places ==
  ASSUME TypeOK
  PROVE  M \in 1..18 /\ S \in 1..13
BY MasterCode, SlaveCode DEF TypeOK, Programs, M, S

LEMMA MasterGoesOn ==
  ASSUME TypeOK, NEW op, GoesOn("master", op)
  PROVE  /\ Instruction("master").op = op
         /\ M' = M + 1 /\ S' = S /\ at' \in [Programs -> Nat]
BY DEF TypeOK, Programs, GoesOn, M, S

LEMMA SlaveGoesOn ==
  ASSUME TypeOK, NEW op, GoesOn("slave", op)
  PROVE  /\ Instruction("slave").op = op
         /\ M' = M /\ S' = S + 1 /\ at' \in [Programs -> Nat]
BY DEF TypeOK, Programs, GoesOn, M, S

-----------------------------------------------------------------------------
(* The invariant holds at the beginning, and every step keeps it.          *)

LEMMA InitPairingInv == Init => PairingInv
<1> SUFFICES ASSUME Init
             PROVE  PairingInv
  OBVIOUS
<1>1. M = 1 /\ S = 1
  BY DEF Init, M, S, Programs
<1>2. TypeOK
  <2>1. /\ at \in [Programs -> Nat] /\ \A p \in Programs : at[p] \in 1..End(p)
        /\ status_list \in [Programs -> SUBSET Statuses]
        /\ up \in [Programs -> BOOLEAN] /\ pairing_mode \in [Programs -> BOOLEAN]
    BY Ends DEF Init, Programs
  <2>2. /\ left \in [Programs -> 0..SleepTime] /\ age \in 0..ReportDelay
        /\ beat \in [due : 0..StatusPeriod, lost : 0..MaxLost, silence : 0..StatusTimeout]
    BY TimingAssumption
       DEF Init, TimingAssumption, NoBeat, SleepTime, StatusPeriod, StatusTimeout
  <2>3. history \in [paired : BOOLEAN, links : [Programs -> SUBSET Nat], gave_up : BOOLEAN]
    BY DEF Init
  <2> QED
    BY <2>1, <2>2, <2>3 DEF Init, TypeOK
<1>3. PlacesInv
  BY <1>1 DEF Init, PlacesInv, Programs
<1>4. NewPairingInv /\ NewConnectionInv
  BY <1>1, Ends DEF Init, NewPairingInv, NewConnectionInv, Programs, M, S
<1>5. FirstLinkInv
  BY <1>1 DEF Init, FirstLinkInv, Programs
<1>6. TimeInv
  BY <1>1 DEF Init, TimeInv, Programs
<1> QED
  BY <1>2, <1>3, <1>4, <1>5, <1>6 DEF PairingInv

LEMMA RemoveKeeps ==
  ASSUME PairingInv, NEW p \in Programs, Remove(p)
  PROVE  PairingInv'
<1> USE DEF PairingInv, TypeOK, PlacesInv, NewPairingInv, NewConnectionInv, FirstLinkInv, TimeInv,
            Programs, managers, link, timing
<1>1. CASE p = "master"
  <2>1. M = 1 /\ M' = M + 1 /\ S' = S /\ S \in 1..13 /\ at' \in [Programs -> Nat]
    BY <1>1, Places, MasterInstruction, MasterGoesOn DEF Remove
  <2> QED
    BY <1>1, <2>1, Ends DEF Remove, M, S
<1>2. CASE p = "slave"
  <2>1. S = 1 /\ S' = S + 1 /\ M' = M /\ M \in 1..18 /\ at' \in [Programs -> Nat]
    BY <1>2, Places, SlaveInstruction, SlaveGoesOn DEF Remove
  <2> QED
    BY <1>2, <2>1, Ends DEF Remove, M, S
<1> QED
  BY <1>1, <1>2

LEMMA InitManagerKeeps ==
  ASSUME PairingInv, NEW p \in Programs, InitManager(p)
  PROVE  PairingInv'
<1> USE DEF PairingInv, TypeOK, PlacesInv, NewPairingInv, NewConnectionInv, FirstLinkInv, TimeInv,
            Programs, managers, link, timing
<1>1. CASE p = "master"
  <2>1. M \in {2, 14} /\ M' = M + 1 /\ S' = S /\ S \in 1..13 /\ at' \in [Programs -> Nat]
    BY <1>1, Places, MasterInstruction, MasterGoesOn DEF InitManager
  <2> QED
    BY <1>1, <2>1, Ends DEF InitManager, M, S
<1>2. CASE p = "slave"
  <2>1. S \in {2, 9} /\ S' = S + 1 /\ M' = M /\ M \in 1..18 /\ at' \in [Programs -> Nat]
    BY <1>2, Places, SlaveInstruction, SlaveGoesOn DEF InitManager
  <2> QED
    BY <1>2, <2>1, Ends DEF InitManager, M, S
<1> QED
  BY <1>1, <1>2

LEMMA AwaitStatusKeeps ==
  ASSUME PairingInv, NEW p \in Programs, AwaitStatus(p)
  PROVE  PairingInv'
<1> USE DEF PairingInv, TypeOK, PlacesInv, NewPairingInv, NewConnectionInv, FirstLinkInv, TimeInv,
            Programs, managers, link, timing
<1>1. CASE p = "master"
  <2>1. M \in {3, 7, 10, 15, 16} /\ M' = M + 1 /\ S' = S /\ S \in 1..13 /\ at' \in [Programs -> Nat]
    BY <1>1, Places, MasterInstruction, MasterGoesOn DEF AwaitStatus
  <2> QED
    BY <1>1, <2>1, Ends, MasterInstruction, SlaveInstruction, TimingAssumption
       DEF AwaitStatus, M, S, TimingAssumption, SleepTime, StatusPeriod, StatusTimeout
<1>2. CASE p = "slave"
  <2>1. S \in {3, 5, 6, 10, 11} /\ S' = S + 1 /\ M' = M /\ M \in 1..18 /\ at' \in [Programs -> Nat]
    BY <1>2, Places, SlaveInstruction, SlaveGoesOn DEF AwaitStatus
  <2> QED
    BY <1>2, <2>1, Ends, MasterInstruction, SlaveInstruction, TimingAssumption
       DEF AwaitStatus, M, S, TimingAssumption, SleepTime, StatusPeriod, StatusTimeout
<1> QED
  BY <1>1, <1>2

LEMMA EnterPairingModeKeeps ==
  ASSUME PairingInv, NEW p \in Programs, EnterPairingMode(p)
  PROVE  PairingInv'
<1> USE DEF PairingInv, TypeOK, PlacesInv, NewPairingInv, NewConnectionInv, FirstLinkInv, TimeInv,
            Programs, managers, link, timing
<1>1. CASE p = "master"
  <2>1. M = 4 /\ M' = M + 1 /\ S' = S /\ S \in 1..13 /\ at' \in [Programs -> Nat]
    BY <1>1, Places, MasterInstruction, MasterGoesOn DEF EnterPairingMode
  <2> QED
    BY <1>1, <2>1, Ends DEF EnterPairingMode, M, S
<1>2. CASE p = "slave"
  <2>1. S = 4 /\ S' = S + 1 /\ M' = M /\ M \in 1..18 /\ at' \in [Programs -> Nat]
    BY <1>2, Places, SlaveInstruction, SlaveGoesOn DEF EnterPairingMode
  <2> QED
    BY <1>2, <2>1, Ends DEF EnterPairingMode, M, S
<1> QED
  BY <1>1, <1>2

LEMMA CommandKeeps ==
  ASSUME PairingInv, NEW p \in Programs, Command(p)
  PROVE  PairingInv'
<1> USE DEF PairingInv, TypeOK, PlacesInv, NewPairingInv, NewConnectionInv, FirstLinkInv, TimeInv,
            Programs, managers, link, timing
<1>1. CASE p = "master"
  <2>1. /\ \/ M = 6 /\ commands' = commands \cup {"pair_to"}
           \/ M = 9 /\ commands' = commands \cup {"reconfigure"}
        /\ M' = M + 1 /\ S' = S /\ S \in 1..13 /\ at' \in [Programs -> Nat]
    BY <1>1, Places, MasterInstruction, MasterGoesOn DEF Command
  <2>2. UNCHANGED <<paired, status_list, up, pairing_mode, pairing_list, list_changed, link, timing,
                    history>>
    BY DEF Command
  <2>3. commands' \subseteq {"pair_to", "reconfigure"}
    BY <2>1
  <2>4. TypeOK'
    BY <2>1, <2>2, <2>3, Ends DEF M, S
  <2>5. PlacesInv'
    BY <2>1, <2>2 DEF M, S
  <2>6. NewPairingInv' /\ NewConnectionInv'
    BY <2>1, <2>2, Ends DEF M, S
  <2>7. FirstLinkInv' /\ TimeInv'
    BY <2>1, <2>2 DEF M, S
  <2> QED
    BY <2>4, <2>5, <2>6, <2>7
<1>2. CASE p = "slave"
  BY <1>2, Places, SlaveInstruction, SlaveGoesOn DEF Command
<1> QED
  BY <1>1, <1>2

LEMMA SleepKeeps ==
  ASSUME PairingInv, NEW p \in Programs, Sleep(p)
  PROVE  PairingInv'
<1> USE DEF PairingInv, TypeOK, PlacesInv, NewPairingInv, NewConnectionInv, FirstLinkInv, TimeInv,
            Programs, managers, link, timing
<1>1. CASE p = "master"
  <2>1. M \in {8, 11} /\ M' = M + 1 /\ S' = S /\ S \in 1..13 /\ at' \in [Programs -> Nat]
    BY <1>1, Places, MasterInstruction, MasterGoesOn DEF Sleep
  <2>2. TypeOK'
    BY <1>1, <2>1, Ends, TimingAssumption
       DEF Sleep, M, S, TimingAssumption, SleepTime, StatusPeriod, StatusTimeout
  <2>3. PlacesInv'
    BY <1>1, <2>1 DEF Sleep, M, S
  <2>4. NewPairingInv'
    BY <1>1, <2>1 DEF Sleep, M, S
  <2>5. NewConnectionInv'
    BY <1>1, <2>1, Ends DEF Sleep, M, S
  <2>6. FirstLinkInv'
    BY <1>1, <2>1 DEF Sleep, M, S
  <2>7. TimeInv'
    BY <1>1, <2>1, TimingAssumption
       DEF Sleep, M, S, TimingAssumption, SleepTime, StatusPeriod, StatusTimeout
  <2> QED
    BY <2>2, <2>3, <2>4, <2>5, <2>6, <2>7
<1>2. CASE p = "slave"
  <2>1. S = 7 /\ S' = S + 1 /\ M' = M /\ M \in 1..18 /\ at' \in [Programs -> Nat]
    BY <1>2, Places, SlaveInstruction, SlaveGoesOn DEF Sleep
  <2> QED
    BY <1>2, <2>1, Ends, TimingAssumption
       DEF Sleep, M, S, TimingAssumption, SleepTime, StatusPeriod, StatusTimeout
<1> QED
  BY <1>1, <1>2

LEMMA ExpectConnectedKeeps ==
  ASSUME PairingInv, NEW p \in Programs, ExpectConnected(p)
  PROVE  PairingInv'
<1> USE DEF PairingInv, TypeOK, PlacesInv, NewPairingInv, NewConnectionInv, FirstLinkInv, TimeInv,
            Programs, managers, link, timing
<1>1. CASE p = "master"
  <2>1. M = 12 /\ M' = M + 1 /\ S' = S /\ S \in 1..13 /\ at' \in [Programs -> Nat]
    BY <1>1, Places, MasterInstruction, MasterGoesOn DEF ExpectConnected
  <2> QED
    BY <1>1, <2>1, Ends DEF ExpectConnected, M, S
<1>2. CASE p = "slave"
  BY <1>2, Places, SlaveInstruction, SlaveGoesOn DEF ExpectConnected
<1> QED
  BY <1>1, <1>2

LEMMA ReturnKeeps ==
  ASSUME PairingInv, NEW p \in Programs, Return(p)
  PROVE  PairingInv'
<1> USE DEF PairingInv, TypeOK, PlacesInv, NewPairingInv, NewConnectionInv, FirstLinkInv, TimeInv,
            Programs, managers, link, timing
<1>1. CASE p = "master"
  <2>1. M \in {13, 17} /\ M' = M + 1 /\ S' = S /\ S \in 1..13 /\ at' \in [Programs -> Nat]
    BY <1>1, Places, MasterInstruction, MasterGoesOn DEF Return
  <2>2. beat' = [due |-> 2, lost |-> 0, silence |-> 6]
    BY <1>1 DEF Return, NoBeat, StatusPeriod, StatusTimeout
  <2>3. /\ beat' \in [due : 0..StatusPeriod, lost : 0..MaxLost, silence : 0..StatusTimeout]
        /\ beat'.due = 2 /\ beat'.lost = 0 /\ beat'.silence = 6
    BY <2>2, TimingAssumption DEF TimingAssumption, StatusPeriod, StatusTimeout
  <2>4. /\ commands' \subseteq {"pair_to", "reconfigure"}
        /\ pairing_list' \in BOOLEAN /\ list_changed' \in BOOLEAN
    BY <1>1 DEF Return
  <2>5. up' \in [Programs -> BOOLEAN] /\ pairing_mode' \in [Programs -> BOOLEAN]
    BY DEF Return
  <2>6. /\ linked' = FALSE /\ reconfigured' = FALSE
        /\ UNCHANGED <<paired, status_list, left, age, history>>
    BY DEF Return
  <2>7. TypeOK'
    <3>1. \A q \in Programs : at'[q] \in 1..End(q)
      BY <2>1, Ends DEF M, S
    <3>2. /\ paired' \in [Programs -> BOOLEAN] /\ status_list' \in [Programs -> SUBSET Statuses]
          /\ left' \in [Programs -> 0..SleepTime] /\ age' \in 0..ReportDelay
          /\ history' \in [paired : BOOLEAN, links : [Programs -> SUBSET Nat], gave_up : BOOLEAN]
      BY <2>6
    <3> QED
      BY <2>1, <2>3, <2>4, <2>5, <2>6, <3>1, <3>2
  <2>8. PlacesInv'
    BY <1>1, <2>1 DEF Return, M, S
  <2>9. NewPairingInv'
    BY <1>1, <2>1 DEF Return, M, S
  <2>10. NewConnectionInv'
    BY <1>1, <2>1, Ends DEF Return, M, S
  <2>11. FirstLinkInv'
    BY <1>1, <2>1 DEF Return, M, S
  <2>12. TimeInv'
    BY <2>1, <2>3, <2>6, TimingAssumption
       DEF M, S, TimingAssumption, SleepTime, StatusPeriod, StatusTimeout
  <2> QED
    BY <2>7, <2>8, <2>9, <2>10, <2>11, <2>12
<1>2. CASE p = "slave"
  <2>1. S \in {8, 12} /\ S' = S + 1 /\ M' = M /\ M \in 1..18 /\ at' \in [Programs -> Nat]
    BY <1>2, Places, SlaveInstruction, SlaveGoesOn DEF Return
  <2>2. beat' = [due |-> 2, lost |-> 0, silence |-> beat.silence]
    BY <1>2 DEF Return, NoBeat, StatusPeriod, StatusTimeout
  <2>3. /\ beat' \in [due : 0..StatusPeriod, lost : 0..MaxLost, silence : 0..StatusTimeout]
        /\ beat'.due = 2 /\ beat'.lost = 0 /\ beat'.silence = beat.silence
    BY <2>2, TimingAssumption DEF TimingAssumption, StatusPeriod, StatusTimeout
  <2>4. /\ commands' \subseteq {"pair_to", "reconfigure"}
        /\ pairing_list' \in BOOLEAN /\ list_changed' \in BOOLEAN
    BY <1>2 DEF Return
  <2>5. up' \in [Programs -> BOOLEAN] /\ pairing_mode' \in [Programs -> BOOLEAN]
    BY DEF Return
  <2>6. /\ linked' = FALSE /\ reconfigured' = FALSE
        /\ UNCHANGED <<paired, status_list, left, age, history>>
    BY DEF Return
  <2>7. TypeOK'
    <3>1. \A q \in Programs : at'[q] \in 1..End(q)
      BY <2>1, Ends DEF M, S
    <3>2. /\ paired' \in [Programs -> BOOLEAN] /\ status_list' \in [Programs -> SUBSET Statuses]
          /\ left' \in [Programs -> 0..SleepTime] /\ age' \in 0..ReportDelay
          /\ history' \in [paired : BOOLEAN, links : [Programs -> SUBSET Nat], gave_up : BOOLEAN]
      BY <2>6
    <3> QED
      BY <2>1, <2>3, <2>4, <2>5, <2>6, <3>1, <3>2
  <2>8. PlacesInv'
    BY <1>2, <2>1 DEF Return, M, S
  <2>9. NewPairingInv'
    BY <1>2, <2>1 DEF Return, M, S
  <2>10. NewConnectionInv'
    BY <1>2, <2>1, Ends DEF Return, M, S
  <2>11. FirstLinkInv'
    BY <1>2, <2>1 DEF Return, M, S
  <2>12. TimeInv'
    BY <2>1, <2>3, <2>6, TimingAssumption
       DEF M, S, TimingAssumption, SleepTime, StatusPeriod, StatusTimeout
  <2> QED
    BY <2>7, <2>8, <2>9, <2>10, <2>11, <2>12
<1> QED
  BY <1>1, <1>2

LEMMA AwaitPairingListKeeps ==
  ASSUME PairingInv, AwaitPairingList
  PROVE  PairingInv'
<1> USE DEF PairingInv, TypeOK, PlacesInv, NewPairingInv, NewConnectionInv, FirstLinkInv, TimeInv,
            Programs, managers, link, timing
<1>1. M' = (IF pairing_list THEN 6 ELSE 13) /\ M = 5 /\ S' = S /\ at' \in [Programs -> Nat]
  <2>1. M = 5
    BY Places, MasterInstruction DEF AwaitPairingList
  <2>2. at' = [at EXCEPT !["master"] = IF pairing_list THEN at["master"] + 1 ELSE 13]
    BY Ends DEF AwaitPairingList
  <2>3. at["master"] = 5
    BY <2>1 DEF M
  <2> QED
    BY <2>2, <2>3 DEF M, S
<1>2. TypeOK'
  BY <1>1, Ends DEF AwaitPairingList, M, S
<1>3. PlacesInv'
  BY <1>1 DEF AwaitPairingList, M, S
<1>4. NewPairingInv'
  BY <1>1 DEF AwaitPairingList, M, S
<1>5. NewConnectionInv'
  BY <1>1, Ends DEF AwaitPairingList, M, S
<1>6. FirstLinkInv'
  BY <1>1 DEF AwaitPairingList, M, S
<1>7. TimeInv'
  BY <1>1 DEF AwaitPairingList, M, S
<1> QED
  BY <1>2, <1>3, <1>4, <1>5, <1>6, <1>7

LEMMA DetectDriverKeeps ==
  ASSUME PairingInv, NEW p \in Programs, DetectDriver(p)
  PROVE  PairingInv'
<1> USE DEF PairingInv, TypeOK, PlacesInv, NewPairingInv, NewConnectionInv, FirstLinkInv, TimeInv,
            Programs, managers, link, timing
<1> QED
  BY Ends, Places DEF DetectDriver, M, S, Reports, Statuses

LEMMA ReportLinkKeeps ==
  ASSUME PairingInv, NEW p \in Programs, ReportLink(p)
  PROVE  PairingInv'
<1> USE DEF PairingInv, TypeOK, PlacesInv, NewPairingInv, NewConnectionInv, FirstLinkInv, TimeInv,
            Programs, managers, link, timing
<1> QED
  BY Ends, Places DEF ReportLink, M, S, Reports, Statuses, Owed

LEMMA BroadcastKeeps ==
  ASSUME PairingInv, Broadcast
  PROVE  PairingInv'
<1> USE DEF PairingInv, TypeOK, PlacesInv, NewPairingInv, NewConnectionInv, FirstLinkInv, TimeInv,
            Programs, managers, link, timing
<1> QED
  BY Ends, Places DEF Broadcast, M, S

LEMMA ExpireKeeps ==
  ASSUME PairingInv, Expire
  PROVE  PairingInv'
<1> USE DEF PairingInv, TypeOK, PlacesInv, NewPairingInv, NewConnectionInv, FirstLinkInv, TimeInv,
            Programs, managers, link, timing
<1>1. TypeOK'
  BY Ends DEF Expire, M, S
<1>2. PlacesInv'
  BY DEF Expire, M, S
<1>3. NewPairingInv'
  BY DEF Expire, M, S
<1>4. NewConnectionInv'
  BY Ends DEF Expire, M, S
<1>5. FirstLinkInv'
  BY DEF Expire, M, S
<1>6. TimeInv'
  BY DEF Expire, M, S
<1> QED
  BY <1>1, <1>2, <1>3, <1>4, <1>5, <1>6

LEMMA PairKeeps ==
  ASSUME PairingInv, Pair
  PROVE  PairingInv'
<1> USE DEF PairingInv, TypeOK, PlacesInv, NewPairingInv, NewConnectionInv, FirstLinkInv, TimeInv,
            Programs, managers, link, timing
<1>1. TypeOK'
  BY Ends DEF Pair, M, S
<1>2. PlacesInv'
  BY DEF Pair, M, S
<1>3. NewPairingInv'
  BY DEF Pair, M, S
<1>4. NewConnectionInv'
  BY Ends DEF Pair, M, S
<1>5. FirstLinkInv'
  BY DEF Pair, M, S
<1>6. TimeInv'
  BY DEF Pair, M, S
<1> QED
  BY <1>1, <1>2, <1>3, <1>4, <1>5, <1>6

LEMMA ConnectKeeps ==
  ASSUME PairingInv, Connect
  PROVE  PairingInv'
<1> USE DEF PairingInv, TypeOK, PlacesInv, NewPairingInv, NewConnectionInv, FirstLinkInv, TimeInv,
            Programs, managers, link, timing
<1> QED
  BY Ends, Places, TimingAssumption
     DEF Connect, M, S, TimingAssumption, SleepTime, StatusPeriod, StatusTimeout, NoBeat

LEMMA ReconfigureKeeps ==
  ASSUME PairingInv, Reconfigure
  PROVE  PairingInv'
<1> USE DEF PairingInv, TypeOK, PlacesInv, NewPairingInv, NewConnectionInv, FirstLinkInv, TimeInv,
            Programs, managers, link, timing
<1> QED
  BY Ends, Places, TimingAssumption DEF Reconfigure, M, S

LEMMA SendStatusKeeps ==
  ASSUME PairingInv, SendStatus
  PROVE  PairingInv'
<1> USE DEF PairingInv, TypeOK, PlacesInv, NewPairingInv, NewConnectionInv, FirstLinkInv, TimeInv,
            Programs, managers, link, timing
<1>1. /\ beat' \in [due : 0..StatusPeriod, lost : 0..MaxLost, silence : 0..StatusTimeout]
      /\ linked /\ beat.due = 0 /\ beat'.due = StatusPeriod
      /\ \/ beat'.lost = 0 /\ beat'.silence = 0
         \/ beat'.lost = beat.lost + 1 /\ beat'.silence = beat.silence
  <2>1. beat \in [due : 0..StatusPeriod, lost : 0..MaxLost, silence : 0..StatusTimeout]
    OBVIOUS
  <2>2. CASE beat' = [due |-> StatusPeriod, lost |-> 0, silence |-> 0]
    BY <2>2, TimingAssumption DEF SendStatus, TimingAssumption, StatusPeriod, StatusTimeout
  <2>3. CASE /\ beat.lost < MaxLost
             /\ beat' = [beat EXCEPT !.due = StatusPeriod, !.lost = @ + 1]
    <3> HIDE DEF PairingInv
    <3>1. beat' = [due |-> StatusPeriod, lost |-> beat.lost + 1, silence |-> beat.silence]
      BY <2>1, <2>3 DEF StatusPeriod
    <3>2. beat.lost + 1 \in 0..MaxLost
      BY <2>1, <2>3, TimingAssumption DEF TimingAssumption
    <3> QED
      BY <2>1, <3>1, <3>2 DEF SendStatus, StatusPeriod
  <2> QED
    BY <2>2, <2>3 DEF SendStatus
<1>2. UNCHANGED <<at, paired, status_list, managers, link, left, age, history>>
  BY DEF SendStatus
<1>3. /\ beat'.silence <= beat'.lost * StatusPeriod + (StatusPeriod - beat'.due)
      /\ beat'.silence <= beat.silence
  <2>1. beat.lost \in Int /\ beat.silence \in Nat /\ beat.silence <= beat.lost * 2 + 2
    BY <1>1 DEF StatusPeriod
  <2> HIDE DEF PairingInv
  <2> QED
    BY <1>1, <2>1 DEF StatusPeriod
<1>4. TypeOK'
  BY <1>1, <1>2
<1>5. TimeInv'
  BY <1>1, <1>2, <1>3, TimingAssumption
     DEF M, S, TimingAssumption, SleepTime, StatusPeriod, StatusTimeout
<1> QED
  BY <1>2, <1>4, <1>5 DEF M, S

\* While time passes nobody returns or looks at the connected list, and if the
\* master still waits for RECONFIGURED, that report is owed.
LEMMA TickKeeps ==
  ASSUME PairingInv, Tick
  PROVE  PairingInv'
<1>1. M \in 1..18 /\ S \in 1..13
  BY Places DEF PairingInv
<1>2. M # 12 /\ S # 8 /\ (M = 10 => "RECONFIGURED" \notin status_list["master"])
  BY <1>1, MasterInstruction, SlaveInstruction DEF Tick, Blocked, Sleeping, Programs
<1>3. /\ Sleeping("master") <=> M \in {8, 11}
      /\ Sleeping("slave") <=> S = 7
  BY <1>1, MasterInstruction, SlaveInstruction DEF Sleeping
<1>4. \A p \in Programs : Sleeping(p) => left[p] > 0
  BY <1>1, <1>3, MasterInstruction, SlaveInstruction DEF Tick, Blocked, Programs
<1> USE DEF PairingInv, TypeOK, PlacesInv, NewPairingInv, NewConnectionInv, FirstLinkInv, TimeInv,
            Programs, managers, link
<1>5. /\ left' \in [Programs -> 0..SleepTime]
      /\ left'["master"] = (IF M \in {8, 11} THEN left["master"] - 1 ELSE left["master"])
      /\ left'["slave"] = (IF S = 7 THEN left["slave"] - 1 ELSE left["slave"])
  BY <1>3, <1>4 DEF Tick, SleepTime
<1>6. age' \in 0..ReportDelay
  BY TimingAssumption DEF Tick, TimingAssumption
<1>7. M = 10 /\ S = 7 => age' = age + 1
  <2>1. SUFFICES ASSUME M = 10, S = 7
                 PROVE  SomethingOwed
    BY DEF Tick
  <2>2. "RECONFIGURED" \in Owed("master")
    BY <1>2, <2>1 DEF Owed
  <2> QED
    BY <2>2 DEF SomethingOwed
<1>8. /\ beat' \in [due : 0..StatusPeriod, lost : 0..MaxLost, silence : 0..StatusTimeout]
      /\ beat'.lost = beat.lost
      /\ beat'.due = (IF linked THEN beat.due - 1 ELSE beat.due)
      /\ beat'.silence \in {beat.silence, beat.silence + 1}
  <2> DEFINE due == IF linked THEN beat.due - 1 ELSE beat.due
             silence == IF ConnectedList THEN beat.silence + 1 ELSE beat.silence
  <2>1. beat' = [beat EXCEPT !.due = due, !.silence = silence] /\ (linked => beat.due > 0)
    BY DEF Tick
  <2>2. beat \in [due : 0..StatusPeriod, lost : 0..MaxLost, silence : 0..StatusTimeout]
    OBVIOUS
  <2> HIDE DEF PairingInv
  <2>3. /\ due \in 0..StatusPeriod /\ silence \in 0..StatusTimeout
        /\ silence \in {beat.silence, beat.silence + 1}
    BY <2>1, <2>2 DEF ConnectedList, StatusPeriod, StatusTimeout
  <2> HIDE DEF due, silence
  <2>4. beat' = [due |-> due, lost |-> beat.lost, silence |-> silence]
    BY <2>1, <2>2
  <2> QED
    BY <2>2, <2>3, <2>4 DEF due
<1>9. UNCHANGED <<at, paired, status_list, managers, link, history>>
  BY DEF Tick
<1>10. TypeOK'
  BY <1>5, <1>6, <1>8, <1>9
<1>11. TimeInv'
  BY <1>1, <1>2, <1>5, <1>6, <1>7, <1>8, <1>9, TimingAssumption
     DEF M, S, TimingAssumption, SleepTime, StatusPeriod, StatusTimeout
<1> QED
  BY <1>9, <1>10, <1>11 DEF M, S

LEMMA StepPairingInv == PairingInv /\ [Next]_vars => PairingInv'
<1> SUFFICES ASSUME PairingInv, [Next]_vars
             PROVE  PairingInv'
  OBVIOUS
<1>1. CASE \E p \in Programs : Step(p) \/ DetectDriver(p) \/ ReportLink(p)
  BY <1>1, RemoveKeeps, InitManagerKeeps, AwaitStatusKeeps, EnterPairingModeKeeps,
     AwaitPairingListKeeps, CommandKeeps, SleepKeeps, ExpectConnectedKeeps, ReturnKeeps,
     DetectDriverKeeps, ReportLinkKeeps DEF Step
<1>2. CASE Manager \/ Expire \/ SendStatus \/ Tick
  BY <1>2, BroadcastKeeps, PairKeeps, ConnectKeeps, ReconfigureKeeps, ExpireKeeps, SendStatusKeeps,
     TickKeeps DEF Manager
<1>3. CASE UNCHANGED vars
  BY <1>3 DEF vars, PairingInv, TypeOK, PlacesInv, NewPairingInv, NewConnectionInv, FirstLinkInv,
              TimeInv, M, S
<1> QED
  BY <1>1, <1>2, <1>3 DEF Next

-----------------------------------------------------------------------------
(* Nobody is stuck: the second layer of the invariant.                     *)

LEMMA InitProgressInv == Init => ProgressInv
<1> SUFFICES ASSUME Init
             PROVE  ProgressInv
  OBVIOUS
<1>1. M = 1 /\ S = 1
  BY DEF Init, M, S, Programs
<1>2. OfferInv /\ KeepsUpInv
  BY <1>1 DEF Init, OfferInv, KeepsUpInv, Programs
<1> QED
  BY <1>2, InitPairingInv DEF ProgressInv

\* A step of a program: where it was, and what it leaves alone.
LEMMA StepMaster ==
  ASSUME PairingInv, Step("master"), M # 5
  PROVE  /\ M \in 1..17 /\ M' = M + 1 /\ S' = S
         /\ UNCHANGED <<history, age>>
         /\ M # 1 => UNCHANGED paired
         /\ M \notin {2, 14} => UNCHANGED status_list
         /\ M \in {2, 14} => status_list'["master"] = {}
         /\ status_list'["slave"] = status_list["slave"]
         /\ M \notin {6, 9, 13, 17} => UNCHANGED commands
         /\ M = 6 => "pair_to" \in commands'
         /\ M = 9 => commands \subseteq commands' /\ "reconfigure" \in commands'
         /\ M \in {13, 17} => commands' = {}
         /\ M \notin {13, 17} => UNCHANGED <<pairing_list, list_changed, linked, reconfigured>>
         /\ M \in {13, 17} => pairing_list' = FALSE
         /\ M \notin {4, 13, 17} => UNCHANGED pairing_mode
         /\ M = 4 => pairing_mode' = [pairing_mode EXCEPT !["master"] = TRUE]
         /\ M \in {13, 17} => pairing_mode' = [pairing_mode EXCEPT !["master"] = FALSE]
         /\ M \notin {8, 11} => UNCHANGED left
         /\ M \in {8, 11} => left["master"] = 0
         /\ M \in {3, 15} => "DRIVER_CONNECTED" \in status_list["master"]
         /\ M \in {7, 16} => "CONNECTED" \in status_list["master"]
         /\ M = 10 => "RECONFIGURED" \in status_list["master"]
<1>1. M \in 1..18 /\ TypeOK
  BY Places DEF PairingInv
<1> USE DEF managers, link, timing
<1>2. CASE Remove("master")
  BY <1>1, <1>2, MasterInstruction, MasterGoesOn DEF Remove
<1>3. CASE InitManager("master")
  BY <1>1, <1>3, MasterInstruction, MasterGoesOn DEF InitManager, TypeOK, Programs
<1>4. CASE AwaitStatus("master")
  BY <1>1, <1>4, MasterInstruction, MasterGoesOn DEF AwaitStatus
<1>5. CASE EnterPairingMode("master")
  BY <1>1, <1>5, MasterInstruction, MasterGoesOn DEF EnterPairingMode
<1>6. CASE AwaitPairingList
  BY <1>1, <1>6, MasterInstruction DEF AwaitPairingList
<1>7. CASE Command("master")
  BY <1>1, <1>7, MasterInstruction, MasterGoesOn DEF Command
<1>8. CASE Sleep("master")
  BY <1>1, <1>8, MasterInstruction, MasterGoesOn DEF Sleep
<1>9. CASE ExpectConnected("master")
  BY <1>1, <1>9, MasterInstruction, MasterGoesOn DEF ExpectConnected
<1>10. CASE Return("master")
  BY <1>1, <1>10, MasterInstruction, MasterGoesOn DEF Return
<1> QED
  BY <1>2, <1>3, <1>4, <1>5, <1>6, <1>7, <1>8, <1>9, <1>10 DEF Step

LEMMA StepSlave ==
  ASSUME PairingInv, Step("slave")
  PROVE  /\ S \in 1..12 /\ S' = S + 1 /\ M' = M
         /\ UNCHANGED <<history, age, commands, pairing_list, list_changed>>
         /\ S # 1 => UNCHANGED paired
         /\ S \notin {2, 9} => UNCHANGED status_list
         /\ S \in {2, 9} => status_list'["slave"] = {}
         /\ status_list'["master"] = status_list["master"]
         /\ S \notin {8, 12} => UNCHANGED <<linked, reconfigured>>
         /\ S \notin {4, 8, 12} => UNCHANGED pairing_mode
         /\ S = 4 => pairing_mode' = [pairing_mode EXCEPT !["slave"] = TRUE]
         /\ S \in {8, 12} => pairing_mode' = [pairing_mode EXCEPT !["slave"] = FALSE]
         /\ left'["master"] = left["master"]
         /\ S \in {3, 10} => "DRIVER_CONNECTED" \in status_list["slave"]
         /\ S \in {5, 11} => "CONNECTED" \in status_list["slave"]
         /\ S = 6 => "RECONFIGURED" \in status_list["slave"]
<1>1. S \in 1..13 /\ TypeOK
  BY Places DEF PairingInv
<1> USE DEF managers, link, timing
<1>2. CASE Remove("slave")
  BY <1>1, <1>2, SlaveInstruction, SlaveGoesOn DEF Remove
<1>3. CASE InitManager("slave")
  BY <1>1, <1>3, SlaveInstruction, SlaveGoesOn DEF InitManager, TypeOK, Programs
<1>4. CASE AwaitStatus("slave")
  BY <1>1, <1>4, SlaveInstruction, SlaveGoesOn DEF AwaitStatus
<1>5. CASE EnterPairingMode("slave")
  BY <1>1, <1>5, SlaveInstruction, SlaveGoesOn DEF EnterPairingMode
<1>7. CASE Command("slave")
  BY <1>1, <1>7, SlaveInstruction, SlaveGoesOn DEF Command
<1>8. CASE Sleep("slave")
  BY <1>1, <1>8, SlaveInstruction, SlaveGoesOn DEF Sleep, TypeOK, Programs
<1>9. CASE ExpectConnected("slave")
  BY <1>1, <1>9, SlaveInstruction, SlaveGoesOn DEF ExpectConnected
<1>10. CASE Return("slave")
  BY <1>1, <1>10, SlaveInstruction, SlaveGoesOn DEF Return
<1> QED
  BY <1>2, <1>3, <1>4, <1>5, <1>7, <1>8, <1>9, <1>10 DEF Step

\* The one step of the master after which it may be elsewhere than at the next
\* instruction.
LEMMA ListStep ==
  ASSUME PairingInv, Step("master"), M = 5
  PROVE  /\ M' = (IF pairing_list THEN 6 ELSE 13) /\ S' = S
         /\ history'.paired = history.paired
         /\ history'.gave_up <=> ~pairing_list
         /\ UNCHANGED <<paired, status_list, pairing_mode, commands, pairing_list, list_changed,
                        reconfigured>>
<1>1. AwaitPairingList
  BY MasterInstruction
     DEF Step, Remove, InitManager, AwaitStatus, EnterPairingMode, Command, Sleep, ExpectConnected,
         Return, GoesOn
<1>2. M' = (IF pairing_list THEN 6 ELSE 13) /\ S' = S
  <2>1. at' = [at EXCEPT !["master"] = IF pairing_list THEN at["master"] + 1 ELSE 13]
    BY <1>1, Ends DEF AwaitPairingList
  <2>2. at \in [Programs -> Nat]
    BY DEF PairingInv, TypeOK
  <2> QED
    BY <2>1, <2>2 DEF M, S, Programs
<1>3. /\ history'.paired = history.paired
      /\ history'.gave_up <=> ~pairing_list
  <2> DEFINE empty == ~pairing_list
  <2>1. history \in [paired : BOOLEAN, links : [Programs -> SUBSET Nat], gave_up : BOOLEAN]
    BY DEF PairingInv, TypeOK
  <2>2. history' = [history EXCEPT !.gave_up = empty]
    BY <1>1 DEF AwaitPairingList
  <2> HIDE DEF empty
  <2>3. history'.gave_up = empty /\ history'.paired = history.paired
    BY <2>1, <2>2
  <2> QED
    BY <2>3 DEF empty
<1>4. UNCHANGED <<paired, status_list, pairing_mode, commands, pairing_list, list_changed,
                  reconfigured>>
  BY <1>1 DEF AwaitPairingList, managers, link
<1> QED
  BY <1>2, <1>3, <1>4

LEMMA MasterKeepsProgress ==
  ASSUME ProgressInv, PairingInv', Step("master")
  PROVE  OfferInv' /\ KeepsUpInv'
<1>1. M \in 1..18 /\ S \in 1..13
  BY Places DEF ProgressInv, PairingInv
<1>2. CASE M # 5
  <2>1. OfferInv /\ PlacesInv /\ pairing_mode \in [Programs -> BOOLEAN]
    BY DEF ProgressInv, PairingInv, TypeOK
  <2>2. M \in 1..17 /\ M' = M + 1 /\ S' = S /\ UNCHANGED <<history, age>>
    BY <1>2, StepMaster DEF ProgressInv
  <2>3. /\ M # 1 => UNCHANGED paired
        /\ M \notin {6, 9, 13, 17} => UNCHANGED commands
        /\ M = 6 => "pair_to" \in commands'
        /\ M = 9 => commands \subseteq commands' /\ "reconfigure" \in commands'
        /\ M \in {13, 17} => commands' = {}
        /\ M \notin {13, 17} => UNCHANGED <<pairing_list, list_changed>>
        /\ M \in {13, 17} => pairing_list' = FALSE
        /\ M \notin {4, 13, 17} => UNCHANGED pairing_mode
        /\ M = 4 => pairing_mode' = [pairing_mode EXCEPT !["master"] = TRUE]
        /\ M \in {13, 17} => pairing_mode' = [pairing_mode EXCEPT !["master"] = FALSE]
    BY <1>2, StepMaster DEF ProgressInv
  <2>4. OfferInv'
    BY <2>1, <2>2, <2>3 DEF OfferInv, PlacesInv, Programs
  <2>5. /\ M \notin {2, 14} => UNCHANGED status_list
        /\ M \notin {13, 17} => UNCHANGED reconfigured
        /\ M \notin {8, 11} => UNCHANGED left
        /\ M \in {8, 11} => left["master"] = 0
        /\ M = 10 => "RECONFIGURED" \in status_list["master"]
    BY <1>2, StepMaster DEF ProgressInv
  <2>6. /\ M = 10 => left["master"] = SleepTime
        /\ M = 2 => "RECONFIGURED" \notin status_list'["master"]
        /\ age \in Nat
    <3>1. M = 2 => status_list'["master"] = {}
      BY StepMaster DEF ProgressInv
    <3> QED
      BY <3>1, TimingAssumption DEF ProgressInv, PairingInv, TypeOK, TimeInv, TimingAssumption
  <2>7. KeepsUpInv'
    <3>1. KeepsUpInv
      BY DEF ProgressInv
    <3> QED
      BY <1>1, <1>2, <2>2, <2>5, <2>6, <3>1, TimingAssumption
         DEF KeepsUpInv, Heard, TimingAssumption, SleepTime
  <2> QED
    BY <2>4, <2>7
<1>3. CASE M = 5
  <2>1. OfferInv /\ ~history.paired /\ "pair_to" \notin commands
    BY <1>3 DEF ProgressInv, PairingInv, PlacesInv, OfferInv
  <2>2. OfferInv'
    BY <1>1, <1>3, <2>1, ListStep DEF ProgressInv, OfferInv
  <2>3. KeepsUpInv'
    BY <1>1, <1>3, <2>1, ListStep DEF ProgressInv, KeepsUpInv
  <2> QED
    BY <2>2, <2>3
<1> QED
  BY <1>2, <1>3

LEMMA SlaveKeepsProgress ==
  ASSUME ProgressInv, PairingInv', Step("slave")
  PROVE  OfferInv' /\ KeepsUpInv'
<1> USE DEF ProgressInv, PairingInv, TypeOK, PlacesInv, NewPairingInv, FirstLinkInv, TimeInv,
            OfferInv, KeepsUpInv, Heard, Programs
<1>1. M \in 1..18 /\ S \in 1..13
  BY Places
<1>2. OfferInv'
  BY <1>1, StepSlave
<1>3. KeepsUpInv'
  BY <1>1, StepSlave, TimingAssumption DEF TimingAssumption, SleepTime
<1> QED
  BY <1>2, <1>3

LEMMA ReportsKeepProgress ==
  ASSUME ProgressInv, NEW p \in Programs, DetectDriver(p) \/ ReportLink(p)
  PROVE  OfferInv' /\ KeepsUpInv'
<1>1. /\ UNCHANGED <<at, paired, managers, link, timing>>
      /\ history'.paired = history.paired /\ history'.gave_up = history.gave_up
  BY DEF ProgressInv, PairingInv, TypeOK, DetectDriver, ReportLink
<1>2. /\ status_list["master"] \subseteq status_list'["master"]
      /\ status_list["slave"] \subseteq status_list'["slave"]
      /\ "RECONFIGURED" \in status_list'["master"] =>
           reconfigured \/ "RECONFIGURED" \in status_list["master"]
  BY DEF ProgressInv, PairingInv, TypeOK, Programs, DetectDriver, ReportLink, Reports, Owed
<1>3. OfferInv'
  BY <1>1 DEF ProgressInv, OfferInv, M, S, managers
<1>4. KeepsUpInv'
  BY <1>1, <1>2 DEF ProgressInv, KeepsUpInv, Heard, M, S, link, timing
<1> QED
  BY <1>3, <1>4

LEMMA ManagerKeepsProgress ==
  ASSUME ProgressInv, Manager \/ Expire \/ SendStatus
  PROVE  OfferInv' /\ KeepsUpInv'
<1> USE DEF ProgressInv, PairingInv, TypeOK, Programs, managers, link, timing
<1>1. CASE Broadcast
  BY <1>1 DEF Broadcast, OfferInv, KeepsUpInv, Heard, M, S
<1>2. CASE Pair
  <2>1. /\ M \in 7..13 /\ S \in 5..8 /\ ~history.gave_up
    BY <1>2 DEF Pair, PlacesInv, OfferInv
  <2>2. /\ history'.paired /\ history'.gave_up = history.gave_up
        /\ paired'["master"] /\ paired'["slave"]
        /\ UNCHANGED <<at, status_list, commands, pairing_list, list_changed, reconfigured, left, age>>
    BY <1>2 DEF Pair
  <2> QED
    BY <2>1, <2>2 DEF OfferInv, KeepsUpInv, Heard, M, S
<1>3. CASE Connect
  <2>1. M = 11 /\ S <= 6 => linked
    BY <1>3, Places DEF FirstLinkInv, PlacesInv, OfferInv, Connect
  <2> QED
    BY <1>3, <2>1 DEF Connect, OfferInv, KeepsUpInv, Heard, M, S
<1>4. CASE Reconfigure
  <2>1. M \in 10..13 /\ (M = 11 /\ S <= 6 => reconfigured)
    BY <1>4 DEF Reconfigure, PlacesInv, KeepsUpInv
  <2> QED
    BY <1>4, <2>1 DEF Reconfigure, OfferInv, KeepsUpInv, Heard, M, S
<1>5. CASE Expire
  BY <1>5 DEF Expire, OfferInv, KeepsUpInv, Heard, M, S
<1>6. CASE SendStatus
  BY <1>6 DEF SendStatus, OfferInv, KeepsUpInv, Heard, M, S
<1> QED
  BY <1>1, <1>2, <1>3, <1>4, <1>5, <1>6 DEF Manager

\* While time passes in the master's last sleep, the slave that has not got that
\* far waits for a report that is owed.
LEMMA TickKeepsProgress ==
  ASSUME ProgressInv, PairingInv', Tick
  PROVE  OfferInv' /\ KeepsUpInv'
<1>1. UNCHANGED <<at, paired, status_list, managers, link, history>>
  BY DEF Tick
<1>2. OfferInv'
  BY <1>1 DEF ProgressInv, OfferInv, M, S, managers
<1>3. M \in 1..18 /\ S \in 1..13
  BY Places DEF ProgressInv, PairingInv
<1>4. ASSUME M = 11, S <= 6
      PROVE  /\ ~Heard("slave") /\ age' = age + 1
             /\ left'["master"] = left["master"] - 1
  <2>1. S \in 5..6
    BY <1>3, <1>4 DEF ProgressInv, PairingInv, NewPairingInv, OfferInv
  <2>2. ~Heard("slave")
    BY <2>1, SlaveInstruction DEF Tick, Blocked, Sleeping, Programs, Heard
  <2>3. up["slave"] /\ linked /\ reconfigured
    BY <1>3, <1>4, <2>1 DEF ProgressInv, PairingInv, PlacesInv, KeepsUpInv
  <2>4. \E s \in {"CONNECTED", "RECONFIGURED"} : s \in Owed("slave")
    BY <2>2, <2>3 DEF Owed, Heard
  <2>5. SomethingOwed
    BY <2>4 DEF SomethingOwed, Programs
  <2>6. Sleeping("master")
    BY <1>3, <1>4, MasterInstruction DEF Sleeping
  <2> QED
    BY <2>2, <2>5, <2>6 DEF Tick, Programs
<1>5. M = 11 /\ S <= 6 => SleepTime - left'["master"] <= age' /\ age' <= ReportDelay
  <2>1. left["master"] \in Int /\ age \in Int /\ age' \in 0..ReportDelay
    BY TimingAssumption DEF ProgressInv, PairingInv, TypeOK, Programs, TimingAssumption, SleepTime
  <2>2. M = 11 /\ S <= 6 /\ ~Heard("slave") => SleepTime - left["master"] <= age
    BY DEF ProgressInv, KeepsUpInv
  <2> QED
    BY <1>4, <2>1, <2>2, TimingAssumption DEF SleepTime, TimingAssumption
<1>6. KeepsUpInv'
  <2>1. left'["master"] \in Int /\ age' \in Int
    BY TimingAssumption DEF PairingInv, TypeOK, Programs, TimingAssumption, SleepTime
  <2> QED
    BY <1>1, <1>5, <2>1, TimingAssumption
       DEF ProgressInv, KeepsUpInv, Heard, M, S, link, SleepTime, TimingAssumption
<1> QED
  BY <1>2, <1>6

LEMMA StepProgressInv == ProgressInv /\ [Next]_vars => ProgressInv'
<1> SUFFICES ASSUME ProgressInv, [Next]_vars
             PROVE  ProgressInv'
  OBVIOUS
<1>1. PairingInv'
  BY StepPairingInv DEF ProgressInv
<1>2. CASE \E p \in Programs : Step(p)
  BY <1>1, <1>2, MasterKeepsProgress, SlaveKeepsProgress DEF Programs, ProgressInv
<1>3. CASE \E p \in Programs : DetectDriver(p) \/ ReportLink(p)
  BY <1>1, <1>3, ReportsKeepProgress DEF ProgressInv
<1>4. CASE Manager \/ Expire \/ SendStatus
  BY <1>1, <1>4, ManagerKeepsProgress DEF ProgressInv
<1>5. CASE Tick
  BY <1>1, <1>5, TickKeepsProgress DEF ProgressInv
<1>6. CASE UNCHANGED vars
  BY <1>1, <1>6 DEF vars, ProgressInv, OfferInv, KeepsUpInv, Heard, M, S
<1> QED
  BY <1>2, <1>3, <1>4, <1>5, <1>6 DEF Next

-----------------------------------------------------------------------------
(* What the runs check, for every delay and every number of losses.        *)

\* The programs, their managers and the clock keep within PairingInv.
THEOREM PairingInvariance == Spec => []PairingInv
<1>1. Init => PairingInv
  BY InitPairingInv
<1>2. PairingInv /\ [Next]_vars => PairingInv'
  BY StepPairingInv
<1> QED
  BY <1>1, <1>2, PTL DEF Spec

\* Every variable keeps its type; in particular no program runs past its end,
\* no sleep runs below zero and no report is owed for longer than ReportDelay.
THEOREM PairingTypeCorrect == Spec => []TypeOK
<1>1. PairingInv => TypeOK
  BY DEF PairingInv
<1> QED
  BY <1>1, PairingInvariance, PTL

\* A file left by an earlier run of the programs never makes a wait for
\* CONNECTED succeed: whoever is past one runs with a pairing of this run.
THEOREM PairedInThisRunAlways == Spec => []PairedInThisRun
<1>1. PairingInv => PairedInThisRun
  <2> SUFFICES ASSUME PairingInv, NEW p \in Programs, Passed(p, "CONNECTED"),
                      at[p] # PairReturn(p) \/ ~history.gave_up
               PROVE  history.paired
    BY DEF PairedInThisRun
  <2> DEFINE start == IF at[p] < Autoconnect(p) THEN 1 ELSE Autoconnect(p)
  <2>1. PICK i \in start..(at[p] - 1) : Code(p)[i] = Await("CONNECTED")
    BY DEF Passed
  <2>2. M \in 1..18 /\ S \in 1..13
    BY Places DEF PairingInv
  <2>3. CASE p = "master"
    <3>1. i \in {7, 16} /\ (i = 7 => M \in 8..13)
      BY <2>1, <2>2, <2>3, MasterCode DEF Await, Op, M
    <3> QED
      BY <2>1, <2>2, <2>3, <3>1, Ends DEF PairingInv, NewPairingInv, M
  <2>4. CASE p = "slave"
    <3>1. i \in {5, 11} /\ (i = 5 => S \in 6..8)
      BY <2>1, <2>2, <2>4, SlaveCode DEF Await, Op, S
    <3> QED
      BY <2>1, <2>2, <2>4, <3>1 DEF PairingInv, NewPairingInv, S
  <2> QED
    BY <2>3, <2>4 DEF Programs
<1> QED
  BY <1>1, PairingInvariance, PTL

\* No program ends on the connection of its first test: the manager of its
\* second test has reported one of its own.
THEOREM AutoconnectIsNewAlways == Spec => []AutoconnectIsNew
<1>1. PairingInv => AutoconnectIsNew
  BY Ends DEF PairingInv, NewConnectionInv, AutoconnectIsNew, Programs, M, S
<1> QED
  BY <1>1, PairingInvariance, PTL

\* The slave is in the connected list whenever the master looks, for every delay
\* of the reports and every run of lost statuses that TimingAssumption admits.
THEOREM ConnectedWhenExpected == Spec => []ConnectedAtTheEnd
<1>1. PairingInv => ConnectedAtTheEnd
  <2> SUFFICES ASSUME PairingInv, Instruction("master").op = "expect_connected"
               PROVE  ConnectedList
    BY DEF ConnectedAtTheEnd
  <2>1. M = 12
    BY Places, MasterInstruction DEF PairingInv
  <2> QED
    BY <2>1, TimingAssumption DEF PairingInv, TypeOK, TimeInv, ConnectedList, TimingAssumption,
                                  StatusPeriod, StatusTimeout
<1> QED
  BY <1>1, PairingInvariance, PTL

\* Until they have paired and connected, and from then on until one has ended,
\* the programs wait for nothing that will not come.
LEMMA ProgressImpliesNeverStuck == ProgressInv => NeverStuck
<1> SUFFICES ASSUME ProgressInv, ~history.gave_up,
                    \A p \in Programs : Blocked(p) /\ ~Sleeping(p),
                    ~((\A p \in Programs : at[p] >= Autoconnect(p)) /\ \E p \in Programs : at[p] = End(p))
             PROVE  ManagersAct
  BY DEF NeverStuck
<1>1. M \in 1..18 /\ S \in 1..13
  BY Places DEF ProgressInv, PairingInv
<1>2. /\ M \in {3, 5, 7, 10, 15, 16, 18}
      /\ M \in {3, 15} => "DRIVER_CONNECTED" \notin status_list["master"]
      /\ M = 5 => ~list_changed
      /\ M \in {7, 16} => "CONNECTED" \notin status_list["master"]
      /\ M = 10 => "RECONFIGURED" \notin status_list["master"]
  <2>1. Blocked("master") /\ ~Sleeping("master")
    BY DEF Programs
  <2> QED
    BY <1>1, <2>1, MasterInstruction DEF Blocked, Sleeping
<1>3. /\ S \in {3, 5, 6, 10, 11, 13}
      /\ S \in {3, 10} => "DRIVER_CONNECTED" \notin status_list["slave"]
      /\ S \in {5, 11} => "CONNECTED" \notin status_list["slave"]
      /\ S = 6 => "RECONFIGURED" \notin status_list["slave"]
  <2>1. Blocked("slave") /\ ~Sleeping("slave")
    BY DEF Programs
  <2> QED
    BY <1>1, <2>1, SlaveInstruction DEF Blocked, Sleeping
<1>4. /\ up["master"] <=> M \in (3..13) \cup (15..17)
      /\ up["slave"] <=> S \in (3..8) \cup (10..12)
  BY DEF ProgressInv, PairingInv, PlacesInv
\* A connection that either waits for comes about, and is reported.
<1>5. ASSUME history.paired, NEW p \in Programs, up["master"], up["slave"],
             "CONNECTED" \notin status_list[p]
      PROVE  ManagersAct
  <2>1. paired["master"] /\ paired["slave"]
    BY <1>5 DEF ProgressInv, OfferInv
  <2>2. CASE linked
    <3>1. "CONNECTED" \in Owed(p)
      BY <1>5, <2>2 DEF Owed, Programs
    <3> QED
      BY <1>5, <3>1 DEF ManagersAct, Programs
  <2>3. CASE ~linked
    BY <1>5, <2>1, <2>3 DEF ManagersAct, Programs
  <2> QED
    BY <2>2, <2>3
<1>6. CASE M \in {3, 15} \/ S \in {3, 10}
  BY <1>2, <1>3, <1>4, <1>6 DEF ManagersAct, Programs
<1>7. CASE M = 5 /\ S \in {5, 6, 11, 13}
  <2>1. ~history.paired /\ S = 5 /\ ~pairing_list
    BY <1>2, <1>7 DEF ProgressInv, OfferInv
  <2>2. pairing_mode["master"] /\ pairing_mode["slave"]
    BY <1>7, <2>1 DEF ProgressInv, OfferInv
  <2> QED
    BY <1>2, <1>7, <2>1, <2>2 DEF ManagersAct, Programs
<1>8. CASE M = 7 /\ S \in {5, 6, 11, 13}
  <2>1. S \in {5, 6} /\ "pair_to" \in commands
    BY <1>8 DEF ProgressInv, PairingInv, FirstLinkInv, OfferInv
  <2>2. CASE ~history.paired
    <3>1. pairing_mode["master"] /\ pairing_mode["slave"]
      BY <1>8, <2>1, <2>2 DEF ProgressInv, OfferInv
    <3> QED
      BY <2>1, <3>1 DEF ManagersAct, Programs
  <2>3. CASE history.paired
    BY <1>2, <1>4, <1>5, <1>8, <2>1, <2>3 DEF Programs
  <2> QED
    BY <2>2, <2>3
<1>9. CASE M = 10 /\ S \in {5, 6, 11, 13}
  <2>1. S \in {5, 6} /\ history.paired /\ linked /\ "reconfigure" \in commands
    BY <1>9 DEF ProgressInv, PairingInv, FirstLinkInv, NewPairingInv, OfferInv
  <2>2. CASE reconfigured
    <3>1. "RECONFIGURED" \in Owed("master") /\ up["master"]
      BY <1>2, <1>4, <1>9, <2>2 DEF Owed
    <3> QED
      BY <3>1 DEF ManagersAct, Programs
  <2>3. CASE ~reconfigured
    BY <2>1, <2>3 DEF ManagersAct
  <2> QED
    BY <2>2, <2>3
<1>10. CASE M \in {16, 18} /\ S \in {5, 6, 11, 13}
  <2>1. S \in {11, 13} /\ history.paired
    BY <1>10 DEF ProgressInv, KeepsUpInv, OfferInv
  <2>2. M = 16 /\ S = 11
    BY <1>10, <2>1, Ends DEF Programs, M, S
  <2> QED
    BY <1>2, <1>4, <1>5, <2>1, <2>2 DEF Programs
<1> QED
  BY <1>2, <1>3, <1>6, <1>7, <1>8, <1>9, <1>10

\* PairingInv with what keeps the programs from being stuck.
THEOREM ProgressInvariance == Spec => []ProgressInv
BY InitProgressInv, StepProgressInv, PTL DEF Spec

\* The two programs never wait for each other for good, for every delay of the
\* reports and every run of lost statuses that TimingAssumption admits: some
\* part of the system goes on until both pair tests are over and a program ends.
THEOREM NeverStuckAlways == Spec => []NeverStuck
BY ProgressImpliesNeverStuck, ProgressInvariance, PTL

\* A master that found no vehicle stays unpaired, and neither program gets past
\* its next wait for CONNECTED.
THEOREM GivenUpForGoodAlways == Spec => []GivenUpForGood
<1>1. ProgressInv => GivenUpForGood
  <2> SUFFICES ASSUME ProgressInv, history.gave_up
               PROVE  ~history.paired /\ ~linked /\ S <= 5 /\ M <= 16
    BY Ends DEF GivenUpForGood, M, S
  <2> QED
    BY Places DEF ProgressInv, PairingInv, NewPairingInv, OfferInv
<1> QED
  BY <1>1, ProgressInvariance, PTL

-----------------------------------------------------------------------------
(* What the master's manager sees.                                         *)

LEMMA InitDialogue == Init => Dialogue!Init
BY Ends DEF Init, Dialogue!Init, Asked, Programs

\* Where the master stands still, or goes over an instruction that is none of its
\* commands, all that can be seen of it is an answer.
LEMMA AnswerStep ==
  ASSUME PairingInv, PairingInv',
         M' = M \/ (M' = M + 1 /\ M \notin {4, 5, 6, 9}),
         history'.gave_up = history.gave_up,
         M >= 14 \/ status_list["master"] \subseteq status_list'["master"]
  PROVE  [Dialogue!Next]_(Dialogue!vars)
<1>1. M \in 1..18 /\ (history.gave_up => M >= 13)
  BY Places DEF PairingInv, PlacesInv
<1>2. Asked' = Asked
  BY <1>1 DEF Asked, M
<1>3. (M > 5) = (M > 5)'
  BY <1>1
<1>4. status_list["master"] \subseteq Statuses /\ status_list'["master"] \subseteq Statuses
  BY DEF PairingInv, TypeOK, Programs
<1>5. Dialogue!Answer
  BY <1>1, <1>2, <1>3, <1>4, Ends DEF Dialogue!Answer, M
<1> QED
  BY <1>5 DEF Dialogue!Next

LEMMA NextDialogue ==
  ASSUME PairingInv, PairingInv', [Next]_vars
  PROVE  [Dialogue!Next]_(Dialogue!vars)
<1>1. M \in 1..18
  BY Places DEF PairingInv
<1>2. TypeOK
  BY DEF PairingInv
<1>3. CASE \/ \E p \in Programs : DetectDriver(p) \/ ReportLink(p)
           \/ Manager \/ Expire \/ SendStatus \/ Tick \/ UNCHANGED vars
  <2>1. at' = at /\ history'.gave_up = history.gave_up
    BY <1>2, <1>3 DEF TypeOK, DetectDriver, ReportLink, Manager, Broadcast, Pair, Connect, Reconfigure,
       Expire, SendStatus, Tick, vars
  <2>2. status_list["master"] \subseteq status_list'["master"]
    BY <1>2, <1>3 DEF TypeOK, Programs, DetectDriver, ReportLink, Reports, Manager, Broadcast, Pair,
       Connect, Reconfigure, Expire, SendStatus, Tick, vars
  <2> QED
    BY <2>1, <2>2, AnswerStep DEF M
<1>4. CASE Step("slave")
  <2>1. M' = M /\ history' = history
    BY <1>2, <1>4 DEF TypeOK, Programs, M, GoesOn, Step, Remove, InitManager, AwaitStatus,
       EnterPairingMode, Command, Sleep, ExpectConnected, Return
  <2>2. status_list'["master"] = status_list["master"]
    BY <1>2, <1>4 DEF TypeOK, Programs, Step, Remove, InitManager, AwaitStatus, EnterPairingMode,
       Command, Sleep, ExpectConnected, Return
  <2> QED
    BY <2>1, <2>2, AnswerStep
<1>5. CASE Step("master")
  <2>1. CASE \/ Remove("master") \/ AwaitStatus("master") \/ Sleep("master")
             \/ ExpectConnected("master") \/ Return("master")
    <3>1. M' = M + 1 /\ M \notin {4, 5, 6, 9} /\ UNCHANGED <<history, status_list>>
      BY <1>1, <1>2, <2>1, MasterInstruction, MasterGoesOn
         DEF Remove, AwaitStatus, Sleep, ExpectConnected, Return
    <3> QED
      BY <3>1, AnswerStep
  <2>2. CASE InitManager("master")
    <3>1. M' = M + 1 /\ M \in {2, 14} /\ UNCHANGED history
      BY <1>1, <1>2, <2>2, MasterInstruction, MasterGoesOn DEF InitManager
    <3>2. M = 2 => status_list["master"] = {}
      BY DEF PairingInv, PlacesInv
    <3> QED
      BY <3>1, <3>2, AnswerStep
  <2>3. CASE EnterPairingMode("master")
    <3>1. M = 4 /\ M' = 5 /\ UNCHANGED <<history, status_list, pairing_list>>
      BY <1>1, <1>2, <2>3, MasterInstruction, MasterGoesOn DEF EnterPairingMode
    <3>2. "DRIVER_CONNECTED" \in status_list["master"] /\ ~history.gave_up
      BY <3>1 DEF PairingInv, PlacesInv
    <3> QED
      BY <3>1, <3>2, Ends DEF M, Asked, Dialogue!Next, Dialogue!EnterPairingMode
  <2>4. CASE AwaitPairingList
    <3>1. M = 5
      BY <1>1, <2>4, MasterInstruction DEF AwaitPairingList
    <3>2. at' = [at EXCEPT !["master"] = IF pairing_list THEN at["master"] + 1 ELSE 13]
      BY <2>4, Ends DEF AwaitPairingList
    <3>3. M' = (IF pairing_list THEN 6 ELSE 13)
      BY <1>2, <3>1, <3>2 DEF M, TypeOK, Programs
    <3>4. UNCHANGED <<status_list, pairing_list>>
      BY <2>4 DEF AwaitPairingList, managers
    <3>5. history'.gave_up <=> ~pairing_list
      <4> DEFINE empty == ~pairing_list
      <4>1. history \in [paired : BOOLEAN, links : [Programs -> SUBSET Nat], gave_up : BOOLEAN]
        BY <1>2 DEF TypeOK
      <4>2. history' = [history EXCEPT !.gave_up = empty]
        BY <2>4 DEF AwaitPairingList
      <4> HIDE DEF empty
      <4>3. history'.gave_up = empty
        BY <4>1, <4>2
      <4> QED
        BY <4>3 DEF empty
    <3>6. ~history.gave_up
      BY <3>1 DEF PairingInv, PlacesInv
    <3> QED
      BY <3>1, <3>3, <3>4, <3>5, <3>6, Ends DEF M, Asked, Dialogue!Next, Dialogue!GetPairingList
  <2>5. CASE Command("master")
    <3>1. M \in {6, 9} /\ M' = M + 1 /\ UNCHANGED <<history, status_list, pairing_list>>
      BY <1>1, <1>2, <2>5, MasterInstruction, MasterGoesOn DEF Command
    <3>2. ~history.gave_up /\ (M = 9 => "CONNECTED" \in status_list["master"])
      BY <3>1 DEF PairingInv, PlacesInv, FirstLinkInv
    <3> QED
      BY <3>1, <3>2, Ends DEF M, Asked, Dialogue!Next, Dialogue!PairTo, Dialogue!Reconfigure
  <2> QED
    BY <1>5, <2>1, <2>2, <2>3, <2>4, <2>5 DEF Step
<1> QED
  BY <1>3, <1>4, <1>5 DEF Next, Programs

\* Every command of the master's pair test follows the answer it needs, with the
\* slave's program and the managers behind the answers, whatever the timing.
THEOREM PairingImplementsDialogue == Spec => Dialogue!SafeSpec
<1>1. PairingInv /\ PairingInv' /\ [Next]_vars => [Dialogue!Next]_(Dialogue!vars)
  BY NextDialogue
<1> QED
  BY <1>1, InitDialogue, PairingInvariance, PTL DEF Spec, Dialogue!SafeSpec

-----------------------------------------------------------------------------
(* The waits, as StatusAwait tells them.                                   *)

\* Where the waits of the tests are passed.
LEMMA MasterPassed ==
  M \in 1..18 =>
    /\ Passed("master", "DRIVER_CONNECTED") <=> M \in (4..13) \cup (16..18)
    /\ Passed("master", "CONNECTED") <=> M \in (8..13) \cup (17..18)
    /\ Passed("master", "RECONFIGURED") <=> M \in 11..13
<1> SUFFICES ASSUME M \in 1..18
             PROVE  /\ Passed("master", "DRIVER_CONNECTED") <=> M \in (4..13) \cup (16..18)
                    /\ Passed("master", "CONNECTED") <=> M \in (8..13) \cup (17..18)
                    /\ Passed("master", "RECONFIGURED") <=> M \in 11..13
  OBVIOUS
<1> DEFINE start == IF M < 14 THEN 1 ELSE 14
<1>1. \A status : Passed("master", status) <=>
        \E i \in start..(M - 1) : Code("master")[i] = Await(status)
  BY Ends DEF Passed, M
<1>2. \A i \in 1..17 : /\ Code("master")[i] = Await("DRIVER_CONNECTED") <=> i \in {3, 15}
                       /\ Code("master")[i] = Await("CONNECTED") <=> i \in {7, 16}
                       /\ Code("master")[i] = Await("RECONFIGURED") <=> i = 10
  BY MasterCode DEF Await, Op
<1>3. start..(M - 1) \subseteq 1..17
  OBVIOUS
<1>4. Passed("master", "DRIVER_CONNECTED") <=> \E i \in start..(M - 1) : i \in {3, 15}
  BY <1>1, <1>2, <1>3
<1>5. Passed("master", "CONNECTED") <=> \E i \in start..(M - 1) : i \in {7, 16}
  BY <1>1, <1>2, <1>3
<1>6. Passed("master", "RECONFIGURED") <=> \E i \in start..(M - 1) : i = 10
  BY <1>1, <1>2, <1>3
<1> QED
  BY <1>4, <1>5, <1>6

LEMMA SlavePassed ==
  S \in 1..13 =>
    /\ Passed("slave", "DRIVER_CONNECTED") <=> S \in (4..8) \cup (11..13)
    /\ Passed("slave", "CONNECTED") <=> S \in (6..8) \cup (12..13)
    /\ Passed("slave", "RECONFIGURED") <=> S \in 7..8
<1> SUFFICES ASSUME S \in 1..13
             PROVE  /\ Passed("slave", "DRIVER_CONNECTED") <=> S \in (4..8) \cup (11..13)
                    /\ Passed("slave", "CONNECTED") <=> S \in (6..8) \cup (12..13)
                    /\ Passed("slave", "RECONFIGURED") <=> S \in 7..8
  OBVIOUS
<1> DEFINE start == IF S < 9 THEN 1 ELSE 9
<1>1. \A status : Passed("slave", status) <=>
        \E i \in start..(S - 1) : Code("slave")[i] = Await(status)
  BY Ends DEF Passed, S
<1>2. \A i \in 1..12 : /\ Code("slave")[i] = Await("DRIVER_CONNECTED") <=> i \in {3, 10}
                       /\ Code("slave")[i] = Await("CONNECTED") <=> i \in {5, 11}
                       /\ Code("slave")[i] = Await("RECONFIGURED") <=> i = 6
  BY SlaveCode DEF Await, Op
<1>3. start..(S - 1) \subseteq 1..12
  OBVIOUS
<1>4. Passed("slave", "DRIVER_CONNECTED") <=> \E i \in start..(S - 1) : i \in {3, 10}
  BY <1>1, <1>2, <1>3
<1>5. Passed("slave", "CONNECTED") <=> \E i \in start..(S - 1) : i \in {5, 11}
  BY <1>1, <1>2, <1>3
<1>6. Passed("slave", "RECONFIGURED") <=> \E i \in start..(S - 1) : i = 6
  BY <1>1, <1>2, <1>3
<1> QED
  BY <1>4, <1>5, <1>6

\* The four counters of passed waits, and the four sets of statuses, by place.
MasterCounts ==
  /\ PairWaitsPassed("master") = (IF history.gave_up THEN 1 ELSE IF M >= 11 THEN 3
                                  ELSE IF M >= 8 THEN 2 ELSE IF M >= 4 THEN 1 ELSE 0)
  /\ AutoWaitsPassed("master") = (IF M >= 17 THEN 2 ELSE IF M = 16 THEN 1 ELSE 0)
  /\ M < 14 => PairStatuses("master") = status_list["master"]
  /\ M >= 14 => PairStatuses("master") = IF history.gave_up THEN {"DRIVER_CONNECTED"} ELSE Statuses
  /\ AutoStatuses("master") = IF M > 14 THEN status_list["master"] ELSE {}

SlaveCounts ==
  /\ PairWaitsPassed("slave") = (IF S >= 7 THEN 3 ELSE IF S = 6 THEN 2 ELSE IF S >= 4 THEN 1 ELSE 0)
  /\ AutoWaitsPassed("slave") = (IF S >= 12 THEN 2 ELSE IF S = 11 THEN 1 ELSE 0)
  /\ PairStatuses("slave") = IF S < 9 THEN status_list["slave"] ELSE Statuses
  /\ AutoStatuses("slave") = IF S > 9 THEN status_list["slave"] ELSE {}

LEMMA CountsByPlace == (M \in 1..18 /\ S \in 1..13) => MasterCounts /\ SlaveCounts
<1> SUFFICES ASSUME M \in 1..18, S \in 1..13
             PROVE  MasterCounts /\ SlaveCounts
  OBVIOUS
<1>1. /\ PairWaitsPassed("master") = (IF history.gave_up THEN 1 ELSE IF M >= 11 THEN 3
                                      ELSE IF M >= 8 THEN 2 ELSE IF M >= 4 THEN 1 ELSE 0)
      /\ AutoWaitsPassed("master") = (IF M >= 17 THEN 2 ELSE IF M = 16 THEN 1 ELSE 0)
  BY Ends, MasterPassed DEF PairWaitsPassed, AutoWaitsPassed, M
<1>2. /\ M < 14 => PairStatuses("master") = status_list["master"]
      /\ M >= 14 => PairStatuses("master") = IF history.gave_up THEN {"DRIVER_CONNECTED"} ELSE Statuses
      /\ AutoStatuses("master") = IF M > 14 THEN status_list["master"] ELSE {}
  BY Ends DEF PairStatuses, AutoStatuses, M
<1>3. /\ PairWaitsPassed("slave") = (IF S >= 7 THEN 3 ELSE IF S = 6 THEN 2 ELSE IF S >= 4 THEN 1 ELSE 0)
      /\ AutoWaitsPassed("slave") = (IF S >= 12 THEN 2 ELSE IF S = 11 THEN 1 ELSE 0)
  BY Ends, SlavePassed DEF PairWaitsPassed, AutoWaitsPassed, S
<1>4. /\ PairStatuses("slave") = IF S < 9 THEN status_list["slave"] ELSE Statuses
      /\ AutoStatuses("slave") = IF S > 9 THEN status_list["slave"] ELSE {}
  BY Ends DEF PairStatuses, AutoStatuses, S
<1> QED
  BY <1>1, <1>2, <1>3, <1>4 DEF MasterCounts, SlaveCounts

\* What has been reported by the time a test is past its waits, and so at the end
\* of the pair test: the same as if all had been reported, or the first alone.
WaitsInv ==
  /\ S <= 2 => status_list["slave"] = {}
  /\ M \in 4..13 => "DRIVER_CONNECTED" \in status_list["master"]
  /\ M \in 8..13 /\ ~history.gave_up => "CONNECTED" \in status_list["master"]
  /\ M \in 11..13 /\ ~history.gave_up => "RECONFIGURED" \in status_list["master"]
  /\ S \in 4..8 => "DRIVER_CONNECTED" \in status_list["slave"]
  /\ S \in 6..8 => "CONNECTED" \in status_list["slave"]
  /\ S \in 7..8 => "RECONFIGURED" \in status_list["slave"]
  /\ \A p \in Programs : "RECONFIGURED" \in status_list[p] => history.paired

\* A report: the list of one program grows by a status.
Reported(p) ==
  /\ up[p]
  /\ \E c \in Statuses : status_list' = [status_list EXCEPT ![p] = @ \cup {c}]
  /\ "RECONFIGURED" \in status_list'[p] => reconfigured \/ "RECONFIGURED" \in status_list[p]
  /\ UNCHANGED at
  /\ history'.paired = history.paired /\ history'.gave_up = history.gave_up

\* A step of the managers or of time, to the waits.
Elsewhere ==
  /\ UNCHANGED <<at, status_list>>
  /\ history.paired => history'.paired
  /\ history'.gave_up = history.gave_up

LEMMA OtherSteps ==
  ASSUME TypeOK,
         \/ \E p \in Programs : DetectDriver(p) \/ ReportLink(p)
         \/ Manager \/ Expire \/ SendStatus \/ Tick \/ UNCHANGED vars
  PROVE  Elsewhere \/ \E p \in Programs : Reported(p)
<1> USE DEF TypeOK, Programs, managers, link, timing
<1>1. ASSUME NEW p \in Programs, DetectDriver(p) PROVE Reported(p)
  BY <1>1 DEF DetectDriver, Reports, Reported, Statuses
<1>2. ASSUME NEW p \in Programs, ReportLink(p) PROVE Reported(p)
  <2>1. PICK s \in Owed(p) :
          /\ Reports(p, s)
          /\ history' = IF s = "CONNECTED"
                        THEN [history EXCEPT !.links[p] = @ \cup {at[p]}] ELSE history
    BY <1>2 DEF ReportLink
  <2>2. s \in Statuses /\ (s = "RECONFIGURED" => reconfigured)
    BY DEF Owed, Statuses
  <2>3. history'.paired = history.paired /\ history'.gave_up = history.gave_up
    BY <2>1
  <2> QED
    BY <1>2, <2>1, <2>2, <2>3 DEF ReportLink, Reports, Reported
<1>3. CASE Manager \/ Expire \/ SendStatus \/ Tick \/ UNCHANGED vars
  BY <1>3 DEF Elsewhere, Manager, Broadcast, Pair, Connect, Reconfigure, Expire, SendStatus, Tick, vars
<1> QED
  BY <1>1, <1>2, <1>3

LEMMA StepWaitsInv ==
  ASSUME ProgressInv, ProgressInv', WaitsInv, [Next]_vars
  PROVE  WaitsInv'
<1>1. M \in 1..18 /\ S \in 1..13 /\ PairingInv /\ TypeOK
  BY Places DEF ProgressInv, PairingInv
<1>2. CASE \/ \E p \in Programs : DetectDriver(p) \/ ReportLink(p)
           \/ Manager \/ Expire \/ SendStatus \/ Tick \/ UNCHANGED vars
  <2>1. CASE Elsewhere
    BY <2>1 DEF Elsewhere, WaitsInv, M, S
  <2>2. ASSUME NEW p \in Programs, Reported(p) PROVE WaitsInv'
    <3>1. /\ reconfigured => history.paired
          /\ S <= 2 => ~up["slave"]
      BY <1>1 DEF PairingInv, PlacesInv, NewPairingInv
    <3>2. \A q \in Programs : /\ status_list[q] \subseteq status_list'[q]
                              /\ q # p => status_list'[q] = status_list[q]
      BY <1>1, <2>2 DEF Reported, TypeOK
    <3>3. /\ M' = M /\ S' = S
          /\ history'.paired = history.paired /\ history'.gave_up = history.gave_up
          /\ "RECONFIGURED" \in status_list'[p] => reconfigured \/ "RECONFIGURED" \in status_list[p]
          /\ up[p]
      BY <2>2 DEF Reported, M, S
    <3> QED
      BY <3>1, <3>2, <3>3 DEF WaitsInv, Programs
  <2> QED
    BY <1>1, <1>2, <2>1, <2>2, OtherSteps
<1>3. CASE Step("slave")
  <2>1. /\ S' = S + 1 /\ M' = M /\ UNCHANGED history
        /\ S \notin {2, 9} => UNCHANGED status_list
        /\ S \in {2, 9} => status_list'["slave"] = {}
        /\ status_list'["master"] = status_list["master"]
        /\ S = 3 => "DRIVER_CONNECTED" \in status_list["slave"]
        /\ S = 5 => "CONNECTED" \in status_list["slave"]
        /\ S = 6 => "RECONFIGURED" \in status_list["slave"]
    BY <1>1, <1>3, StepSlave
  <2> QED
    BY <1>1, <2>1 DEF WaitsInv, Programs
<1>4. CASE Step("master") /\ M # 5
  <2>1. /\ M' = M + 1 /\ S' = S /\ UNCHANGED history
        /\ M \notin {2, 14} => UNCHANGED status_list
        /\ M \in {2, 14} => status_list'["master"] = {}
        /\ status_list'["slave"] = status_list["slave"]
        /\ M = 3 => "DRIVER_CONNECTED" \in status_list["master"]
        /\ M = 7 => "CONNECTED" \in status_list["master"]
        /\ M = 10 => "RECONFIGURED" \in status_list["master"]
    BY <1>1, <1>4, StepMaster
  <2> QED
    BY <1>1, <2>1 DEF WaitsInv, Programs
<1>5. CASE Step("master") /\ M = 5
  <2>1. M' \in {6, 13} /\ (M' = 13 => history'.gave_up) /\ S' = S /\ status_list' = status_list
        /\ history'.paired = history.paired
    BY <1>1, <1>5, ListStep
  <2> QED
    BY <1>5, <2>1 DEF WaitsInv
<1> QED
  BY <1>2, <1>3, <1>4, <1>5 DEF Next, Programs

AwaitInv == ProgressInv /\ WaitsInv

LEMMA AwaitInvariance == Spec => []AwaitInv
<1>1. Init => AwaitInv
  <2> SUFFICES ASSUME Init PROVE WaitsInv
    BY InitProgressInv DEF AwaitInv
  <2> QED
    BY DEF Init, WaitsInv, Programs, M, S
<1>2. AwaitInv /\ [Next]_vars => AwaitInv'
  BY StepProgressInv, StepWaitsInv DEF AwaitInv
<1> QED
  BY <1>1, <1>2, PTL DEF Spec

\* The same at both ends of a step.
LEMMA CountsOfStep ==
  ASSUME ProgressInv, ProgressInv'
  PROVE  /\ MasterCounts /\ MasterCounts' /\ SlaveCounts /\ SlaveCounts'
         /\ M \in 1..18 /\ M' \in 1..18 /\ S \in 1..13 /\ S' \in 1..13
<1>1. ProgressInv => M \in 1..18 /\ S \in 1..13
  BY Places DEF ProgressInv, PairingInv
<1>2. ProgressInv' => M' \in 1..18 /\ S' \in 1..13
  BY Ends DEF ProgressInv, PairingInv, TypeOK, Programs, M, S
<1>3. ((M \in 1..18 /\ S \in 1..13) => MasterCounts /\ SlaveCounts)'
  BY CountsByPlace, PTL
<1> QED
  BY <1>1, <1>2, <1>3, CountsByPlace

LEMMA InitAwaits ==
  Init => MasterPairWaits!Init /\ SlavePairWaits!Init /\ MasterAutoWaits!Init /\ SlaveAutoWaits!Init
<1> SUFFICES ASSUME Init
             PROVE  MasterPairWaits!Init /\ SlavePairWaits!Init /\ MasterAutoWaits!Init /\ SlaveAutoWaits!Init
  OBVIOUS
<1>1. M = 1 /\ S = 1 /\ ~history.gave_up /\ status_list["master"] = {} /\ status_list["slave"] = {}
  BY DEF Init, M, S, Programs
<1>2. MasterCounts /\ SlaveCounts
  BY <1>1, CountsByPlace
<1> QED
  BY <1>1, <1>2 DEF MasterCounts, SlaveCounts, MasterPairWaits!Init, SlavePairWaits!Init,
                    MasterAutoWaits!Init, SlaveAutoWaits!Init

\* A report to one manager is a report to its test's waits, and to no other's.
LEMMA ReportAwaits ==
  ASSUME AwaitInv, AwaitInv', NEW p \in Programs, Reported(p)
  PROVE  /\ [MasterPairWaits!Next]_(MasterPairWaits!vars)
         /\ [SlavePairWaits!Next]_(SlavePairWaits!vars)
         /\ [MasterAutoWaits!Next]_(MasterAutoWaits!vars)
         /\ [SlaveAutoWaits!Next]_(SlaveAutoWaits!vars)
<1>1. M' = M /\ S' = S /\ history'.gave_up = history.gave_up
  BY DEF Reported, M, S
<1>2. MasterCounts /\ MasterCounts' /\ SlaveCounts /\ SlaveCounts' /\ M \in 1..18 /\ S \in 1..13
  BY CountsOfStep DEF AwaitInv
<1>3. PICK c \in Statuses : status_list' = [status_list EXCEPT ![p] = @ \cup {c}]
  BY DEF Reported
<1>4. \A q \in Programs : status_list'[q] \in {status_list[q], status_list[q] \cup {c}}
  BY <1>3 DEF AwaitInv, ProgressInv, PairingInv, TypeOK
<1>5. /\ PairWaitsPassed("master")' = PairWaitsPassed("master")
      /\ AutoWaitsPassed("master")' = AutoWaitsPassed("master")
      /\ PairWaitsPassed("slave")' = PairWaitsPassed("slave")
      /\ AutoWaitsPassed("slave")' = AutoWaitsPassed("slave")
  BY <1>1, <1>2 DEF MasterCounts, SlaveCounts
<1>6. /\ PairStatuses("master")' \in {PairStatuses("master"), PairStatuses("master") \cup {c}}
      /\ AutoStatuses("master")' \in {AutoStatuses("master"), AutoStatuses("master") \cup {c}}
  BY <1>1, <1>2, <1>4 DEF MasterCounts, Programs
<1>7. /\ PairStatuses("slave")' \in {PairStatuses("slave"), PairStatuses("slave") \cup {c}}
      /\ AutoStatuses("slave")' \in {AutoStatuses("slave"), AutoStatuses("slave") \cup {c}}
  BY <1>1, <1>2, <1>4 DEF SlaveCounts, Programs
<1> QED
  BY <1>5, <1>6, <1>7
  DEF MasterPairWaits!Next, MasterPairWaits!Report, MasterPairWaits!vars,
      SlavePairWaits!Next, SlavePairWaits!Report, SlavePairWaits!vars,
      MasterAutoWaits!Next, MasterAutoWaits!Report, MasterAutoWaits!vars,
      SlaveAutoWaits!Next, SlaveAutoWaits!Report, SlaveAutoWaits!vars

\* A step of the master passes a wait of one of its tests, or none; at the end of
\* the pair test all that is to be reported has been.
LEMMA MasterAwaits ==
  ASSUME AwaitInv, AwaitInv', Step("master")
  PROVE  /\ [MasterPairWaits!Next]_(MasterPairWaits!vars)
         /\ [MasterAutoWaits!Next]_(MasterAutoWaits!vars)
<1>1. ProgressInv /\ PairingInv /\ WaitsInv /\ status_list["master"] \subseteq Statuses
  BY DEF AwaitInv, ProgressInv, PairingInv, TypeOK, Programs
<1>2. MasterCounts /\ MasterCounts' /\ M \in 1..18
  BY CountsOfStep DEF AwaitInv
<1>3. CASE M = 5
  <2>1. M' \in {6, 13} /\ status_list' = status_list
    BY <1>1, <1>3, ListStep
  <2>2. ~history.gave_up
    BY <1>1, <1>3 DEF PairingInv, PlacesInv
  <2>3. /\ PairWaitsPassed("master") = 1 /\ PairWaitsPassed("master")' = 1
        /\ AutoWaitsPassed("master") = 0 /\ AutoWaitsPassed("master")' = 0
        /\ PairStatuses("master")' = PairStatuses("master")
        /\ AutoStatuses("master")' = AutoStatuses("master")
    <3>1. M' = 13 => history'.gave_up
      BY <1>1, <1>3, ListStep
    <3> QED
      BY <1>2, <1>3, <2>1, <2>2, <3>1 DEF MasterCounts
  <2> QED
    BY <2>3 DEF MasterPairWaits!vars, MasterAutoWaits!vars
<1>4. CASE M # 5
  <2>1. /\ M' = M + 1 /\ M \in 1..17 /\ history'.gave_up = history.gave_up
        /\ M \notin {2, 14} => UNCHANGED status_list
        /\ M \in {2, 14} => status_list'["master"] = {}
        /\ M \in {3, 15} => "DRIVER_CONNECTED" \in status_list["master"]
        /\ M \in {7, 16} => "CONNECTED" \in status_list["master"]
        /\ M = 10 => "RECONFIGURED" \in status_list["master"]
    BY <1>1, <1>4, StepMaster
  <2>2. /\ M = 2 => status_list["master"] = {}
        /\ history.gave_up => M >= 13
        /\ history.gave_up /\ M = 13 => /\ "CONNECTED" \notin status_list["master"]
                                        /\ "RECONFIGURED" \notin status_list["master"]
    BY <1>1 DEF ProgressInv, PairingInv, PlacesInv, OfferInv, NewPairingInv, WaitsInv, Programs
  <2>3. PairStatuses("master")' = PairStatuses("master")
    <3>1. CASE M <= 12
      BY <1>2, <2>1, <2>2, <3>1 DEF MasterCounts
    <3>2. CASE M = 13
      <4>1. PairStatuses("master") = status_list["master"]
        BY <1>2, <3>2 DEF MasterCounts
      <4>2. CASE history.gave_up
        <5>1. status_list["master"] = {"DRIVER_CONNECTED"}
          <6>1. "DRIVER_CONNECTED" \in status_list["master"]
            BY <1>1, <3>2 DEF WaitsInv
          <6> QED
            BY <1>1, <2>2, <3>2, <4>2, <6>1 DEF Statuses
        <5> QED
          BY <1>2, <2>1, <3>2, <4>1, <4>2, <5>1 DEF MasterCounts
      <4>3. CASE ~history.gave_up
        <5>1. status_list["master"] = Statuses
          BY <1>1, <3>2, <4>3 DEF WaitsInv, Statuses
        <5> QED
          BY <1>2, <2>1, <3>2, <4>1, <4>3, <5>1 DEF MasterCounts
      <4> QED
        BY <4>2, <4>3
    <3>3. CASE M > 13
      BY <1>2, <2>1, <3>3 DEF MasterCounts
    <3> QED
      BY <1>2, <3>1, <3>2, <3>3
  <2>4. AutoStatuses("master")' = AutoStatuses("master")
    BY <1>2, <2>1 DEF MasterCounts
  <2>5. CASE M \in {3, 7, 10}
    <3>1. /\ PairWaitsPassed("master") = (IF M = 3 THEN 0 ELSE IF M = 7 THEN 1 ELSE 2)
          /\ PairWaitsPassed("master")' = PairWaitsPassed("master") + 1
          /\ PairStatuses("master") = status_list["master"]
          /\ AutoWaitsPassed("master")' = AutoWaitsPassed("master")
      BY <1>2, <2>1, <2>2, <2>5 DEF MasterCounts
    <3>2. MasterPairWaits!Pass
      BY <2>1, <2>3, <2>5, <3>1 DEF MasterPairWaits!Pass, PairScript
    <3> QED
      BY <2>4, <3>1, <3>2 DEF MasterPairWaits!Next, MasterAutoWaits!vars
  <2>6. CASE M \in {15, 16}
    <3>1. /\ AutoWaitsPassed("master") = (IF M = 15 THEN 0 ELSE 1)
          /\ AutoWaitsPassed("master")' = AutoWaitsPassed("master") + 1
          /\ AutoStatuses("master") = status_list["master"]
          /\ PairWaitsPassed("master")' = PairWaitsPassed("master")
      BY <1>2, <2>1, <2>6 DEF MasterCounts
    <3>2. MasterAutoWaits!Pass
      BY <2>1, <2>4, <2>6, <3>1 DEF MasterAutoWaits!Pass, AutoScript
    <3> QED
      BY <2>3, <3>1, <3>2 DEF MasterAutoWaits!Next, MasterPairWaits!vars
  <2>7. CASE M \notin {3, 7, 10, 15, 16}
    <3>1. /\ PairWaitsPassed("master")' = PairWaitsPassed("master")
          /\ AutoWaitsPassed("master")' = AutoWaitsPassed("master")
      BY <1>2, <2>1, <2>2, <2>7 DEF MasterCounts
    <3> QED
      BY <2>3, <2>4, <3>1 DEF MasterPairWaits!vars, MasterAutoWaits!vars
  <2> QED
    BY <2>5, <2>6, <2>7
<1> QED
  BY <1>3, <1>4

LEMMA SlaveAwaits ==
  ASSUME AwaitInv, AwaitInv', Step("slave")
  PROVE  /\ [SlavePairWaits!Next]_(SlavePairWaits!vars)
         /\ [SlaveAutoWaits!Next]_(SlaveAutoWaits!vars)
<1>1. ProgressInv /\ PairingInv /\ WaitsInv /\ status_list["slave"] \subseteq Statuses
  BY DEF AwaitInv, ProgressInv, PairingInv, TypeOK, Programs
<1>2. SlaveCounts /\ SlaveCounts' /\ S \in 1..13
  BY CountsOfStep DEF AwaitInv
<1>3. /\ S' = S + 1 /\ S \in 1..12
      /\ S \notin {2, 9} => UNCHANGED status_list
      /\ S \in {2, 9} => status_list'["slave"] = {}
      /\ S \in {3, 10} => "DRIVER_CONNECTED" \in status_list["slave"]
      /\ S \in {5, 11} => "CONNECTED" \in status_list["slave"]
      /\ S = 6 => "RECONFIGURED" \in status_list["slave"]
  BY <1>1, StepSlave
<1>4. S = 2 => status_list["slave"] = {}
  BY <1>1 DEF WaitsInv
<1>5. PairStatuses("slave")' = PairStatuses("slave")
  <2>1. CASE S = 8
    <3>1. status_list["slave"] = Statuses
      BY <1>1, <2>1 DEF WaitsInv, Statuses
    <3> QED
      BY <1>2, <1>3, <2>1, <3>1 DEF SlaveCounts
  <2>2. CASE S # 8
    BY <1>2, <1>3, <1>4, <2>2 DEF SlaveCounts
  <2> QED
    BY <2>1, <2>2
<1>6. AutoStatuses("slave")' = AutoStatuses("slave")
  BY <1>2, <1>3 DEF SlaveCounts
<1>7. CASE S \in {3, 5, 6}
  <2>1. /\ PairWaitsPassed("slave") = (IF S = 3 THEN 0 ELSE IF S = 5 THEN 1 ELSE 2)
        /\ PairWaitsPassed("slave")' = PairWaitsPassed("slave") + 1
        /\ PairStatuses("slave") = status_list["slave"]
        /\ AutoWaitsPassed("slave")' = AutoWaitsPassed("slave")
    BY <1>2, <1>3, <1>7 DEF SlaveCounts
  <2>2. SlavePairWaits!Pass
    BY <1>3, <1>5, <1>7, <2>1 DEF SlavePairWaits!Pass, PairScript
  <2> QED
    BY <1>6, <2>1, <2>2 DEF SlavePairWaits!Next, SlaveAutoWaits!vars
<1>8. CASE S \in {10, 11}
  <2>1. /\ AutoWaitsPassed("slave") = (IF S = 10 THEN 0 ELSE 1)
        /\ AutoWaitsPassed("slave")' = AutoWaitsPassed("slave") + 1
        /\ AutoStatuses("slave") = status_list["slave"]
        /\ PairWaitsPassed("slave")' = PairWaitsPassed("slave")
    BY <1>2, <1>3, <1>8 DEF SlaveCounts
  <2>2. SlaveAutoWaits!Pass
    BY <1>3, <1>6, <1>8, <2>1 DEF SlaveAutoWaits!Pass, AutoScript
  <2> QED
    BY <1>5, <2>1, <2>2 DEF SlaveAutoWaits!Next, SlavePairWaits!vars
<1>9. CASE S \notin {3, 5, 6, 10, 11}
  <2>1. /\ PairWaitsPassed("slave")' = PairWaitsPassed("slave")
        /\ AutoWaitsPassed("slave")' = AutoWaitsPassed("slave")
    BY <1>2, <1>3, <1>9 DEF SlaveCounts
  <2> QED
    BY <1>5, <1>6, <2>1 DEF SlavePairWaits!vars, SlaveAutoWaits!vars
<1> QED
  BY <1>7, <1>8, <1>9

LEMMA NextAwaits ==
  ASSUME AwaitInv, AwaitInv', [Next]_vars
  PROVE  /\ [MasterPairWaits!Next]_(MasterPairWaits!vars)
         /\ [SlavePairWaits!Next]_(SlavePairWaits!vars)
         /\ [MasterAutoWaits!Next]_(MasterAutoWaits!vars)
         /\ [SlaveAutoWaits!Next]_(SlaveAutoWaits!vars)
<1>1. TypeOK /\ PairingInv
  BY DEF AwaitInv, ProgressInv, PairingInv
<1>2. MasterCounts /\ MasterCounts' /\ SlaveCounts /\ SlaveCounts'
  BY CountsOfStep DEF AwaitInv
\* Who stands still, with his list and the master's giving up as they are, waits on.
<1>3. ASSUME M' = M, status_list'["master"] = status_list["master"],
             history'.gave_up = history.gave_up
      PROVE  UNCHANGED <<MasterPairWaits!vars, MasterAutoWaits!vars>>
  <2>1. M \in 1..18
    BY <1>1, Places
  <2>2. /\ PairWaitsPassed("master")' = PairWaitsPassed("master")
        /\ AutoWaitsPassed("master")' = AutoWaitsPassed("master")
        /\ PairStatuses("master")' = PairStatuses("master")
        /\ AutoStatuses("master")' = AutoStatuses("master")
    BY <1>2, <1>3, <2>1 DEF MasterCounts
  <2> QED
    BY <2>2 DEF MasterPairWaits!vars, MasterAutoWaits!vars
<1>4. ASSUME S' = S, status_list'["slave"] = status_list["slave"]
      PROVE  UNCHANGED <<SlavePairWaits!vars, SlaveAutoWaits!vars>>
  <2>1. S \in 1..13
    BY <1>1, Places
  <2>2. /\ PairWaitsPassed("slave")' = PairWaitsPassed("slave")
        /\ AutoWaitsPassed("slave")' = AutoWaitsPassed("slave")
        /\ PairStatuses("slave")' = PairStatuses("slave")
        /\ AutoStatuses("slave")' = AutoStatuses("slave")
    BY <1>2, <1>4, <2>1 DEF SlaveCounts
  <2> QED
    BY <2>2 DEF SlavePairWaits!vars, SlaveAutoWaits!vars
<1>5. CASE \/ \E p \in Programs : DetectDriver(p) \/ ReportLink(p)
           \/ Manager \/ Expire \/ SendStatus \/ Tick \/ UNCHANGED vars
  <2>1. CASE Elsewhere
    BY <1>3, <1>4, <2>1 DEF Elsewhere, M, S
  <2> QED
    BY <1>1, <1>5, <2>1, OtherSteps, ReportAwaits
<1>6. CASE Step("master")
  <2>1. S' = S /\ status_list'["slave"] = status_list["slave"]
    BY <1>1, <1>6, StepMaster, ListStep
  <2> QED
    BY <1>4, <1>6, <2>1, MasterAwaits
<1>7. CASE Step("slave")
  <2>1. M' = M /\ status_list'["master"] = status_list["master"] /\ history'.gave_up = history.gave_up
    BY <1>1, <1>7, StepSlave
  <2> QED
    BY <1>3, <1>7, <2>1, SlaveAwaits
<1> QED
  BY <1>5, <1>6, <1>7 DEF Next, Programs

\* Both tests of both programs pass their waits one after the other, each after
\* the manager of that very test has reported its status: what StatusWaitProofs
\* shows of the callback, the mutex and the condition variable is what a wait is
\* taken for here.
THEOREM PairingImplementsAwaits ==
  Spec => /\ MasterPairWaits!SafeSpec /\ SlavePairWaits!SafeSpec
          /\ MasterAutoWaits!SafeSpec /\ SlaveAutoWaits!SafeSpec
<1>1. AwaitInv /\ AwaitInv' /\ [Next]_vars =>
        /\ [MasterPairWaits!Next]_(MasterPairWaits!vars)
        /\ [SlavePairWaits!Next]_(SlavePairWaits!vars)
        /\ [MasterAutoWaits!Next]_(MasterAutoWaits!vars)
        /\ [SlaveAutoWaits!Next]_(SlaveAutoWaits!vars)
  BY NextAwaits
<1> QED
  BY <1>1, InitAwaits, AwaitInvariance, PTL
  DEF Spec, MasterPairWaits!SafeSpec, SlavePairWaits!SafeSpec, MasterAutoWaits!SafeSpec,
      SlaveAutoWaits!SafeSpec

=============================================================================
