-------------------------- MODULE DemoConfigProofs --------------------------
(***************************************************************************)
(* When main of master_demo.cpp gives up and what it configures otherwise, *)
(* for any names of the program, any words on the command line and any     *)
(* number of them.                                                         *)
(***************************************************************************)
EXTENDS DemoConfig, FiniteSetTheorems, SequenceTheorems, TLAPS

\* argv[0] is there: the sequence of arguments is not empty.
ArgvOK == argv \in Seq(Programs \cup Words) /\ Len(argv) > 0

\* Where main is in its ifs.
StageOK ==
  /\ next \in 1..(Len(Drivers) + 1)
  /\ result \in {"assembling", "refused", "configured"}
  /\ result # "assembling" => next = Len(Drivers) + 1

\* The ifs that are taken.
Taken == {i \in 1..Len(Drivers) : FindInArgv(Drivers[i])}

\* What first stands for: no if so far was taken.
FirstOK ==
  /\ first \in BOOLEAN
  /\ first <=> Taken \cap 1..(next - 1) = {}
  /\ result # "assembling" => (result = "refused" <=> first)

ConfigInv == ArgvOK /\ StageOK /\ FirstOK

-----------------------------------------------------------------------------

LEMMA SixDrivers == Len(Drivers) = 6
BY DEF Drivers

LEMMA RangeOfDrivers == Range(Drivers) = {Drivers[i] : i \in 1..Len(Drivers)}
<1>1. DOMAIN Drivers = 1..Len(Drivers)
  BY DEF Drivers
<1> QED
  BY <1>1 DEF Range

LEMMA InitConfigInv == Init => ConfigInv
<1> SUFFICES ASSUME Init PROVE ConfigInv
  OBVIOUS
<1>1. PICK p \in Programs, w \in BoundedSeq(Words, MaxWords) : argv = <<p>> \o w
  BY DEF Init
<1>2. w \in Seq(Words)
  <2>1. PICK m \in 0..MaxWords : w \in [1..m -> Words]
    BY DEF BoundedSeq, SeqOf
  <2>2. m \in Nat
    BY ConfigAssumption
  <2> QED
    BY <2>1, <2>2
<1>3. ArgvOK
  BY <1>1, <1>2 DEF ArgvOK
<1> QED
  BY <1>3, SixDrivers DEF Init, ConfigInv, StageOK, FirstOK, Taken

LEMMA TakenStays == argv' = argv => Taken' = Taken
BY DEF Taken, FindInArgv

\* An if that is taken, and one that is not, either way first stays what it is for.
LEMMA ChooseFirst ==
  ASSUME ConfigInv, Choose
  PROVE  FirstOK'
<1>1. /\ next \in 1..6 /\ next' = next + 1
      /\ Taken' = Taken
      /\ result = "assembling" /\ result' = result
  BY SixDrivers, TakenStays DEF ConfigInv, StageOK, Choose
<1>2. 1..(next' - 1) = 1..(next - 1) \cup {next}
  BY <1>1
<1>3. CASE FindInArgv(Drivers[next]) /\ Section(Drivers[next])
  <2>1. next \in Taken
    BY <1>1, <1>3, SixDrivers DEF Taken
  <2> QED
    BY <1>1, <1>2, <1>3, <2>1 DEF Section, FirstOK
<1>4. CASE ~FindInArgv(Drivers[next]) /\ UNCHANGED <<first, config>>
  <2>1. next \notin Taken
    BY <1>4 DEF Taken
  <2> QED
    BY <1>1, <1>2, <1>4, <2>1 DEF ConfigInv, FirstOK
<1> QED
  BY <1>3, <1>4 DEF Choose

LEMMA NextConfigInv == ConfigInv /\ [Next]_vars => ConfigInv'
<1> SUFFICES ASSUME ConfigInv, [Next]_vars PROVE ConfigInv'
  OBVIOUS
<1>1. CASE Choose
  <2>1. ArgvOK' /\ StageOK'
    BY <1>1, SixDrivers DEF ConfigInv, ArgvOK, StageOK, Choose
  <2> QED
    BY <1>1, <2>1, ChooseFirst DEF ConfigInv
<1>2. CASE Close
  <2>1. ArgvOK' /\ StageOK'
    BY <1>2, SixDrivers DEF ConfigInv, ArgvOK, StageOK, Close
  <2>2. FirstOK'
    BY <1>2, TakenStays DEF ConfigInv, FirstOK, Close
  <2> QED
    BY <2>1, <2>2 DEF ConfigInv
<1>3. CASE UNCHANGED vars
  <2>1. ArgvOK' /\ StageOK'
    BY <1>3 DEF ConfigInv, ArgvOK, StageOK, vars
  <2>2. FirstOK'
    BY <1>3, TakenStays DEF ConfigInv, FirstOK, vars
  <2> QED
    BY <2>1, <2>2 DEF ConfigInv
<1> QED
  BY <1>1, <1>2, <1>3 DEF Next

\* find_in_argv asks for s, or "all", among the words after the program's name.
LEMMA FindIsMembership ==
  ASSUME ArgvOK, NEW s
  PROVE  FindInArgv(s) <=> Arguments \cap {s, "all"} # {}
<1>1. Arguments = {argv[i + 1] : i \in 1..(Len(argv) - 1)}
  <2>1. /\ Tail(argv) \in Seq(Programs \cup Words)
        /\ Len(Tail(argv)) = Len(argv) - 1
        /\ \A i \in 1..(Len(argv) - 1) : Tail(argv)[i] = argv[i + 1]
    BY DEF ArgvOK
  <2>2. DOMAIN Tail(argv) = 1..(Len(argv) - 1)
    BY <2>1
  <2> QED
    BY <2>1, <2>2 DEF Arguments, Range
<1>2. \A i \in 2..Len(argv) : i - 1 \in 1..(Len(argv) - 1) /\ (i - 1) + 1 = i
  BY DEF ArgvOK
<1>3. \A i \in 1..(Len(argv) - 1) : i + 1 \in 2..Len(argv)
  BY DEF ArgvOK
<1>4. Arguments = {argv[i] : i \in 2..Len(argv)}
  BY <1>1, <1>2, <1>3
<1> QED
  BY <1>4 DEF FindInArgv

LEMMA InvImpliesRefused == ConfigInv => RefusedWithoutDriver
<1> SUFFICES ASSUME ConfigInv, result # "assembling"
             PROVE  result = "refused" <=> Arguments \cap ({"all"} \cup Range(Drivers)) = {}
  BY DEF RefusedWithoutDriver
<1>1. result = "refused" <=> Taken = {}
  <2>1. next - 1 = Len(Drivers)
    BY SixDrivers DEF ConfigInv, StageOK
  <2>2. Taken \cap 1..(next - 1) = Taken
    BY <2>1 DEF Taken
  <2> QED
    BY <2>2 DEF ConfigInv, FirstOK
<1>2. Taken = {i \in 1..Len(Drivers) : Arguments \cap {Drivers[i], "all"} # {}}
  BY FindIsMembership DEF ConfigInv, Taken
<1>3. 1 \in 1..Len(Drivers)
  BY SixDrivers
<1>4. (Taken = {}) <=> (Arguments \cap ({"all"} \cup Range(Drivers)) = {})
  BY <1>2, <1>3, RangeOfDrivers
<1> QED
  BY <1>1, <1>4

-----------------------------------------------------------------------------
(* The text.  ConfigInv says when an if is taken, TextInv what has been    *)
(* written by then.                                                        *)

Pieces == Range(Drivers) \cup {"begin", "comma", "end"}

\* How many of the ifs up to the m-th are taken.
Sections(m) == Cardinality(Taken \cap 1..m)

\* n sections with a comma between any two, after the opening text.
ListOf(n) ==
  /\ config \in Seq(Pieces)
  /\ result = "assembling" => Len(config) = IF n = 0 THEN 1 ELSE 2 * n
  /\ result # "assembling" => /\ Len(config) = IF n = 0 THEN 2 ELSE 2 * n + 1
                              /\ config[Len(config)] = "end"
  /\ config[1] = "begin"
  /\ \A i \in 1..(n - 1) : config[2 * i + 1] = "comma"

\* Every if that was taken has its section at its place.
SectionsOf(m) == \A d \in Taken \cap 1..m : config[2 * Sections(d)] = Drivers[d]

TextInv ==
  \E m \in 0..6, n \in Nat : m = next - 1 /\ n = Sections(m) /\ ListOf(n) /\ SectionsOf(m)

LEMMA SectionsBounded ==
  ASSUME NEW m \in Nat
  PROVE  /\ IsFiniteSet(Taken \cap 1..m)
         /\ Sections(m) \in Nat
         /\ Sections(m) > 0 <=> \E d \in Taken : d \in 1..m
<1>1. IsFiniteSet(1..m)
  BY FS_Interval
<1>2. IsFiniteSet(Taken \cap 1..m)
  BY <1>1, FS_Subset
<1>3. Sections(m) \in Nat
  BY <1>2, FS_CardinalityType DEF Sections
<1>4. Sections(m) = 0 <=> Taken \cap 1..m = {}
  BY <1>2, FS_EmptySet DEF Sections
<1>5. (Taken \cap 1..m = {}) <=> ~ \E d \in Taken : d \in 1..m
  OBVIOUS
<1> QED
  BY <1>2, <1>3, <1>4, <1>5

\* A later if counts at least the sections of an earlier one, and itself.
LEMMA SectionsGrow ==
  ASSUME NEW m \in Nat, NEW d \in 1..m
  PROVE  /\ Sections(d) \in Nat /\ Sections(d) <= Sections(m)
         /\ d \in Taken => Sections(d) >= 1
<1>1. d \in Nat /\ d \in 1..d
  OBVIOUS
<1>2. /\ IsFiniteSet(Taken \cap 1..m)
      /\ Sections(m) \in Nat /\ Sections(d) \in Nat
  BY <1>1, SectionsBounded
<1>3. Taken \cap 1..d \in SUBSET (Taken \cap 1..m)
  BY <1>1
<1>4. Sections(d) <= Sections(m)
  BY <1>2, <1>3, FS_Subset DEF Sections
<1>5. d \in Taken => Sections(d) > 0
  BY <1>1, SectionsBounded
<1> QED
  BY <1>2, <1>4, <1>5

LEMMA NextSection ==
  ASSUME NEW m \in Nat \ {0}
  PROVE  Sections(m) = IF m \in Taken THEN Sections(m - 1) + 1 ELSE Sections(m - 1)
<1>1. m \notin Taken \cap 1..(m - 1)
  OBVIOUS
<1>2. IsFiniteSet(Taken \cap 1..(m - 1))
  BY SectionsBounded
<1>3. CASE m \in Taken
  <2>1. Taken \cap 1..m = (Taken \cap 1..(m - 1)) \cup {m}
    BY <1>3
  <2> QED
    BY <1>1, <1>2, <1>3, <2>1, FS_AddElement DEF Sections
<1>4. CASE m \notin Taken
  <2>1. Taken \cap 1..m = Taken \cap 1..(m - 1)
    BY <1>4
  <2> QED
    BY <1>4, <2>1 DEF Sections
<1> QED
  BY <1>3, <1>4

LEMMA InitTextInv == Init => TextInv
<1> SUFFICES ASSUME Init PROVE TextInv
  OBVIOUS
<1>1. config = <<"begin">> /\ next - 1 = 0 /\ result = "assembling"
  BY DEF Init
<1>2. Taken \cap 1..0 = {} /\ ~ \E d \in Taken : d \in 1..0
  OBVIOUS
<1>3. Sections(0) = 0
  <2>1. 0 \in Nat
    OBVIOUS
  <2>2. Sections(0) \in Nat /\ (Sections(0) > 0 <=> \E d \in Taken : d \in 1..0)
    BY <2>1, SectionsBounded, Zenon
  <2> QED
    BY <1>2, <2>2
<1>4. ListOf(0)
  <2>1. "begin" \in Pieces
    BY DEF Pieces
  <2>2. config \in Seq(Pieces) /\ Len(config) = 1 /\ config[1] = "begin"
    BY <1>1, <2>1
  <2> QED
    BY <1>1, <2>2 DEF ListOf
<1>5. SectionsOf(0)
  BY <1>2 DEF SectionsOf
<1> QED
  BY <1>1, <1>3, <1>4, <1>5 DEF TextInv

LEMMA FirstMeansNone ==
  ASSUME ConfigInv
  PROVE  /\ next - 1 \in 0..6
         /\ Sections(next - 1) \in Nat
         /\ Sections(next - 1) = 0 <=> first
<1>1. next - 1 \in 0..6
  BY SixDrivers DEF ConfigInv, StageOK
<1>2. /\ Sections(next - 1) \in Nat
      /\ Sections(next - 1) > 0 <=> \E d \in Taken : d \in 1..(next - 1)
  <2>1. next - 1 \in Nat
    BY <1>1
  <2> QED
    BY <2>1, SectionsBounded, Zenon
<1>3. first <=> ~ \E d \in Taken : d \in 1..(next - 1)
  BY DEF ConfigInv, FirstOK
<1> QED
  BY <1>1, <1>2, <1>3

LEMMA AppendOne ==
  ASSUME NEW S, NEW s \in Seq(S), NEW a \in S,
         NEW t, t = s \o <<>> \o <<a>>
  PROVE  /\ t \in Seq(S) /\ Len(t) = Len(s) + 1
         /\ t[Len(s) + 1] = a
         /\ \A j \in 1..Len(s) : t[j] = s[j]
<1>1. s \o <<>> = s
  BY ConcatEmptySeq
<1>2. t = Append(s, a)
  BY <1>1, AppendIsConcat
<1>3. LET u == Append(s, a)
      IN  /\ u \in Seq(S) /\ Len(u) = Len(s) + 1
          /\ u[Len(s) + 1] = a
          /\ \A j \in 1..Len(s) : u[j] = s[j]
  BY AppendProperties
<1> QED
  BY <1>2, <1>3, Zenon

LEMMA AppendTwo ==
  ASSUME NEW S, NEW s \in Seq(S), NEW a \in S, NEW b \in S,
         NEW t, t = s \o <<a>> \o <<b>>
  PROVE  /\ t \in Seq(S) /\ Len(t) = Len(s) + 2
         /\ t[Len(s) + 1] = a /\ t[Len(s) + 2] = b
         /\ \A j \in 1..Len(s) : t[j] = s[j]
<1>1. s \o <<a>> = Append(s, a) /\ s \o <<a>> \in Seq(S)
  BY AppendIsConcat
<1>2. t = Append(Append(s, a), b)
  BY <1>1, AppendIsConcat
<1>3. LET u == Append(Append(s, a), b)
      IN  /\ u \in Seq(S) /\ Len(u) = Len(s) + 2
          /\ u[Len(s) + 1] = a /\ u[Len(s) + 2] = b
          /\ \A j \in 1..Len(s) : u[j] = s[j]
  BY AppendProperties
<1> QED
  BY <1>2, <1>3, Zenon

\* A section is appended to n others, after a comma if there are any.
LEMMA AppendSection ==
  ASSUME NEW n \in Nat, ListOf(n), result = "assembling", result' = result,
         config' \in Seq(Pieces), Len(config') = 2 * n + 2,
         n # 0 => config'[2 * n + 1] = "comma",
         \A j \in 1..Len(config) : config'[j] = config[j]
  PROVE  /\ ListOf(n + 1)'
         /\ \A j \in 1..(2 * n) : config'[j] = config[j]
<1>1. /\ Len(config) = IF n = 0 THEN 1 ELSE 2 * n
      /\ config[1] = "begin"
  BY DEF ListOf
<1>2. \A j \in 1..(2 * n) : config'[j] = config[j]
  BY <1>1
<1>3. config'[1] = "begin"
  BY <1>1
<1>4. \A i \in 1..n : config'[2 * i + 1] = "comma"
  <2> SUFFICES ASSUME NEW i \in 1..n, i # n PROVE config'[2 * i + 1] = "comma"
    OBVIOUS
  <2>1. i \in 1..(n - 1) /\ 2 * i + 1 \in 1..(2 * n)
    OBVIOUS
  <2> QED
    BY <1>2, <2>1 DEF ListOf
<1>5. \A i \in 1..((n + 1) - 1) : config'[2 * i + 1] = "comma"
  BY <1>4
<1>6. ListOf(n + 1)'
  BY <1>3, <1>5 DEF ListOf
<1> QED
  BY <1>2, <1>6

LEMMA CountStays == argv' = argv => \A d : Sections(d)' = Sections(d)
BY TakenStays DEF Sections

\* The sections that are there stay where they are.
LEMMA SectionsStay ==
  ASSUME NEW m \in Nat, NEW n \in Nat, n = Sections(m), SectionsOf(m),
         \A j \in 1..(2 * n) : config'[j] = config[j]
  PROVE  \A d \in Taken \cap 1..m : config'[2 * Sections(d)] = Drivers[d]
<1> SUFFICES ASSUME NEW d \in Taken \cap 1..m
             PROVE  config'[2 * Sections(d)] = Drivers[d]
  OBVIOUS
<1>1. Sections(d) \in Nat /\ Sections(d) <= n /\ Sections(d) >= 1
  BY SectionsGrow
<1>2. 2 * Sections(d) \in 1..(2 * n)
  BY <1>1
<1> QED
  BY <1>2 DEF SectionsOf

LEMMA TakenText ==
  ASSUME ConfigInv, TextInv, Choose, Section(Drivers[next]), next \in Taken
  PROVE  TextInv'
<1>1. PICK m \in 0..6, n \in Nat :
        m = next - 1 /\ n = Sections(m) /\ ListOf(n) /\ SectionsOf(m)
  BY DEF TextInv
<1>2. /\ next = m + 1 /\ m + 1 \in 1..6 /\ (next - 1)' = m + 1
      /\ argv' = argv /\ Taken' = Taken
      /\ result = "assembling" /\ result' = result
  BY <1>1, SixDrivers, TakenStays DEF ConfigInv, StageOK, Choose
<1>3. n = 0 <=> first
  BY <1>1, FirstMeansNone
<1>4. Sections(m + 1) = n + 1
  BY <1>1, <1>2, NextSection
<1>5. config' = config \o (IF n = 0 THEN <<>> ELSE <<"comma">>) \o <<Drivers[m + 1]>>
  BY <1>2, <1>3 DEF Section
<1>6. Drivers[m + 1] \in Pieces
  BY <1>2, RangeOfDrivers, SixDrivers DEF Pieces
<1>7. /\ ListOf(n + 1)'
      /\ config'[2 * (n + 1)] = Drivers[m + 1]
      /\ \A j \in 1..(2 * n) : config'[j] = config[j]
  <2>1. config \in Seq(Pieces) /\ Len(config) = IF n = 0 THEN 1 ELSE 2 * n
    BY <1>1, <1>2 DEF ListOf
  <2>2. /\ config' \in Seq(Pieces) /\ Len(config') = 2 * n + 2
        /\ config'[2 * n + 2] = Drivers[m + 1]
        /\ n # 0 => config'[2 * n + 1] = "comma"
        /\ \A j \in 1..Len(config) : config'[j] = config[j]
    <3>1. CASE n = 0
      <4>1. config' = config \o <<>> \o <<Drivers[m + 1]>>
        BY <1>5, <3>1, Zenon
      <4> QED
        BY <1>6, <2>1, <3>1, <4>1, AppendOne
    <3>2. CASE n # 0
      <4>1. config' = config \o <<"comma">> \o <<Drivers[m + 1]>>
        BY <1>5, <3>2, Zenon
      <4>2. "comma" \in Pieces
        BY DEF Pieces
      <4>3. /\ config' \in Seq(Pieces) /\ Len(config') = Len(config) + 2
            /\ config'[Len(config) + 1] = "comma" /\ config'[Len(config) + 2] = Drivers[m + 1]
            /\ \A j \in 1..Len(config) : config'[j] = config[j]
        <5>1. config \in Seq(Pieces)
          BY <2>1
        <5> QED
          BY <1>6, <4>1, <4>2, <5>1, AppendTwo
      <4> QED
        BY <2>1, <3>2, <4>3
    <3> QED
      BY <3>1, <3>2
  <2>3. 2 * n + 2 = 2 * (n + 1)
    OBVIOUS
  <2> QED
    BY <1>1, <1>2, <2>2, <2>3, AppendSection
<1>8. \A d \in Taken \cap 1..m : config'[2 * Sections(d)] = Drivers[d]
  BY <1>1, <1>7, SectionsStay
<1>9. \A d \in Taken \cap 1..(m + 1) : config'[2 * Sections(d)] = Drivers[d]
  BY <1>2, <1>4, <1>7, <1>8
<1>10. \A d : Sections(d)' = Sections(d)
  BY <1>2, CountStays
<1>11. SectionsOf(m + 1)'
  BY <1>2, <1>9, <1>10 DEF SectionsOf
<1>12. n + 1 \in Nat /\ m + 1 \in 0..6 /\ n + 1 = Sections(m + 1)'
  BY <1>2, <1>4, <1>10
<1> QED
  BY <1>2, <1>7, <1>11, <1>12 DEF TextInv

LEMMA ChooseText ==
  ASSUME ConfigInv, TextInv, Choose
  PROVE  TextInv'
<1>1. PICK m \in 0..6, n \in Nat :
        m = next - 1 /\ n = Sections(m) /\ ListOf(n) /\ SectionsOf(m)
  BY DEF TextInv
<1>2. /\ next = m + 1 /\ m + 1 \in 1..6 /\ (next - 1)' = m + 1
      /\ argv' = argv /\ Taken' = Taken
      /\ result = "assembling" /\ result' = result
  BY <1>1, SixDrivers, TakenStays DEF ConfigInv, StageOK, Choose
<1>3. CASE FindInArgv(Drivers[next]) /\ Section(Drivers[next])
  <2>1. next \in Taken
    BY <1>2, <1>3, SixDrivers DEF Taken
  <2> QED
    BY <1>3, <2>1, TakenText
<1>4. CASE ~FindInArgv(Drivers[next]) /\ UNCHANGED <<first, config>>
  <2>1. m + 1 \notin Taken
    BY <1>2, <1>4 DEF Taken
  <2>2. Sections(m + 1) = n
    BY <1>1, <1>2, <2>1, NextSection
  <2>3. Taken \cap 1..(m + 1) = Taken \cap 1..m
    BY <1>2, <2>1
  <2>4. \A d : Sections(d)' = Sections(d)
    BY <1>2, CountStays
  <2>5. ListOf(n)'
    BY <1>1, <1>2, <1>4 DEF ListOf
  <2>6. SectionsOf(m + 1)'
    BY <1>1, <1>2, <1>4, <2>3, <2>4 DEF SectionsOf
  <2>7. m + 1 \in 0..6 /\ n = Sections(m + 1)'
    BY <1>2, <2>2, <2>4
  <2> QED
    BY <1>2, <2>5, <2>6, <2>7 DEF TextInv
<1> QED
  BY <1>3, <1>4 DEF Choose

LEMMA CloseText ==
  ASSUME ConfigInv, TextInv, Close
  PROVE  TextInv'
<1>1. PICK m \in 0..6, n \in Nat :
        m = next - 1 /\ n = Sections(m) /\ ListOf(n) /\ SectionsOf(m)
  BY DEF TextInv
<1>2. /\ next' = next
      /\ argv' = argv /\ Taken' = Taken
      /\ result = "assembling" /\ result' # "assembling"
      /\ config' = Append(config, "end")
  BY TakenStays DEF Close
<1>3. /\ config \in Seq(Pieces) /\ "end" \in Pieces
      /\ Len(config) = IF n = 0 THEN 1 ELSE 2 * n
  BY <1>1, <1>2 DEF ListOf, Pieces
<1>4. /\ config' \in Seq(Pieces)
      /\ Len(config') = Len(config) + 1
      /\ config'[Len(config')] = "end"
      /\ \A j \in 1..Len(config) : config'[j] = config[j]
  BY <1>2, <1>3
<1>5. \A j \in 1..(2 * n) : config'[j] = config[j]
  BY <1>3, <1>4
<1>6. \A i \in 1..(n - 1) : config'[2 * i + 1] = "comma"
  <2> SUFFICES ASSUME NEW i \in 1..(n - 1) PROVE config'[2 * i + 1] = "comma"
    OBVIOUS
  <2>1. 2 * i + 1 \in 1..(2 * n)
    OBVIOUS
  <2> QED
    BY <1>1, <1>5, <2>1 DEF ListOf
<1>7. config'[1] = "begin"
  <2>1. 1 \in 1..Len(config) /\ config[1] = "begin"
    BY <1>1, <1>3 DEF ListOf
  <2> QED
    BY <1>4, <2>1
<1>8. ListOf(n)'
  BY <1>2, <1>3, <1>4, <1>6, <1>7 DEF ListOf
<1>9. \A d \in Taken \cap 1..m : config'[2 * Sections(d)] = Drivers[d]
  BY <1>1, <1>5, SectionsStay
<1>10. \A d : Sections(d)' = Sections(d)
  BY <1>2, CountStays
<1>11. SectionsOf(m)'
  BY <1>2, <1>9, <1>10 DEF SectionsOf
<1> QED
  BY <1>1, <1>2, <1>8, <1>10, <1>11 DEF TextInv

LEMMA NextTextInv == ConfigInv /\ TextInv /\ [Next]_vars => TextInv'
<1> SUFFICES ASSUME ConfigInv, TextInv, UNCHANGED vars PROVE TextInv'
  BY ChooseText, CloseText DEF Next
<1>1. Taken' = Taken /\ \A d : Sections(d)' = Sections(d)
  BY TakenStays, CountStays DEF vars
<1> QED
  BY <1>1 DEF TextInv, ListOf, SectionsOf, vars

LEMMA TakenIsChosen == ConfigInv => Taken = Chosen
BY FindIsMembership DEF ConfigInv, Taken, Chosen

LEMMA InvImpliesList == ConfigInv /\ TextInv => ConfigIsJsonList
<1> SUFFICES ASSUME ConfigInv, TextInv, result = "configured" PROVE ConfigIsJsonList
  BY DEF ConfigIsJsonList
<1>1. next - 1 = 6 /\ ~first
  BY SixDrivers DEF ConfigInv, StageOK, FirstOK
<1>2. PICK n \in Nat : n = Sections(6) /\ ListOf(n) /\ SectionsOf(6)
  BY <1>1 DEF TextInv
<1>3. \A d : ChosenUpTo(d) = Sections(d)
  BY TakenIsChosen DEF ChosenUpTo, Sections
<1>4. Chosen = Taken \cap 1..6
  BY TakenIsChosen, SixDrivers DEF Chosen
<1>5. ChosenUpTo(Len(Drivers)) = n
  BY <1>2, <1>3, SixDrivers
<1>6. n # 0
  BY <1>1, <1>2, FirstMeansNone
<1>7. /\ Len(config) = 2 * n + 1 /\ config[1] = "begin" /\ config[Len(config)] = "end"
      /\ \A i \in 1..(n - 1) : config[2 * i + 1] = "comma"
  BY <1>2, <1>6 DEF ListOf
<1>8. \A d \in Chosen : config[2 * ChosenUpTo(d)] = Drivers[d]
  BY <1>2, <1>3, <1>4 DEF SectionsOf
<1> QED
  BY <1>5, <1>7, <1>8 DEF ConfigIsJsonList, Last

\* What first says of the text: "begin" and "end" are no driver's section.
LEMMA FirstTellsOfText ==
  ASSUME ConfigInv, TextInv
  PROVE  first <=> Range(config) \cap Range(Drivers) = {}
<1>1. PICK m \in 0..6, n \in Nat :
        m = next - 1 /\ n = Sections(m) /\ ListOf(n) /\ SectionsOf(m)
  BY DEF TextInv
<1>2. first <=> n = 0
  BY <1>1, FirstMeansNone
<1>3. config \in Seq(Pieces)
  BY <1>1 DEF ListOf
<1>4. Range(config) = {config[j] : j \in 1..Len(config)}
  BY <1>3 DEF Range
<1>5. CASE first
  <2>1. Len(config) \in {1, 2} /\ config[1] = "begin" /\ (Len(config) = 2 => config[2] = "end")
    BY <1>1, <1>2, <1>5 DEF ListOf
  <2>2. "begin" \notin Range(Drivers) /\ "end" \notin Range(Drivers)
    BY RangeOfDrivers, SixDrivers DEF Drivers
  <2>3. Range(config) \subseteq {"begin", "end"}
    BY <1>4, <2>1
  <2> QED
    BY <1>5, <2>2, <2>3
<1>6. CASE ~first
  <2>1. PICK d \in Taken \cap 1..m : TRUE
    BY <1>1, <1>6 DEF ConfigInv, FirstOK
  <2>2. Sections(d) \in Nat /\ Sections(d) <= n /\ Sections(d) >= 1
    BY <1>1, <2>1, SectionsGrow
  <2>3. config[2 * Sections(d)] = Drivers[d]
    BY <1>1, <2>1 DEF SectionsOf
  <2>4. Len(config) >= 2 * n /\ Len(config) \in Nat
    BY <1>1, <1>3 DEF ListOf
  <2>5. 2 * Sections(d) \in 1..Len(config)
    BY <2>2, <2>4
  <2>6. Drivers[d] \in Range(Drivers)
    BY <2>1, RangeOfDrivers, SixDrivers
  <2> QED
    BY <1>4, <1>6, <2>3, <2>5, <2>6
<1> QED
  BY <1>5, <1>6

LEMMA InvImpliesTypes == ConfigInv /\ TextInv => TypeOK
BY FirstTellsOfText DEF TypeOK, ConfigInv, ArgvOK, StageOK, FirstOK, TextInv, ListOf, Pieces

LEMMA ConfigInvariance == Spec => [](ConfigInv /\ TextInv)
BY InitConfigInv, InitTextInv, NextConfigInv, NextTextInv, PTL DEF Spec

-----------------------------------------------------------------------------

\* main gives up exactly when no word of the command line is a driver or "all"
\* (master_demo.cpp:322): the flag first, which places the commas, also tells
\* whether there is anything to configure.
THEOREM GivesUpCorrectly == Spec => []RefusedWithoutDriver
BY InitConfigInv, NextConfigInv, InvImpliesRefused, PTL DEF Spec

\* Every variable keeps its type, and first is true exactly as long as the text
\* has no section.
THEOREM ConfigTypeCorrect == Spec => []TypeOK
BY ConfigInvariance, InvImpliesTypes, PTL

\* What main configures is a list of exactly the drivers that were named, in
\* order, with commas between them and nowhere else (master_demo.cpp:278).
THEOREM ConfiguresAList == Spec => []ConfigIsJsonList
BY ConfigInvariance, InvImpliesList, PTL

=============================================================================
