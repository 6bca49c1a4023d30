----------------------------- MODULE DemoConfig -----------------------------
(***************************************************************************)
(* How main of master_demo.cpp chooses the drivers and puts the            *)
(* configuration together (lines 250-325): one section per driver that the *)
(* command line names, with a comma before every section but the first.    *)
(* A section, the opening and the closing text are one piece each: within  *)
(* a piece the text is constant and is a JSON value.                       *)
(***************************************************************************)
EXTENDS Integers, Sequences, FiniteSets, SequencesExt

CONSTANTS
  Programs,  \* names the program may be run under, argv[0]
  Words,     \* what the user may write on the command line
  MaxWords   \* bound: words on the command line

ASSUME ConfigAssumption == MaxWords \in Nat

\* The ifs of main, in order; a driver's section is called by its argument.
Drivers == <<"microhard", "silvus", "wifi", "usbc", "doodlelabs", "zerotier">>

VARIABLES
  argv,    \* argv[0], ..., argv[argc - 1], at positions 1 .. argc
  next,    \* position in Drivers of the next if
  first,   \* no section has been appended
  config,  \* the pieces of the configuration so far
  result   \* what main does with it in the end

vars == <<argv, next, first, config, result>>

Init ==
  /\ \E p \in Programs, w \in BoundedSeq(Words, MaxWords) : argv = <<p>> \o w
  /\ next = 1
  /\ first = TRUE
  /\ config = <<"begin">>
  /\ result = "assembling"

\* Mutant: the loop starts at argv[0].
FindInArgv_FromZero(s) == \E i \in 1..Len(argv) : argv[i] \in {s, "all"}

\* find_in_argv(s, argc, argv)
FindInArgv(s) == \E i \in 2..Len(argv) : argv[i] \in {s, "all"}

\* Mutant: first is not reset.
Section_AlwaysFirst(driver) ==
  config' = config \o (IF first THEN <<>> ELSE <<"comma">>) \o <<driver>> /\ first' = first

\* Mutant: a comma after every section.
Section_CommaAfter(driver) ==
  config' = config \o <<driver, "comma">> /\ first' = FALSE

\* if (!first) { config += ","; }  config += config_...;  first = false;
Section(driver) ==
  config' = config \o (IF first THEN <<>> ELSE <<"comma">>) \o <<driver>> /\ first' = FALSE

\* One if (driver_...) of main.
Choose ==
  /\ next <= Len(Drivers)
  /\ next' = next + 1
  /\ \/ FindInArgv(Drivers[next]) /\ Section(Drivers[next])
     \/ ~FindInArgv(Drivers[next]) /\ UNCHANGED <<first, config>>
  /\ UNCHANGED <<argv, result>>

\* config += config_end;  if (first) { return -1; }
Close ==
  /\ next = Len(Drivers) + 1
  /\ result = "assembling"
  /\ config' = Append(config, "end")
  /\ result' = IF first THEN "refused" ELSE "configured"
  /\ UNCHANGED <<argv, next, first>>

Next == Choose \/ Close

Spec == Init /\ [][Next]_vars

-----------------------------------------------------------------------------
(* Properties.                                                             *)

\* Types of every variable; first tells whether a section was appended.
TypeOK ==
  /\ argv \in Seq(Programs \cup Words)
  /\ next \in 1..(Len(Drivers) + 1)
  /\ first \in BOOLEAN
  /\ first <=> Range(config) \cap Range(Drivers) = {}
  /\ config \in Seq(Range(Drivers) \cup {"begin", "comma", "end"})
  /\ result \in {"assembling", "refused", "configured"}

\* The words after the program's own name.
Arguments == Range(Tail(argv))

\* The drivers the user chose, by their place in main, and how many of them
\* there are up to such a place.
Chosen == {d \in 1..Len(Drivers) : Arguments \cap {Drivers[d], "all"} # {}}
ChosenUpTo(d) == Cardinality(Chosen \cap 1..d)

\* What the manager is given is a JSON list of exactly the drivers that were
\* chosen, each once, however often and in whatever order the command line
\* names them: the sections, in the order of main, alternate with the commas.
ConfigIsJsonList ==
  result = "configured" =>
    LET n == ChosenUpTo(Len(Drivers))
    IN  /\ Len(config) = 2 * n + 1
        /\ config[1] = "begin" /\ Last(config) = "end"
        /\ \A d \in Chosen : config[2 * ChosenUpTo(d)] = Drivers[d]
        /\ \A i \in 1..(n - 1) : config[2 * i + 1] = "comma"

\* main gives up exactly when the command line names no driver.
RefusedWithoutDriver ==
  result # "assembling" => (result = "refused" <=> Arguments \cap ({"all"} \cup Range(Drivers)) = {})

=============================================================================
