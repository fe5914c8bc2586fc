------------------------------ MODULE Program -------------------------------
(***************************************************************************)
(* The whole program, from the command line and the file to the lines it   *)
(* prints: main (src/taas-fudge.cpp) composes the options (CmdLine), the   *)
(* readers (Loader), the driver (Driver) and the tasks.                    *)
(***************************************************************************)
EXTENDS Driver

vars == <<state, pc>>

Init == CmdInit /\ LoadInit /\ DriverInit

(* Nothing is left to do; anywhere else a program without a next step would *)
(* be stuck, which TLC reports as a deadlock.                              *)
Exit == pc \in {"done", "info", "undefined", "aborted", "other size"} /\ UNCHANGED vars

Next ==
  \/ CmdNext /\ UNCHANGED <<load, shot>>
  \/ LoadNext /\ UNCHANGED shot
  \/ SingleShotNext
  \/ DriverNext
  \/ Exit

Spec == Init /\ [][Next]_vars

-----------------------------------------------------------------------------
(* What the disk may hold: files of the two formats for the arguments Arg.  *)
(* An i23 file numbers them from 1; a tgf file lists their names, each      *)
(* once, and has a line that separates them from the attacks.              *)
I23File(s) ==
  \E h \in DOMAIN s :
    /\ s[h] = <<"p", Cardinality(Arg)>>
    /\ \A k \in DOMAIN s \ {h} :
         \/ s[k][1] \in {"blank", "#", "comment"}
         \/ h < k /\ \E a, b \in Arg : s[k] = <<"att", Number(a), Number(b)>>

TgfFile(s) ==
  \E h \in DOMAIN s :
    LET names == {k \in 1 .. h - 1 : s[k][1] = "name"}
    IN  /\ s[h] = <<"#">>
        /\ Cardinality(names) = Cardinality(Arg)
        /\ \A k \in names : s[k][2] \notin {Unset, NULL}
        /\ \A k, l \in names : s[k][2] = s[l][2] => k = l
        /\ \A k \in DOMAIN s \ (names \cup {h}) :
             \/ s[k] = <<"blank">>
             \/ h < k /\ \E l, m \in names : s[k] = <<"att", s[l][2], s[m][2]>>

ASSUME IdsAssumption == Arg = 0 .. Cardinality(Arg) - 1
ASSUME FileAssumption ==
  \A d \in Disks :
    /\ Unset \notin DOMAIN d /\ NULL \notin DOMAIN d
    /\ \A f \in DOMAIN d :
         /\ d[f] \in Seq({d[f][k] : k \in DOMAIN d[f]})
         /\ I23File(d[f]) \/ TgfFile(d[f])

(* The queries are the tasks with the letters DC or DS in front. *)
Tasks == {"SE-GR", "SE-CO", "DC-GR", "DS-GR", "DS-CO"} \cup AdmTasks \cup ComTasks \cup StbTasks \cup CfTasks
ASSUME TaskAssumption == \A t \in Tasks : AsksForArgument(t) <=> t \in Credulous \cup Skeptical

(* sprintf writes different numbers differently. *)
ASSUME NumberAssumption ==
  /\ \A i, j \in Arg : Number(i) = Number(j) => i = j
  /\ \A i \in Arg : Number(i) \notin {Unset, NULL}

-----------------------------------------------------------------------------
(* What was asked, read off the command line and the file without the      *)
(* program: the tokens at odd places are options, the last of a kind       *)
(* counts, and must be followed by its value.                              *)
Places(o) == {k \in 1 .. Len(argv) : k % 2 = 1 /\ argv[k] = o}
IsGiven(o) == Places(o) # {} /\ Len(argv) \notin Places(o)
LastOf(S) == CHOOSE k \in S : \A l \in S : l <= k
Given(o)  == argv[1 + LastOf(Places(o))]

Content  == disk[Given("-f")]
InTgf    == IsGiven("-fo") /\ Given("-fo") = "tgf"
RowsOf(kind) == {k \in DOMAIN Content : Content[k][1] = kind}

(* The arguments in the order of the file: name of the i-th, id of a name. *)
NameOf(i) ==
  IF InTgf THEN Content[CHOOSE k \in RowsOf("name") : Cardinality({l \in RowsOf("name") : l < k}) = i][2]
  ELSE Number(i)
IdOf(x) == CHOOSE i \in Arg : NameOf(i) = x

AttackOf(k) == <<IdOf(Content[k][2]), IdOf(Content[k][3])>>
Attacks == {AttackOf(k) : k \in RowsOf("att")}

Query == AsksForArgument(Given("-p"))

(* The file is there, but it is not of the format the call names. *)
AsMeant == IF InTgf THEN TgfFile(Content) ELSE I23File(Content)
Misread == IsGiven("-f") /\ Given("-f") \in DOMAIN disk /\ ~AsMeant

WellAsked ==
  /\ IsGiven("-p") /\ IsGiven("-f")
  /\ Places("--formats") \cup Places("--problems") = {}
  /\ Given("-f") \in DOMAIN disk
  /\ AsMeant
  /\ Query => IsGiven("-a") /\ \E i \in Arg : NameOf(i) = Given("-a")

(* More than the buffers hold: a name of more than eight bytes, or more     *)
(* attack lines for an argument than there are arguments.                   *)
Overfull ==
  \/ InTgf /\ \E k \in RowsOf("name") : Len(Content[k][2]) > 8
  \/ \E a \in Arg : Cardinality({k \in RowsOf("att") : AttackOf(k)[2] = a}) > Cardinality(Arg)

(* The semantics a task asks for. *)
Extension(S) ==
  CASE Given("-p") \in {"SE-GR", "DC-GR", "DS-GR"} ->
         GroundedLabels(Attacks, S, Attacked(Attacks, S))
    [] Given("-p") \in {"SE-CO", "DC-CO", "DS-CO", "CE-CO"} -> Complete(Attacks, S)
    [] Given("-p") \in {"SE-PR", "DC-PR", "DS-PR", "CE-PR"} -> Preferred(Attacks, S)
    [] Given("-p") \in {"SE-ST", "DC-ST", "DS-ST", "CE-ST"} -> Stable(Attacks, S)
    [] Given("-p") \in {"SE-SST", "DC-SST", "DS-SST"}       -> SemiStable(Attacks, S)
    [] Given("-p") \in {"SE-STG", "DC-STG", "DS-STG"}       -> Stage(Attacks, S)
    [] OTHER -> IsIdeal(Attacks, S)
Extensions == {S \in SUBSET Arg : Extension(S)}

Shown(S) == <<"w", {NameOf(i) : i \in S}>>

Yes ==
  IF Given("-p") \in Credulous THEN \E S \in Extensions : IdOf(Given("-a")) \in S
  ELSE \A S \in Extensions : IdOf(Given("-a")) \in S

Asked == IdOf(Given("-a"))

Witnesses ==
  CASE Given("-p") \in {"DC-CO", "DC-PR"} -> {S \in SUBSET Arg : Complete(Attacks, S) /\ Asked \in S}
    [] Given("-p") = "DC-ST"              -> {S \in Extensions : Asked \in S}
    [] Given("-p") \in {"DS-ST", "DS-PR"} -> {S \in Extensions : Asked \notin S}
    [] OTHER                              -> Extensions

(* The answers that come with a set (src/taas-fudge.cpp:27-32).             *)
Promised ==
  \/ Given("-p") \in {"DC-CO", "DC-PR", "DC-ST"} /\ Yes
  \/ Given("-p") \in {"DS-ST", "DS-PR"} /\ ~Yes
  \/ Given("-p") \in {"DC-ID", "DS-ID"}

(* Where the program does not do what it promises there: the grounded       *)
(* labelling settles an ideal query before the ideal extension is known     *)
(* (IdealExtensionShown), and the three functions that print a model print  *)
(* the numbers of its members, which in a tgf file are not their names      *)
(* (WitnessNamed).                                                          *)
SettledUnshown ==
  \E S \in SUBSET Arg :
    /\ GroundedLabels(Attacks, S, Attacked(Attacks, S))
    /\ \/ Given("-p") = "DC-ID" /\ Asked \in Attacked(Attacks, S)
       \/ Given("-p") = "DS-ID" /\ Asked \in S
Numbered == {"DC-CO", "DC-PR", "DC-ST", "DS-ST"}

(* What a query prints: the answer of the definition, with a set that shows *)
(* it where one is promised; any set printed is one of those.               *)
AnswersQuery(ls) ==
  /\ Len(ls) \in {1, 2} /\ ls[1] = YesNo(Yes)
  /\ Promised /\ ~SettledUnshown => Len(ls) = 2
  /\ Len(ls) = 2 =>
       \E S \in Witnesses :
         ls[2] = Shown(S) \/ (Given("-p") \in Numbered /\ ls[2] = NumbersLine(S))

AnswersTask(ls) ==
  CASE Given("-p") \notin Tasks -> ls = << >>
    [] Given("-p") \in Credulous \cup Skeptical -> AnswersQuery(ls)
    [] Given("-p") = "EA-PR" -> ls = <<<<"[", {NameOf(i) : i \in SkepticallyPreferred(Attacks)}>>>>
    [] Given("-p") \in {"CE-ST", "CE-CO", "CE-PR"} -> ls = <<<<"count", Cardinality(Extensions)>>>>
    [] OTHER ->
         IF Given("-p") = "SE-CO" THEN ls = <<Shown(CHOOSE S \in Extensions : \A T \in Extensions : S \subseteq T)>>
         ELSE IF Extensions = {} THEN ls = <<<<"NO">>>>
         ELSE \E S \in Extensions : ls = <<Shown(S)>>

(* From the command line to the answer: what is printed is what the task    *)
(* asks of the framework in the file, whichever way the driver takes        *)
(* (settled by the grounded labelling, with or without a search for the     *)
(* witness, or solved).  A proper call is answered; it only leaves what C   *)
(* defines where the file has more than the buffers hold.  A file of the    *)
(* other format may be answered too: nothing is said of that answer.        *)
AnswerCorrect ==
  /\ pc = "done" => (WellAsked /\ AnswersTask(printed)) \/ Misread
  /\ pc = "info" => ~WellAsked
  /\ pc = "undefined" => ~WellAsked \/ Overfull
  /\ pc = "other size" => Misread

(* src/taas-fudge.cpp:32: "DS-ID, DC-ID (returns the ideal extension as     *)
(* witness in any case)".                                                   *)
IdealExtensionShown ==
  pc = "done" /\ WellAsked /\ Given("-p") \in {"DC-ID", "DS-ID"} =>
    \E S \in Extensions : printed = <<YesNo(Yes), Shown(S)>>

(* src/taas-fudge.cpp:28-30: the set printed is a complete set containing   *)
(* the query (DC-CO, DC-PR), a stable extension containing it (DC-ST) or    *)
(* one not containing it (DS-ST): a set of arguments of the file.           *)
WitnessNamed ==
  pc = "done" /\ WellAsked /\ Given("-p") \in Numbered /\ Promised =>
    \E S \in Witnesses : printed = <<YesNo(Yes), Shown(S)>>

(* The framework as the grounded computation gets it. *)
Occurrences(s, x) == Cardinality({k \in DOMAIN s : s[k] = x})
Lines == UNION {{<<e[1], e[2], k>> : k \in 1 .. Occurrences(aaf.children[e[1]], e[2])} : e \in Arg \X Arg}
Ground ==
  INSTANCE Grounded
    WITH Line <- Nat, AttackSets <- {L \in SUBSET (Arg \X Arg \X Nat) : IsFiniteSet(L)},
         attacks <- Lines, in <- {a \in Arg : bitset__get(aaf.initial, a)}, out <- {},
         number_of_attackers <- aaf.number_of_attackers,
         stack <- [k \in 1 .. Len(WalkOf(aaf.initial)) |->
                     WalkOf(aaf.initial)[Len(WalkOf(aaf.initial)) + 1 - k]],
         arg <- -1, node <- {}, node2 <- {}, pc <- "stack"

(* After the reader the two lists, the counters and the two bit sets all    *)
(* say what the file says, and the walk over the set bits of initial, whose *)
(* last word has ones beyond the arguments, visits the unattacked arguments *)
(* once each: the state is one the grounded computation starts in.          *)
LoadedExact ==
  pc = "ground" /\ AsMeant =>
    /\ aaf.number_of_arguments = Cardinality(Arg)
    /\ \A i \in Arg : aaf.ids2arguments[i] = NameOf(i)
    /\ \A a, b \in Arg :
         /\ Occurrences(aaf.children[a], b) = Cardinality({k \in RowsOf("att") : AttackOf(k) = <<a, b>>})
         /\ Occurrences(aaf.parents[b], a) = Occurrences(aaf.children[a], b)
    /\ \A a \in Arg : bitset__get(aaf.loops, a) <=> <<a, a>> \in Attacks
    /\ Query => arg = IdOf(Given("-a"))
    /\ Ground!Init

=============================================================================
