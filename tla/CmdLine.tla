------------------------------ MODULE CmdLine -------------------------------
(***************************************************************************)
(* taas__cmd_handle (src/taas/taas_inout.c): options in any order, the     *)
(* last of several counts, an unknown one is kept with the token after it. *)
(* The fields of the task come from malloc and hold anything at first; a   *)
(* program that gets to use one that was not given has left what C defines *)
(* ("undefined").                                                          *)
(***************************************************************************)
EXTENDS Naturals, Sequences

CONSTANT CommandLines   \* the sequences argv[1], ..., argv[argc-1] considered

Unset == "unset"        \* the field holds whatever it held
NULL  == "NULL"

(* The two stand for pointers that are no string. *)
ASSUME TokenAssumption == CommandLines \subseteq Seq(STRING \ {Unset, NULL})

VARIABLES
  argv,                 \* the command line
  at,                   \* the token looked at
  task,                 \* track, file, argAsString and format of the task
  param,                \* the options counted
  pc

cmd == <<argv, at, task, param>>

Field == [o \in {"-p", "-f", "-a", "-fo"} |->
            CASE o = "-p" -> "track" [] o = "-f"  -> "file"
              [] o = "-a" -> "argAsString" [] o = "-fo" -> "format"]

(* argv[argc] is NULL. *)
Token(k) == IF k <= Len(argv) THEN argv[k] ELSE NULL

CmdInit ==
  /\ argv \in CommandLines
  /\ at = 1
  /\ task = [track |-> Unset, file |-> Unset, argAsString |-> Unset, format |-> NULL]
  /\ param = 0
  /\ pc = "options"

ReadOption ==
  /\ pc = "options" /\ at <= Len(argv) /\ argv[at] \in DOMAIN Field
  /\ task' = [task EXCEPT ![Field[argv[at]]] = Token(at + 1)]
  /\ param' = IF argv[at] = "-a" THEN param ELSE param + 1
  /\ at' = at + 2
  /\ UNCHANGED <<argv, pc>>

(* Print the formats or the problems. *)
InfoOption ==
  /\ pc = "options" /\ at <= Len(argv) /\ argv[at] \in {"--formats", "--problems"}
  /\ pc' = "info"
  /\ UNCHANGED cmd

AdditionalOption ==
  /\ pc = "options" /\ at <= Len(argv)
  /\ argv[at] \notin DOMAIN Field \cup {"--formats", "--problems"}
  /\ at' = at + 2
  /\ UNCHANGED <<argv, task, param, pc>>

(* The first two letters of the track are copied. *)
OptionsRead ==
  /\ pc = "options" /\ at > Len(argv)
  /\ pc' = IF param < 2 THEN "info"
           ELSE IF task.track \in {Unset, NULL} THEN "undefined" ELSE "open"
  /\ UNCHANGED cmd

CmdNext ==
  \/ ReadOption
  \/ InfoOption
  \/ AdditionalOption
  \/ OptionsRead

=============================================================================
