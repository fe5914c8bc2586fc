------------------------------- MODULE Loader -------------------------------
(***************************************************************************)
(* The readers of framework files and the lookup of the query argument     *)
(* (taas__readFile_tgf, taas__readFile_i23, taas__update_arg_param of      *)
(* src/taas/taas_inout.c), one action per line of the file.  A line is     *)
(*   <<"blank">>       a blank line                                        *)
(*   <<"#">>           the mark alone: comment (i23), separator (tgf)      *)
(*   <<"comment", t>>  a text t that goes on after the mark: comment (i23) *)
(*   <<"p", n>>        i23 header                                          *)
(*   <<"att", x, y>>   two words: attack, of numbers (i23) or names (tgf)  *)
(*   <<"name", x>>     any other text: argument (tgf).                     *)
(* What is on a line does not depend on the reader: each of the two meets  *)
(* lines of the other format when the call names the wrong one.            *)
(***************************************************************************)
EXTENDS CmdLine, BitSet, TLC

CONSTANT Disks          \* what the disk may hold: functions from path to lines

VARIABLES
  disk,
  row,                  \* the line read next
  aaf,                  \* struct AAF
  arg                   \* task->arg

load == <<disk, row, aaf, arg>>

lines == disk[task.file]
line  == lines[row]
Rows(kind) == {k \in DOMAIN lines : lines[k][1] = kind}

(* A line as it is written, and cut at its first space.                     *)
Text(l) ==
  CASE l[1] = "p"   -> "p af " \o ToString(l[2])
    [] l[1] = "att" -> l[2] \o " " \o l[3]
    [] OTHER        -> l[2]
Words(l) ==
  CASE l[1] = "p"   -> <<"p", "af " \o ToString(l[2])>>
    [] l[1] = "att" -> <<l[2], l[3]>>
    [] OTHER        -> << >>

(* The queries; task->problem holds the first two letters of any task.      *)
Credulous == {"DC-GR", "DC-CO", "DC-PR", "DC-ST", "DC-SST", "DC-STG", "DC-ID"}
Skeptical == {"DS-GR", "DS-CO", "DS-PR", "DS-ST", "DS-SST", "DS-STG", "DS-ID"}
problem(t) == IF Len(t) < 2 THEN t ELSE SubSeq(t, 1, 2)
AsksForArgument(t) == problem(t) \in {"DC", "DS"}

(* The i23 formats number the arguments from 1 (snprintf). *)
Number(i) == ToString(i + 1)

(* The arrays for n arguments with the names given; all arguments initial. *)
NewAAF(n, names) ==
  [number_of_arguments |-> n,
   ids2arguments       |-> names,
   children            |-> [a \in 0 .. n - 1 |-> << >>],
   parents             |-> [a \in 0 .. n - 1 |-> << >>],
   number_of_attackers |-> [a \in 0 .. n - 1 |-> 0],
   initial             |-> bitset__setAll([length |-> n, data |-> [w \in 0 .. num_elements(n) - 1 |-> {}]]),
   loops               |-> bitset__unsetAll([length |-> n, data |-> [w \in 0 .. num_elements(n) - 1 |-> {}]])]

(* One attack line.  A name with a suffix is the same definition with a     *)
(* slip in it; no specification uses it, the properties are tried against  *)
(* it.                                                                     *)
WithAttack_ParentLost(F, a, b) ==
  [F EXCEPT !.children[a] = <<b>> \o @,
            !.parents[b] = <<a>>,
            !.number_of_attackers[b] = @ + 1,
            !.initial = bitset__unset(@, b),
            !.loops = IF a = b THEN bitset__set(@, a) ELSE @]
WithAttack(F, a, b) ==
  [F EXCEPT !.children[a] = <<b>> \o @,
            !.parents[b] = <<a>> \o @,
            !.number_of_attackers[b] = @ + 1,
            !.initial = bitset__unset(@, b),
            !.loops = IF a = b THEN bitset__set(@, a) ELSE @]

(* g_hash_table_lookup in arguments2ids: the ids a name was inserted with;  *)
(* the last insertion counts.  It also stands for atoi less one in the i23  *)
(* reader, where a name is the number of its id and one: for a word that is *)
(* no name, atoi finds no place in the arrays.                              *)
IdsOf(name) == {i \in DOMAIN aaf.ids2arguments : aaf.ids2arguments[i] = name}
Lookup(name) == CHOOSE i \in IdsOf(name) : \A j \in IdsOf(name) : j <= i

-----------------------------------------------------------------------------
LoadInit ==
  /\ disk \in Disks
  /\ row = 1
  /\ aaf = NewAAF(0, << >>)
  /\ arg = -1

(* fopen fails, or there is no header: the reader goes on with what it has *)
(* not got.                                                                *)
CannotRead ==
  /\ pc = "open"
  /\ task.file \in DOMAIN disk => task.format # "tgf" /\ Rows("p") = {}
  /\ pc' = "undefined"
  /\ UNCHANGED <<cmd, load>>

(* The first pass counts the lines up to the separator; the second pass     *)
(* fills the arrays.                                                       *)
OpenTgf ==
  /\ pc = "open" /\ task.file \in DOMAIN disk /\ task.format = "tgf"
  /\ aaf' = NewAAF(0, << >>)
  /\ pc' = "arguments"
  /\ UNCHANGED <<cmd, disk, row, arg>>

(* The first pass of the other reader ends with the header, whose number    *)
(* sizes the arrays, and the second one goes on from there.                *)
OpenI23 ==
  /\ pc = "open" /\ task.file \in DOMAIN disk /\ task.format # "tgf"
  /\ Rows("p") # {}
  /\ LET header == FirstOf(Rows("p"))
         n      == lines[header][2]
     IN  /\ row' = header + 1
         /\ aaf' = NewAAF(n, [i \in 0 .. n - 1 |-> Number(i)])
  /\ pc' = "attacks"
  /\ UNCHANGED <<cmd, disk, arg>>

SkipLine ==
  /\ pc \in {"arguments", "attacks"} /\ row <= Len(lines)
  /\ line[1] = "blank" \/ (line[1] \in {"#", "comment"} /\ task.format # "tgf")
  /\ row' = row + 1
  /\ UNCHANGED <<cmd, disk, aaf, arg, pc>>

(* The first section of a tgf file: every other line is the name of an      *)
(* argument, which gets the next id.  The name is copied into nine bytes.   *)
ReadArgument ==
  /\ pc = "arguments" /\ row <= Len(lines) /\ line[1] \notin {"blank", "#"}
  /\ LET n == aaf.number_of_arguments
     IN  aaf' = NewAAF(n + 1, [i \in 0 .. n |-> IF i = n THEN Text(line) ELSE aaf.ids2arguments[i]])
  /\ row' = row + 1
  /\ pc' = pc \/ (Len(Text(line)) > 8 /\ pc' = "undefined")
  /\ UNCHANGED <<cmd, disk, arg>>

(* The separator: from here on the lines are attacks.  Another one sets     *)
(* the bits once more, which changes nothing before the first attack; that  *)
(* one comes after an attack is left out, no file below has it.             *)
SwitchSection ==
  /\ pc \in {"arguments", "attacks"} /\ task.format = "tgf"
  /\ row <= Len(lines) /\ line[1] = "#"
  /\ row' = row + 1
  /\ pc' = "attacks"
  /\ UNCHANGED <<cmd, disk, aaf, arg>>

(* No separator: initial and loops are never set. *)
NoSeparator ==
  /\ pc = "arguments" /\ row > Len(lines)
  /\ pc' = "undefined"
  /\ UNCHANGED <<cmd, load>>

(* Any other line is cut at its first space; the program leaves the line,   *)
(* or the arrays, when there is none or when a word is no argument.         *)
ReadAttack ==
  /\ pc = "attacks" /\ row <= Len(lines)
  /\ line[1] \in {"name", "p", "att"} \/ (line[1] = "comment" /\ task.format = "tgf")
  /\ LET w == Words(line)
     IN  IF w = << >> \/ \E k \in DOMAIN w : IdsOf(w[k]) = {}
           THEN pc' = "undefined" /\ aaf' = aaf
           ELSE aaf' = WithAttack(aaf, Lookup(w[1]), Lookup(w[2])) /\ pc' = pc
  /\ row' = row + 1
  /\ UNCHANGED <<cmd, disk, arg>>

FileRead ==
  /\ pc = "attacks" /\ row > Len(lines)
  /\ pc' = "argument"
  /\ UNCHANGED <<cmd, load>>

(* taas__update_arg_param *)
UpdateArg ==
  /\ pc = "argument"
  /\ IF ~AsksForArgument(task.track) THEN arg' = -1 /\ pc' = "ground"
     ELSE IF IdsOf(task.argAsString) = {} THEN arg' = arg /\ pc' = "undefined"
     ELSE arg' = Lookup(task.argAsString) /\ pc' = "ground"
  /\ UNCHANGED <<cmd, disk, row, aaf>>

LoadNext ==
  \/ CannotRead
  \/ OpenTgf
  \/ OpenI23
  \/ SkipLine
  \/ ReadArgument
  \/ SwitchSection
  \/ NoSeparator
  \/ ReadAttack
  \/ FileRead
  \/ UpdateArg

=============================================================================
