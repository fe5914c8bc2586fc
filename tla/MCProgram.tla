----------------------------- MODULE MCProgram ------------------------------
(* An instance of Program for TLC. *)
EXTENDS Program

(* The attack relations over three arguments, up to the names: of those     *)
(* that differ only in names, the one whose attacks have the least sum.     *)
Renamings == {f \in [Arg -> Arg] : \A a, b \in Arg : f[a] = f[b] => a = b}
Weight(D) ==
  LET w[k \in 0 .. 9] ==
        IF k = 9 THEN 0
        ELSE (IF <<k \div 3, k % 3>> \in D THEN 2 ^ k ELSE 0) + w[k + 1]
  IN  w[0]
Representatives ==
  {D \in SUBSET (Arg \X Arg) :
     \A f \in Renamings : Weight(D) <= Weight({<<f[e[1]], f[e[2]]>> : e \in D})}

(* Their attacks line by line, in one of the orders. *)
Listed(D) ==
  LET l[k \in 0 .. 9] ==
        IF k = 9 THEN << >>
        ELSE (IF <<k \div 3, k % 3>> \in D THEN <<<<k \div 3, k % 3>>>> ELSE << >>) \o l[k + 1]
  IN  l[0]

(* The files: i23 with comments, a blank line and the first attack twice;   *)
(* tgf with names that are not the numbers.                                *)
Blank   == <<"blank">>
Mark    == <<"#">>
Remark  == <<"comment", "# three arguments">>
Header  == <<"p", 3>>
Edge(e) == <<"att", Number(e[1]), Number(e[2])>>
Name    == [i \in Arg |-> CASE i = 0 -> "c" [] i = 1 -> "a" [] i = 2 -> "b"]
I23(s)  == <<Remark, Header, Mark>> \o [k \in DOMAIN s |-> Edge(s[k])] \o <<Blank>>
             \o (IF s = << >> THEN << >> ELSE <<Edge(s[1])>>)
Tgf(s)  == <<<<"name", Name[0]>>, Blank, <<"name", Name[1]>>, <<"name", Name[2]>>, Mark>>
             \o [k \in DOMAIN s |-> <<"att", Name[s[k][1]], Name[s[k][2]]>>] \o <<Blank>>

(* Files with more than the buffers hold: 0 and 1 attack each other, 0 in   *)
(* four lines; a name of nine letters.  Files that can be read as tgf, with *)
(* three and with two arguments.                                            *)
Files(D) ==
  [x \in {"af.i23", "af.tgf", "full.i23", "long.tgf", "three.i23", "two.i23"} |->
     CASE x = "af.i23"    -> I23(Listed(D))
       [] x = "af.tgf"    -> Tgf(Listed(D))
       [] x = "full.i23"  -> <<Header>> \o [k \in 1 .. 5 |-> Edge(IF k = 1 THEN <<0, 1>> ELSE <<1, 0>>)]
       [] x = "long.tgf"  -> <<<<"name", "attacking">>, <<"name", "b">>, <<"name", "c">>, Mark,
                               <<"att", "b", "c">>, <<"att", "c", "b">>>>
       [] x = "three.i23" -> <<Header, <<"comment", "# none">>, Edge(<<0, 1>>), Mark, Blank, Mark>>
       [] x = "two.i23"   -> <<Header, Edge(<<0, 1>>), Mark>>]
AllDisks == {Files(D) : D \in Representatives}

(* Every task in the usual form, for every argument where it has one. *)
Searches == {"SE-GR", "SE-CO", "SE-PR", "SE-ST", "SE-ID", "SE-SST", "SE-STG", "EA-PR",
             "CE-ST", "CE-CO", "CE-PR"}
Usual ==
  {<<"-p", t, "-f", "af.i23">> : t \in Searches}
    \cup {<<"-p", t, "-f", "af.i23", "-a", Number(a)>> : t \in Credulous \cup Skeptical, a \in Arg}

(* tgf files; other orders, options given twice, unknown and missing ones,  *)
(* an argument, a task or a file that does not exist, and the questions     *)
(* about the program itself.                                               *)
Unusual ==
  {<<"-fo", "tgf", "-f", "af.tgf", "-a", "b", "-p", t>> : t \in {"DC-PR", "DS-SST", "DC-ST", "SE-ST", "SE-ID"}}
    \cup {<<"-a", "2", "-f", "af.i23", "-v", "-p", "-p", "DS-PR">>,
          <<"-p", "SE-GR", "-f", "af.tgf", "-p", "DC-CO", "-a", "3", "-f", "af.i23", "-fo", "i23">>,
          <<"-p", "SE-PR", "-f", "missing">>, <<"-p", "DS-PR", "-f", "af.i23", "-a", "4">>,
          <<"-p", "DC-CO", "-f", "af.i23">>, <<"-f", "af.i23", "-fo", "i23">>,
          <<"-p", "SE-XX", "-f", "af.i23">>, <<"-p", "DC-XX", "-f", "af.i23", "-a", "1">>,
          <<"-p", "DC-XX", "-f", "af.i23">>,
          <<"-p", "SE-PR">>, <<"-f", "af.i23", "--problems", "-p", "SE-PR">>, << >>}

(* Buffers at their limit, and files of the other format. *)
Unfit ==
  {<<"-p", t, "-f", "full.i23", "-a", "1">> : t \in {"DC-CO", "DS-ST", "DS-PR", "DC-STG", "SE-GR"}}
    \cup {<<"-fo", "tgf", "-p", "DC-PR", "-f", f, "-a", a>> :
             f \in {"af.i23", "three.i23", "two.i23", "long.tgf"}, a \in {"1 2", "attacking"}}
    \cup {<<"-p", "SE-PR", "-f", "af.tgf">>, <<"-fo", "tgf", "-p", "SE-PR", "-f", "two.i23">>}

AllCommandLines == Usual \cup Unusual \cup Unfit

(* Calls that show a promised set the program does not print. *)
IdealCalls == {<<"-p", t, "-f", "af.i23", "-a", "1">> : t \in {"DC-ID", "DS-ID"}}
NamedCalls == {<<"-fo", "tgf", "-f", "af.tgf", "-a", "b", "-p", t>> : t \in Numbered}

=============================================================================
