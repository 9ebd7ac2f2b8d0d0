------------------------------- MODULE Linker -------------------------------
(***************************************************************************)
(* The linker of icont: ilink reads what the files of a program declare    *)
(* (readglob), marks what is referenced and discards the rest (scanrefs),  *)
(* generates the icode of each file (gencode) and the tables that icode    *)
(* refers to by number (gentables).  A name stands for its place in the    *)
(* string space, an address in the icode for the block that begins there,  *)
(* and the instructions are those whose operands the linker must find.     *)
(***************************************************************************)
EXTENDS Integers, FiniteSets, SequencesExt

CONSTANTS
  File,      \* files of ucode
  Name,      \* identifiers
  Main,      \* "main"
  Builtin,   \* the names in ftable, which blocate knows
  All,       \* what "invocable all" puts in place of a name
  Program    \* programs: the files of the command line, and what is in each file

LinkerAssumption ==
  /\ Main \in Name
  /\ Builtin \subseteq Name \ {Main}
  /\ All \notin Name
  /\ \A p \in Program :
       /\ p.args \in Seq(File) \ {<<>>}
       /\ DOMAIN p.ucode = File

VARIABLES
  program,   \* what is linked: it does not change
  phase,     \* of ilink: globals, references, code, tables or done
  lf,        \* position in llfiles
  llfiles,   \* the files to link
  strinv,    \* "invocable all" was seen
  invkls,    \* names declared invocable
  tab,       \* the tables of globals and fields: see NoTables
  lstatics,  \* counter of static variables
  code,      \* the procedures generated
  image      \* the tables generated

vars == <<program, phase, lf, llfiles, strinv, invkls, tab, lstatics, code, image>>

ucode == program.ucode[llfiles[lf]]

-----------------------------------------------------------------------------
(***************************************************************************)
(* Symbol tables.  lgfirst is the list of globals, and lglast the last     *)
(* entry that was made, whether or not it is still on the list; lghash is  *)
(* the set of names glocate finds.  The entries g stay when they leave the *)
(* list, because record lists point to them.  lffirst is the list of       *)
(* fields, each with the records that have it and its position in each.    *)
(***************************************************************************)
NoEntry == [flag |-> {}, nargs |-> 0, procid |-> 0, index |-> 0, refs |-> {}, pc |-> 0]

NoTables ==
  [lgfirst |-> <<>>, lglast |-> Main, lghash |-> {}, g |-> [n \in Name |-> NoEntry],
   nrecords |-> 0, lffirst |-> <<>>, fatals |-> 0]

Listed(t) == ToSet(t.lgfirst)

alcglobal(t, id, flags, nargs, procid) ==
  [t EXCEPT
     !.lgfirst = IF @ = <<>> \/ t.lglast \in Listed(t) THEN Append(@, id) ELSE @,
     !.lglast = id,
     !.lghash = @ \cup {id},
     !.g[id] = [NoEntry EXCEPT !.flag = flags, !.nargs = nargs, !.procid = procid,
                  !.index = IF t.lgfirst = <<>> THEN 0 ELSE t.g[t.lglast].index + 1]]

putglobal(t, id, flags, nargs, procid) ==
  IF id \in t.lghash
  THEN [t EXCEPT !.g[id].flag = @ \cup flags \cup {"Global"},
                 !.g[id].nargs = nargs,
                 !.g[id].procid = procid]
  ELSE alcglobal(t, id, flags \cup {"Global"}, nargs, procid)

lfatal(t) == [t EXCEPT !.fatals = @ + 1]

\* The positions in the field list of entries for fname: none, or one.
flocate(t, fname) == {i \in DOMAIN t.lffirst : t.lffirst[i].name = fname}

\* Where a record of this number goes in a record list, which is ascending.
Spot(t, rlist, procid) ==
  Min({Len(rlist) + 1} \cup {i \in DOMAIN rlist : t.g[rlist[i].gp].procid >= procid})

putfield(t, fname, gp, fnum) ==
  LET r == [gp |-> gp, fnum |-> fnum]
      nfields == Len(t.lffirst)
  IN IF flocate(t, fname) = {}
     THEN [t EXCEPT !.lffirst =
             Append(@, [name |-> fname, fid |-> nfields + 1, rlist |-> <<r>>])]
     ELSE LET i == CHOOSE j \in flocate(t, fname) : TRUE
              rlist == t.lffirst[i].rlist
          IN [t EXCEPT !.lffirst[i].rlist = InsertAt(@, Spot(t, rlist, t.g[gp].procid), r)]

-----------------------------------------------------------------------------
(***************************************************************************)
(* Phase I: the .u2 files.  The records of a file come first, then its     *)
(* links and invocable declarations, then all its globals, records and     *)
(* procedures in the order in which they were mentioned.                   *)
(***************************************************************************)
alsolink(files, f) == IF f \in ToSet(files) THEN files ELSE Append(files, f)

ReadRecord(t, r) ==
  IF r.name \notin t.lghash \/ t.g[r.name].flag \subseteq {"Global"}
  THEN FoldLeftDomain(
         LAMBDA u, k : putfield(u, r.fields[k], r.name, k - 1),
         putglobal([t EXCEPT !.nrecords = @ + 1], r.name, {"Record"}, Len(r.fields), t.nrecords + 1),
         r.fields)
  ELSE lfatal(t)

ReadGlobal(t, d) ==
  IF d.name \in t.lghash /\ "Proc" \in d.flag /\ t.g[d.name].flag # {"Global"}
  THEN lfatal(t)
  ELSE IF d.name \notin t.lghash \/ "Proc" \in d.flag
       THEN putglobal(t, d.name, d.flag, 0, 0)
       ELSE t

readglob ==
  /\ phase = "globals" /\ lf <= Len(llfiles)
  /\ tab' = FoldLeft(ReadGlobal, FoldLeft(ReadRecord, tab, ucode.records), ucode.globals)
  /\ llfiles' = FoldLeft(alsolink, llfiles, ucode.links)
  /\ strinv' = (strinv \/ All \in ucode.invocable)
  /\ invkls' = invkls \cup (ucode.invocable \ {All})
  /\ lf' = lf + 1
  /\ UNCHANGED <<program, phase, lstatics, code, image>>

GlobalsRead ==
  /\ phase = "globals" /\ lf > Len(llfiles)
  /\ phase' = IF strinv THEN "code" ELSE "references"
  /\ lf' = 1
  /\ UNCHANGED <<program, llfiles, strinv, invkls, tab, lstatics, code, image>>

-----------------------------------------------------------------------------
(***************************************************************************)
(* The table of locals, which is built twice for a procedure: for its      *)
(* references, and for its code.                                           *)
(***************************************************************************)
locinit(t, statics) ==
  [tab |-> t, lltable |-> <<>>, argoff |-> 0, dynoff |-> 0, lstatics |-> statics]

Local(s, flag, val) == [s EXCEPT !.lltable = Append(@, [flag |-> flag, val |-> val])]

Undeclared(s, id) ==
  IF id \in s.tab.lghash THEN Local(s, {"Global"}, id)
  ELSE IF id \in Builtin
       THEN [Local(s, {"Builtin", "Global"}, id) EXCEPT
               !.tab = putglobal(@, id, {"Builtin", "Proc"}, -1, 0)]
       ELSE [Local(s, {"Dynamic"}, s.dynoff + 1) EXCEPT !.dynoff = @ + 1]

putlocal(s, l) ==
  CASE l.flag = {} -> Undeclared(s, l.name)
    [] "Argument" \in l.flag -> [Local(s, l.flag, s.argoff + 1) EXCEPT !.argoff = @ + 1]
    [] "Dynamic" \in l.flag -> [Local(s, l.flag, s.dynoff + 1) EXCEPT !.dynoff = @ + 1]
    [] "Static" \in l.flag -> [Local(s, l.flag, s.lstatics + 1) EXCEPT !.lstatics = @ + 1]

Locals(p, t, statics) == FoldLeft(putlocal, locinit(t, statics), p.locals)

Vars(p) == {p.code[i].arg : i \in {j \in DOMAIN p.code : p.code[j].op = "var"}}

-----------------------------------------------------------------------------
(***************************************************************************)
(* Phase II, unless "invocable all": the globals that each procedure       *)
(* refers to, what can be reached from main and from the invocable names,  *)
(* and new numbers for that.                                               *)
(***************************************************************************)
ScanProc(s, p) ==
  LET l == Locals(p, s.tab, s.lstatics)
      refs == {l.lltable[k].val : k \in {v \in Vars(p) : "Global" \in l.lltable[v].flag}}
  IN [tab |-> IF refs = {} THEN l.tab ELSE [l.tab EXCEPT !.g[p.name].refs = refs],
      lstatics |-> l.lstatics]

scanfile ==
  /\ phase = "references" /\ lf <= Len(llfiles)
  /\ LET s == FoldLeft(ScanProc, [tab |-> tab, lstatics |-> lstatics], ucode.procs)
     IN tab' = s.tab /\ lstatics' = s.lstatics
  /\ lf' = lf + 1
  /\ UNCHANGED <<program, phase, llfiles, strinv, invkls, code, image>>

\* The globals whose F_Unref flag reference clears, when called on each of roots.
reference(t, roots) ==
  LET From[marked \in SUBSET Name] ==
        LET more == marked \cup UNION {t.g[n].refs : n \in marked}
        IN IF more = marked THEN marked ELSE From[more]
  IN From[roots]

\* Globals that a program may name: main, and what is invocable.
Roots(t) == {Head(t.lgfirst)} \cup (invkls \cap t.lghash)

\* A slip: globals keep their numbers when others are discarded.
NewIndex_Old(t, list, n) == t.g[n].index

\* The place in the new list of globals.
NewIndex(t, list, n) == IF n \in ToSet(list) THEN (CHOOSE i \in DOMAIN list : list[i] = n) - 1 ELSE -1

\* Rebuild the list of globals, and renumber them and the records.
KeepGlobals(t, kept) ==
  LET list == SelectSeq(t.lgfirst, LAMBDA n : n \in kept)
      records == SelectSeq(list, LAMBDA n : "Record" \in t.g[n].flag)
  IN [t EXCEPT
        !.lgfirst = list,
        !.lghash = kept,
        !.nrecords = Len(records),
        !.g = [n \in Name |->
                 [t.g[n] EXCEPT
                    !.refs = {},
                    !.index = NewIndex(t, list, n),
                    !.procid = IF n \notin kept THEN -1
                               ELSE IF "Record" \in t.g[n].flag THEN NewIndex(t, records, n) + 1 ELSE @]]]

\* Rebuild the list of fields, and renumber them.
KeepFields(t) ==
  LET list == SelectSeq(t.lffirst, LAMBDA f : \E i \in DOMAIN f.rlist : t.g[f.rlist[i].gp].procid > 0)
  IN [t EXCEPT !.lffirst = [i \in DOMAIN list |-> [list[i] EXCEPT !.fid = i]]]

discard ==
  /\ phase = "references" /\ lf > Len(llfiles)
  /\ tab' = KeepFields(KeepGlobals(tab, reference(tab, Roots(tab))))
  /\ lstatics' = 0
  /\ phase' = "code" /\ lf' = 1
  /\ UNCHANGED <<program, llfiles, strinv, invkls, code, image>>

-----------------------------------------------------------------------------
(***************************************************************************)
(* Phase III: code, and tables.                                            *)
(***************************************************************************)
VarInstruction(t, l) ==
  CASE "Global" \in l.flag -> [op |-> "Global", n |-> t.g[l.val].index]
    [] "Static" \in l.flag -> [op |-> "Static", n |-> l.val - 1]
    [] "Argument" \in l.flag -> [op |-> "Arg", n |-> l.val - 1]
    [] OTHER -> [op |-> "Local", n |-> l.val - 1]

FieldInstruction(t, fname) ==
  [op |-> "Field",
   n |-> IF flocate(t, fname) = {} THEN -1
         ELSE t.lffirst[CHOOSE i \in flocate(t, fname) : TRUE].fid - 1]

\* A procedure that is not in the table of globals is skipped.
GenProc(s, p) ==
  IF p.name \notin s.tab.lghash THEN s
  ELSE LET l == Locals(p, s.tab, s.lstatics)
           Instruction(i) == IF i.op = "var" THEN VarInstruction(l.tab, l.lltable[i.arg])
                                             ELSE FieldInstruction(l.tab, i.arg)
       IN [tab |-> [l.tab EXCEPT !.g[p.name].pc = Len(s.code) + 1],
           lstatics |-> l.lstatics,
           code |-> Append(s.code,
                      [name |-> p.name, ndyn |-> l.dynoff, nstat |-> l.lstatics - s.lstatics,
                       fstat |-> s.lstatics,
                       code |-> [i \in DOMAIN p.code |-> Instruction(p.code[i])]])]

gencode ==
  /\ phase = "code" /\ lf <= Len(llfiles)
  /\ LET s == FoldLeft(GenProc, [tab |-> tab, lstatics |-> lstatics, code |-> code], ucode.procs)
     IN tab' = s.tab /\ lstatics' = s.lstatics /\ code' = s.code
  /\ lf' = lf + 1
  /\ UNCHANGED <<program, phase, llfiles, strinv, invkls, image>>

\* The names of field i of a record: none, or several, end the program.
FieldNames(t, gp, i) ==
  {f.name : f \in {h \in ToSet(t.lffirst) : \E r \in ToSet(h.rlist) : r.gp = gp /\ r.fnum = i}}

\* Unreferenced constructors at the head of a record list are passed over.
Referenced(t, rlist) ==
  LET here == {i \in DOMAIN rlist : t.g[rlist[i].gp].procid >= 0}
  IN IF here = {} THEN <<>> ELSE SubSeq(rlist, Min(here), Len(rlist))

\* A field's row of the table, made in one pass over its record list.
FieldRow(t, f) ==
  LET Column(s, i) ==
        LET rest == Referenced(t, s.rest)
        IN IF rest # <<>> /\ t.g[Head(rest).gp].procid = i
           THEN [row |-> Append(s.row, Head(rest).fnum), rest |-> Tail(rest)]
           ELSE [row |-> Append(s.row, -1), rest |-> rest]
  IN FoldLeft(Column, [row |-> <<>>, rest |-> f.rlist], [i \in 1..t.nrecords |-> i]).row

Constructors(t) == SelectSeq(t.lgfirst, LAMBDA n : "Record" \in t.g[n].flag /\ t.g[n].procid > 0)

GlobalValue(t, n) ==
  CASE "Builtin" \in t.g[n].flag -> [type |-> "builtin", at |-> 0]
    [] "Proc" \in t.g[n].flag -> [type |-> "procedure", at |-> t.g[n].pc]
    [] "Record" \in t.g[n].flag ->
         [type |-> "record", at |-> CHOOSE i \in DOMAIN Constructors(t) : Constructors(t)[i] = n]
    [] OTHER -> [type |-> "null", at |-> 0]

NoImage == [records |-> <<>>, nrecords |-> 0, ftab |-> <<>>, gnames |-> <<>>, globals |-> <<>>, statics |-> 0]

gentables ==
  /\ phase = "code" /\ lf > Len(llfiles)
  /\ image' =
       [records |-> [i \in DOMAIN Constructors(tab) |->
                       LET n == Constructors(tab)[i] IN
                       [name |-> n, recnum |-> tab.g[n].procid,
                        fields |-> [k \in 1..tab.g[n].nargs |-> FieldNames(tab, n, k - 1)]]],
        nrecords |-> tab.nrecords,
        ftab |-> FlattenSeq([i \in DOMAIN tab.lffirst |-> FieldRow(tab, tab.lffirst[i])]),
        gnames |-> tab.lgfirst,
        globals |-> [i \in DOMAIN tab.lgfirst |-> GlobalValue(tab, tab.lgfirst[i])],
        statics |-> lstatics]
  /\ phase' = "done"
  /\ UNCHANGED <<program, lf, llfiles, strinv, invkls, tab, lstatics, code>>

-----------------------------------------------------------------------------
\* linit makes main the first global; the command line begins llfiles.
Init ==
  /\ program \in Program
  /\ phase = "globals" /\ lf = 1
  /\ llfiles = FoldLeft(alsolink, <<>>, program.args)
  /\ strinv = FALSE /\ invkls = {}
  /\ tab = putglobal(NoTables, Main, {"Global"}, 0, 0)
  /\ lstatics = 0 /\ code = <<>> /\ image = NoImage

Next == readglob \/ GlobalsRead \/ scanfile \/ discard \/ gencode \/ gentables

Spec == Init /\ [][Next]_vars

-----------------------------------------------------------------------------
(***************************************************************************)
(* What a program means, from its declarations.                            *)
(***************************************************************************)
\* The files of the command line, and what they link, each once.
FilesLinked ==
  LET Ucode(i) == program.ucode[llfiles[i]]
  IN /\ IsInjective(llfiles)
     /\ ToSet(program.args) \subseteq ToSet(llfiles)
     /\ \A i \in DOMAIN llfiles : ToSet(Ucode(i).links) \subseteq ToSet(llfiles)
     /\ \A i \in DOMAIN llfiles :
          \/ llfiles[i] \in ToSet(program.args)
          \/ \E j \in 1..i - 1 : llfiles[i] \in ToSet(Ucode(j).links)

InFiles(Part(_)) == UNION {ToSet(Part(program.ucode[f])) : f \in ToSet(llfiles)}

RecordsDeclared == InFiles(LAMBDA u : u.records)
Procedures == InFiles(LAMBDA u : u.procs)
Declared == {d.name : d \in InFiles(LAMBDA u : u.globals)}

\* No name has two definitions, as record or as procedure.
Consistent ==
  \A n \in Name :
    Cardinality({f \in ToSet(llfiles) : \E r \in ToSet(program.ucode[f].records) : r.name = n})
    + Cardinality({f \in ToSet(llfiles) : \E p \in ToSet(program.ucode[f].procs) : p.name = n}) <= 1

\* What a global is, found at position i of the tables.
IsGlobal(i, n) ==
  /\ i \in DOMAIN image.gnames /\ image.gnames[i] = n
  /\ LET v == image.globals[i] IN
     CASE \E r \in RecordsDeclared : r.name = n -> v.type = "record" /\ image.records[v.at].name = n
       [] \E p \in Procedures : p.name = n -> v.type = "procedure" /\ code[v.at].name = n
       [] n \in Declared \cup {Main} -> v.type = "null"
       [] OTHER -> v.type = "builtin"

\* The globals that code of p names.
Names(p) ==
  {p.locals[k].name : k \in {v \in Vars(p) : p.locals[v].flag = {}}}
  \cap (Declared \cup Builtin \cup {Main})

Body(block) == CHOOSE p \in Procedures : p.name = block.name

\* An instruction for variable k of a procedure is the one its declaration asks for.
Denotes(block, i, l) ==
  CASE l.name \in Names(Body(block)) /\ l.flag = {} -> i.op = "Global" /\ IsGlobal(i.n + 1, l.name)
    [] "Static" \in l.flag -> i.op = "Static" /\ i.n \in block.fstat..block.fstat + block.nstat - 1
    [] "Argument" \in l.flag -> i.op = "Arg"
    [] OTHER -> i.op = "Local" /\ i.n \in 0..block.ndyn - 1

Linked == phase = "done" /\ tab.fatals = 0

\* Every instruction that refers to a variable refers to the one its
\* procedure declares, by its position in the final tables, whatever was
\* discarded and renumbered in between; different variables have different
\* positions, also the statics of different procedures; and a program
\* without inconsistent declarations links (putlocal, gencode, gentables).
Resolved ==
  phase = "done" =>
    /\ FilesLinked
    /\ Consistent <=> tab.fatals = 0
    /\ Consistent =>
         /\ \A b \in DOMAIN code :
              LET p == Body(code[b]) IN
              \A i, j \in {k \in DOMAIN p.code : p.code[k].op = "var"} :
                /\ Denotes(code[b], code[b].code[i], p.locals[p.code[i].arg])
                /\ code[b].code[i] = code[b].code[j] => p.code[i] = p.code[j]
         /\ \A b, c \in DOMAIN code :
              /\ b < c => code[b].fstat + code[b].nstat <= code[c].fstat
              /\ code[b].fstat + code[b].nstat <= image.statics

\* Phase II keeps a global if, and only if, main or an invocable name leads
\* to it through the code of procedures (scanfile, reference); "invocable
\* all" keeps everything.
KeptReachable ==
  Linked =>
    LET kept == ToSet(image.gnames)
        From(n) == UNION {Names(p) : p \in {q \in Procedures : q.name = n}}
        roots == {Main} \cup (invkls \cap (Declared \cup UNION {Names(p) : p \in Procedures}))
        Closed(S) == roots \subseteq S /\ \A n \in S : From(n) \subseteq S
    IN /\ IsInjective(image.gnames)
       /\ image.gnames[1] = Main
       /\ {code[b].name : b \in DOMAIN code} = {p.name : p \in Procedures} \cap kept
       /\ IF strinv THEN Declared \subseteq kept
          ELSE Closed(kept) /\ \A S \in SUBSET kept : Closed(S) => S = kept

\* x.y, as the interpreter finds it for a record made by constructor r
\* (field, in imisc.r): the position of the field, or -1 if it has none.
FieldOf(r, n) == IF n = -1 THEN -1 ELSE image.ftab[n * image.nrecords + r.recnum]

Fields(r) == (CHOOSE d \in RecordsDeclared : d.name = r.name).fields

Found(r, fname, n) ==
  LET fields == Fields(r) IN
  IF fname \in ToSet(fields) THEN FieldOf(r, n) + 1 \in DOMAIN fields /\ fields[FieldOf(r, n) + 1] = fname
                             ELSE FieldOf(r, n) = -1

\* Every x.y finds field y in every record x that has it, and no field in
\* a record that has not ("keep record list ascending", putfield; "Also
\* renumber all record constructors", scanrefs).
FieldsFound ==
  Linked =>
    \A b \in DOMAIN code, r \in ToSet(image.records) :
      LET p == Body(code[b]) IN
      \A i \in DOMAIN p.code :
        p.code[i].op = "field" => Found(r, p.code[i].arg, code[b].code[i].n)

\* The records that were kept are numbered in the order of their
\* declarations: so it is unless a global declaration came before one.
InOrder ==
  \A i, j \in DOMAIN tab.lffirst :
    LET rl == tab.lffirst[i].rlist IN
    \A k, l \in DOMAIN rl :
      k < l /\ {tab.g[rl[k].gp].procid, tab.g[rl[l].gp].procid} \subseteq Nat
        => tab.g[rl[k].gp].procid < tab.g[rl[l].gp].procid

\* The same, of programs whose records stay in order; and every record
\* that is kept has a number of its own and the names of its fields.
FieldsFoundInOrder ==
  Linked =>
    /\ \A i \in DOMAIN image.records :
         LET r == image.records[i] IN
         r.fields = [k \in DOMAIN Fields(r) |-> {Fields(r)[k]}]
    /\ {r.recnum : r \in ToSet(image.records)} = 1..image.nrecords
    /\ Len(image.records) = image.nrecords
    /\ InOrder => FieldsFound

\* What the linker makes of the tables: code, globals, records and fields.
LinkedRightly == Resolved /\ KeptReachable /\ FieldsFoundInOrder
=============================================================================
