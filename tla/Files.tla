------------------------------- MODULE Files -------------------------------
(***************************************************************************)
(* Files: open, close, read, reads, write, writes, stop, seek, where,      *)
(* flush, remove and rename of runtime/fsys.r, getstrg, longread and       *)
(* putstr of rsys.r, and !f of oref.r, which is suspended between lines.   *)
(* Windows, which share these functions, are left out.                     *)
(*                                                                         *)
(* A file value has a status, a set of flags, and the address of a FILE,   *)
(* which the C library may give to another file once it is closed.  What   *)
(* is written goes to the buffer of the FILE and from there to the disk,   *)
(* which may be full.  A directory is a FILE whose characters are its      *)
(* entries.  The C library is GNU's: what a FILE's buffer holds is written *)
(* before its next read, although read calls fseek only after Fs_Writing.  *)
(* The pipes are to commands that there are; what a shell does with        *)
(* another name is left out.                                               *)
(***************************************************************************)
EXTENDS Integers, FiniteSets, SequencesExt

CONSTANTS
  File,          \* file values that open makes, besides the standard ones
  FILE,          \* addresses that the C library gives
  Name, Directory, Command,   \* of files, directories and programs
  Start,         \* contents to begin with, by name
  Absent,        \* there is no such file
  Spec2,         \* second arguments of open
  Argument,      \* lists of arguments of write, writes and stop
  MaxReadStr,    \* length of pieces in which read reads,
  MaxCvtLen,     \* !f does
  MaxIn,         \* and reads does
  Size,          \* characters that a file may have
  Amount, Offset, \* second arguments of reads and seek
  MaxOps         \* bound: operations of a program

Standard == {"&input", "&output", "&errout"}
Names == Name \cup Directory \cup Command \cup Standard

FilesAssumption ==
  /\ MaxReadStr \in Nat \ {0} /\ MaxCvtLen \in Nat \ {0} /\ MaxIn \in Nat \ {0}
  /\ \A start \in Start : DOMAIN start = Names

VARIABLES
  disk,     \* contents by name
  stream,   \* the FILEs
  file,     \* the file values
  bang,     \* !f that is suspended: its file, if any, and status
  last,     \* the last operation: what it was and what came of it
  exited,
  ops

vars == <<disk, stream, file, bang, last, exited, ops>>

Free == [name |-> Absent]
Fs(f) == file[f].status
IsOpen(f) == Fs(f) \cap {"Read", "Write"} # {}

Fails == [outcome |-> "fails"]
Gives(v) == [outcome |-> "gives", value |-> v]
Line(s) == [outcome |-> "line", s |-> s]
runerr(n) == [outcome |-> "error", number |-> n]

-----------------------------------------------------------------------------
(* The C library.  w has the disk and the FILEs.                           *)
World == [disk |-> disk, stream |-> stream]
Length(w, h) == Len(w.disk[w.stream[h].name])

\* s is written over t from position pos; what is between is filled.
Overwritten(t, s, pos) ==
  [k \in 1..IF s = <<>> THEN Len(t) ELSE Max({Len(t), pos + Len(s) - 1}) |->
     IF k >= pos /\ k < pos + Len(s) THEN s[k - pos + 1]
     ELSE IF k <= Len(t) THEN t[k] ELSE "0"]

\* fflush: what there is no room for is lost, and an error is remembered.
fflush(w, h) ==
  LET s == w.stream[h]
      at == IF s.append THEN Length(w, h) + 1 ELSE s.pos
      new == Overwritten(w.disk[s.name], s.buf, at)
  IN IF s.buf = <<>> THEN w
     ELSE [disk |-> [w.disk EXCEPT ![s.name] = SubSeq(new, 1, Min({Len(new), Size}))],
           stream |-> [w.stream EXCEPT ![h].buf = <<>>, ![h].pos = at + Len(s.buf),
                                       ![h].err = @ \/ Len(new) > Size]]

fwrite(w, h, s) == [w EXCEPT !.stream[h].buf = @ \o s]

\* The characters from the position on.
Ahead(w, h) == SubSeq(w.disk[w.stream[h].name], w.stream[h].pos, Length(w, h))
Consume(w, h, n) == [w EXCEPT !.stream[h].pos = @ + n]

Become(w) == disk' = w.disk /\ stream' = w.stream

-----------------------------------------------------------------------------
(* Reading.                                                                *)

\* Slip: the character after \r is not put back.
getstrg_NoUngetc(w, h, maxi, status) ==
  LET s == Ahead(w, h)
      ends == {k \in DOMAIN s : s[k] = "\n" \/ (s[k] = "\r" /\ "Untrans" \notin status)}
      l == IF ends = {} THEN Len(s) ELSE Min(ends) - 1
      skip == IF ends = {} THEN 0
              ELSE IF s[Min(ends)] = "\r" /\ Min(ends) < Len(s) THEN 2 ELSE 1
  IN CASE l > maxi -> [w |-> Consume(w, h, maxi), s |-> SubSeq(s, 1, maxi), len |-> -2]
       [] s = <<>> -> [w |-> w, s |-> <<>>, len |-> -1]
       [] OTHER -> [w |-> Consume(w, h, l + skip), s |-> SubSeq(s, 1, l), len |-> l]

getstrg(w, h, maxi, status) ==
  LET s == Ahead(w, h)
      ends == {k \in DOMAIN s : s[k] = "\n" \/ (s[k] = "\r" /\ "Untrans" \notin status)}
      l == IF ends = {} THEN Len(s) ELSE Min(ends) - 1
      skip == IF ends = {} THEN 0
              ELSE IF s[Min(ends)] = "\r" /\ Min(ends) < Len(s) /\ s[Min(ends) + 1] = "\n"
              THEN 2 ELSE 1
  IN CASE l > maxi -> [w |-> Consume(w, h, maxi), s |-> SubSeq(s, 1, maxi), len |-> -2]
       [] s = <<>> -> [w |-> w, s |-> <<>>, len |-> -1]
       [] OTHER -> [w |-> Consume(w, h, l + skip), s |-> SubSeq(s, 1, l), len |-> l]

\* The loop that puts the pieces of a line together.
RECURSIVE Pieces(_, _, _, _, _)
Pieces(w, h, maxi, status, s) ==
  LET piece == getstrg(w, h, maxi, status)
  IN CASE piece.len = -1 -> [w |-> piece.w, how |-> Fails]
       [] piece.len = -2 -> Pieces(piece.w, h, maxi, status, s \o piece.s)
       [] OTHER -> [w |-> piece.w, how |-> Line(s \o piece.s)]

Entry(w, h) ==
  IF Ahead(w, h) = <<>> THEN [w |-> w, how |-> Fails]
  ELSE [w |-> Consume(w, h, 1), how |-> Line(Ahead(w, h)[1])]

\* A line, of a FILE that may have been closed.
Get(h, maxi, status) ==
  IF stream[h] = Free THEN [w |-> World, how |-> [outcome |-> "wild"]]
  ELSE IF "Directory" \in status THEN Entry(World, h)
  ELSE Pieces(fflush(World, h), h, maxi, status, <<>>)

RECURSIVE longread(_, _, _, _)
longread(w, h, len, s) ==
  LET n == Min({len, MaxIn, Len(Ahead(w, h))})
  IN IF n = 0 THEN [w |-> w, s |-> s]
     ELSE longread(Consume(w, h, n), h, len - n, s \o SubSeq(Ahead(w, h), 1, n))

-----------------------------------------------------------------------------
(* Writing.  The arguments up to the first error; f is the current FILE.   *)

\* The end of a line, and of output to a file.
Newline(t, nl) == IF nl THEN [t EXCEPT !.w = fwrite(@, t.f, <<"\n">>)] ELSE t
Flush(t) ==
  IF t.w.stream[t.f].err THEN [t EXCEPT !.error = runerr(214)]
  ELSE [t EXCEPT !.w = fflush(@, t.f)]

putstr(t, s) == [t EXCEPT !.w = fwrite(@, t.f, s)]

GenWrite(args, default, nl) ==
  LET Switch(t, f) == IF "Write" \notin Fs(f) THEN [t EXCEPT !.error = runerr(213)]
                      ELSE [t EXCEPT !.f = file[f].fd]
      One(t, n) ==
        LET x == args[n]
            done == IF x.type = "file" /\ n > 1 /\ nl THEN Flush(Newline(t, nl)) ELSE t
        IN IF t.error # Fails THEN t
           ELSE CASE x.type = "file" /\ done.error # Fails -> done
                  [] x.type = "file" /\ done.error = Fails -> Switch(done, x.f)
                  [] x.type = "string" -> putstr(t, x.s)
                  [] OTHER -> [t EXCEPT !.error = runerr(109)]
      begin == [w |-> World, f |-> file[default].fd, error |-> Fails]
      all == FoldLeft(One, begin, [n \in DOMAIN args |-> n])
  IN IF (args = <<>> \/ args[1].type # "file") /\ "Write" \notin Fs(default)
     THEN [begin EXCEPT !.error = runerr(213)]
     ELSE IF all.error # Fails THEN all ELSE Flush(Newline(all, nl))

-----------------------------------------------------------------------------
(* The functions.                                                          *)

Init ==
  /\ disk \in Start
  /\ stream = [h \in FILE \cup Standard |->
                 IF h \in FILE THEN Free
                 ELSE [name |-> h, pos |-> 1, buf |-> <<>>, err |-> FALSE, append |-> FALSE]]
  /\ file = [f \in File \cup Standard |->
               IF f \in File THEN [status |-> {}, fd |-> Absent, fname |-> Absent]
               ELSE [status |-> IF f = "&input" THEN {"Read"} ELSE {"Write"}, fd |-> f, fname |-> f]]
  /\ bang = [f |-> Absent]
  /\ last = [op |-> "start"]
  /\ exited = FALSE /\ ops = 0

Operation == ~exited /\ ops < MaxOps /\ ops' = ops + 1
Did(op, x, how) == last' = [op |-> op, x |-> x, how |-> how]

Status(spec) ==
  LET Letter(t, c) ==
        CASE c = "a" -> t \cup {"Write", "Append"}
          [] c = "b" -> t \cup {"Read", "Write"}
          [] c = "c" -> t \cup {"Create", "Write"}
          [] c = "r" -> t \cup {"Read"}
          [] c = "w" -> t \cup {"Write"}
          [] c = "t" -> t \ {"Untrans"}
          [] c = "u" -> t \cup {"Untrans"}
          [] c = "p" -> t \cup {"Pipe"}
      all == FoldLeft(Letter, {}, spec)
  IN IF all \cap {"Read", "Write"} = {} THEN all \cup {"Read"} ELSE all

\* fopen, popen and opendir.  popen starts a shell, whatever the command is.
Mode(status) ==
  CASE "Create" \in status -> "w"
    [] "Create" \notin status /\ "Append" \in status -> "a"
    [] {"Create", "Append"} \cap status = {} /\ "Read" \in status -> "r"
    [] OTHER -> "w"
CanOpen(n, status) ==
  CASE "Pipe" \in status -> TRUE
    [] n \in Directory -> "Write" \notin status
    [] OTHER -> n \in Name /\ (Mode(status) # "r" \/ disk[n] # Absent)

open(f, n, spec) ==
  LET status == Status(spec) \cup IF n \in Directory /\ "Write" \notin Status(spec)
                                     /\ "Pipe" \notin Status(spec)
                                  THEN {"Directory"} ELSE {}
      t == IF (Mode(status) = "w" /\ n \in Name) \/ disk[n] = Absent THEN <<>> ELSE disk[n]
      only == status \ {"Pipe", "Untrans"}
  IN /\ Operation
     /\ file[f].fd = Absent
     /\ IF \E k \in DOMAIN spec : spec[k] \notin {"a", "b", "c", "r", "w", "t", "u", "p"}
        THEN Did("open", f, runerr(209)) /\ UNCHANGED <<disk, stream, file>>
        ELSE IF "Pipe" \in status /\ only \notin {{"Read"}, {"Write"}}
        THEN Did("open", f, runerr(209)) /\ UNCHANGED <<disk, stream, file>>
        ELSE IF ~CanOpen(n, status)
        THEN Did("open", f, Fails) /\ UNCHANGED <<disk, stream, file>>
        ELSE \E h \in FILE :
               /\ stream[h] = Free
               /\ disk' = [disk EXCEPT ![n] = t]
               /\ stream' = [stream EXCEPT ![h] =
                               [name |-> n, buf |-> <<>>, err |-> FALSE,
                                append |-> "Append" \in status /\ Mode(status) = "a",
                                pos |-> IF Mode(status) = "a" /\ "Read" \notin status
                                        THEN Len(t) + 1 ELSE 1]]
               /\ file' = [file EXCEPT ![f] = [status |-> status, fd |-> h, fname |-> n]]
               /\ Did("open", f, Gives(f))
     /\ UNCHANGED <<bang, exited>>

\* fclose and pclose write the buffer.
close(f) ==
  /\ Operation
  /\ IF ~IsOpen(f) THEN Did("close", f, Gives(f)) /\ UNCHANGED <<disk, stream, file>>
     ELSE /\ Become([fflush(World, file[f].fd) EXCEPT !.stream[file[f].fd] = Free])
          /\ file' = [file EXCEPT ![f].status = {}]
          /\ Did("close", f, Gives(IF "Pipe" \in Fs(f) THEN 0 ELSE f))
  /\ UNCHANGED <<bang, exited>>

Reads2(op, f, i, got) ==
  /\ Operation
  /\ IF "Read" \notin Fs(f) THEN Did(op, f, runerr(212)) /\ UNCHANGED <<disk, stream, file>>
     ELSE /\ file' = [file EXCEPT ![f].status = @ \cup {"Reading"}]
          /\ IF i <= 0 THEN Did(op, f, runerr(205)) /\ UNCHANGED <<disk, stream>>
             ELSE Become(got.w) /\ Did(op, f, got.how)
  /\ UNCHANGED <<bang, exited>>

read(f) == Reads2("read", f, 1, Get(file[f].fd, MaxReadStr, Fs(f)))

reads(f, i) ==
  LET h == file[f].fd
      some == longread(fflush(World, h), h, i, <<>>)
      entry == Entry(World, h)
  IN Reads2("reads", f, i,
       IF "Directory" \in Fs(f)
       THEN IF entry.how = Fails THEN entry
            ELSE [entry EXCEPT !.how.s = SubSeq(@, 1, Min({i, Len(@)}))]
       ELSE IF some.s = <<>> THEN [w |-> some.w, how |-> Fails]
       ELSE [w |-> some.w, how |-> Line(some.s)])

\* !f
Bang(f) ==
  /\ Operation
  /\ bang.f = Absent
  /\ IF "Read" \notin Fs(f)
     THEN Did("!", f, runerr(212)) /\ UNCHANGED <<disk, stream, file, bang>>
     ELSE LET got == Get(file[f].fd, MaxCvtLen, Fs(f))
          IN /\ Become(got.w)
             /\ file' = [file EXCEPT ![f].status =
                           IF "Directory" \in @ THEN @ ELSE @ \cup {"Reading"}]
             /\ bang' = IF got.how = Fails THEN bang ELSE [f |-> f, directory |-> "Directory" \in Fs(f)]
             /\ Did("!", f, got.how)
  /\ UNCHANGED exited

\* The loop does not look at the status again; getstrg does for Untrans.
Resume ==
  /\ Operation
  /\ bang.f # Absent
  /\ LET f == bang.f
         h == file[f].fd
         got == Get(h, MaxCvtLen, IF bang.directory THEN {"Directory"} ELSE Fs(f) \ {"Directory"})
     IN /\ Become(got.w)
        /\ bang' = IF got.how.outcome = "line" THEN bang ELSE [f |-> Absent]
        /\ Did("!", f, got.how)
  /\ UNCHANGED <<file, exited>>

Write(op, args, default, nl) ==
  LET t == GenWrite(args, default, nl)
      exits == op = "stop" /\ t.error = Fails
  IN /\ Operation
     /\ Become(IF exits THEN FoldLeft(fflush, t.w, SetToSeq({h \in DOMAIN stream : stream[h] # Free}))
               ELSE t.w)
     /\ Did(op, args, IF t.error = Fails THEN Gives(TRUE) ELSE t.error)
     /\ exited' = exits
     /\ UNCHANGED <<file, bang>>

\* An offset counts from the beginning or from the end.
seek(f, o) ==
  LET h == file[f].fd
      w == fflush(World, h)
      to == IF o > 0 THEN o ELSE Length(w, h) + o + 1
  IN /\ Operation
     /\ IF Fs(f) = {} \/ Fs(f) \cap {"Directory", "Pipe"} # {} \/ stream[h].name \in Standard
        THEN Did("seek", f, Fails) /\ UNCHANGED <<disk, stream, file>>
        ELSE IF to < 1 THEN Become(w) /\ Did("seek", f, Fails) /\ UNCHANGED file
        ELSE /\ Become([w EXCEPT !.stream[h].pos = to])
             /\ file' = [file EXCEPT ![f].status = @ \ {"Reading", "Writing"}]
             /\ Did("seek", f, Gives(f))
     /\ UNCHANGED <<bang, exited>>

where(f) ==
  /\ Operation
  /\ IF Fs(f) = {} \/ Fs(f) \cap {"Directory", "Pipe"} # {} \/ stream[file[f].fd].name \in Standard
     THEN Did("where", f, Fails)
     ELSE Did("where", f, Gives(stream[file[f].fd].pos + Len(stream[file[f].fd].buf)))
  /\ UNCHANGED <<disk, stream, file, bang, exited>>

flush(f) ==
  /\ Operation
  /\ IF ~IsOpen(f) \/ "Directory" \in Fs(f) THEN UNCHANGED <<disk, stream>>
     ELSE Become(fflush(World, file[f].fd))
  /\ Did("flush", f, Gives(f))
  /\ UNCHANGED <<file, bang, exited>>

\* Of a file that is not open.
InUse(n) == \E h \in FILE : stream[h].name = n
remove(n) ==
  /\ Operation
  /\ n \in Name /\ ~InUse(n)
  /\ disk' = [disk EXCEPT ![n] = Absent]
  /\ Did("remove", n, IF disk[n] = Absent THEN Fails ELSE Gives(n))
  /\ UNCHANGED <<stream, file, bang, exited>>

rename(n, m) ==
  /\ Operation
  /\ n # m /\ {n, m} \subseteq Name /\ ~InUse(n) /\ ~InUse(m)
  /\ disk' = IF disk[n] = Absent THEN disk ELSE [disk EXCEPT ![m] = disk[n], ![n] = Absent]
  /\ Did("rename", n, IF disk[n] = Absent THEN Fails ELSE Gives(n))
  /\ UNCHANGED <<stream, file, bang, exited>>

Next ==
  \/ \E f \in File, n \in Names \ Standard, spec \in Spec2 :
       ("p" \in ToSet(spec) => n \in Command) /\ open(f, n, spec)
  \/ \E f \in File \cup Standard : close(f) \/ read(f) \/ Bang(f) \/ where(f) \/ flush(f)
  \/ \E f \in File \cup Standard, i \in Amount : reads(f, i)
  \/ \E f \in File, o \in Offset : seek(f, o)
  \/ Resume
  \/ \E args \in Argument :
       \/ Write("write", args, "&output", TRUE)
       \/ Write("writes", args, "&output", FALSE)
       \/ Write("stop", args, "&errout", TRUE)
  \/ \E n, m \in Name : remove(n) \/ rename(n, m)

Spec == Init /\ [][Next]_vars

-----------------------------------------------------------------------------
(* Properties.                                                             *)

\* The contents of a file as its program sees it, and what is ahead.
Seen(h) ==
  LET s == stream[h]
      t == disk[s.name]
  IN Overwritten(t, s.buf, IF s.append THEN Len(t) + 1 ELSE s.pos)
AtPos(h) == SubSeq(Seen(h), stream[h].pos + Len(stream[h].buf), Len(Seen(h)))

\* The lines of a text: s ends before the terminator end.
LineEnds(untrans) == {<<"\n">>} \cup IF untrans THEN {} ELSE {<<"\r">>, <<"\r", "\n">>}
IsFirstLine(s, rest, t, untrans) ==
  /\ \A k \in DOMAIN s : <<s[k]>> \notin LineEnds(untrans)
  /\ \/ t = s /\ rest = <<>> /\ s # <<>>
     \/ \E end \in LineEnds(untrans) :
          /\ t = s \o end \o rest
          /\ end = <<"\r">> => ~IsPrefix(<<"\n">>, rest)

\* What write sends to f, a newline at the end of what goes to each file.
Current(args, n, default) ==
  LET files == {k \in 1..n : args[k].type = "file"}
  IN IF files = {} THEN default ELSE args[Max(files)].f
Sent(args, f, default, nl) ==
  LET Piece(n) ==
        IF n > Len(args) THEN IF nl /\ Current(args, n - 1, default) = f THEN <<"\n">> ELSE <<>>
        ELSE IF args[n].type = "string"
        THEN IF Current(args, n, default) = f THEN args[n].s ELSE <<>>
        ELSE IF args[n].type = "file" /\ n > 1 /\ nl /\ Current(args, n - 1, default) = f
        THEN <<"\n">> ELSE <<>>
  IN FlattenSeq([n \in 1..Len(args) + 1 |-> Piece(n)])

\* No other FILE writes this one.
Alone(h) == stream[h] # Free /\ \A g \in DOMAIN stream : g # h => stream[g].name # stream[h].name

ReadsRight(f) ==
  LET h == file[f].fd
      how == last'.how
  IN IsOpen(f) /\ "Directory" \notin Fs(f) /\ Alone(h) /\ ~stream[h].err =>
       CASE how = Fails -> AtPos(h) = <<>>
         [] how.outcome = "line" /\ last'.op = "reads" ->
              /\ how.s \o AtPos(h)' = AtPos(h)
              /\ Len(how.s) \in Amount \/ AtPos(h)' = <<>>
         [] how.outcome = "line" /\ last'.op # "reads" ->
              IsFirstLine(how.s, AtPos(h)', AtPos(h), "Untrans" \in Fs(f))
         [] OTHER -> how.outcome = "error"

WritesRight ==
  LET default == IF last'.op = "stop" THEN "&errout" ELSE "&output"
      nl == last'.op # "writes"
      After(h, s) == LET t == disk[stream[h].name]
                     IN Overwritten(t, stream[h].buf \o s,
                                    IF stream[h].append THEN Len(t) + 1 ELSE stream[h].pos)
  IN \A f \in DOMAIN file :
       LET h == file[f].fd
           sent == Sent(last'.x, f, default, nl)
       IN IsOpen(f) /\ Alone(h) /\ ~stream'[h].err =>
            \E k \in 0..Len(sent) :
              /\ Seen(h)' = After(h, SubSeq(sent, 1, k))
              /\ last'.how.outcome = "gives" => k = Len(sent)

ClosesRight(h) ==
  Alone(h) => disk'[stream[h].name] = SubSeq(Seen(h), 1, Min({Len(Seen(h)), Size}))

\* Nothing but close, remove and rename, and another open, changes the rest.
Kept ==
  last'.op \in {"where", "flush", "seek", "read", "!", "reads"} =>
    \A h \in FILE : Alone(h) /\ ~stream'[h].err => Seen(h)' = Seen(h)

(* Lines and characters are those that follow in the file, whatever pieces *)
(* they are read in and however operations on several files interleave; a  *)
(* write adds what is to go to each file, in order, or a beginning of it   *)
(* if it ends with an error; what is not yet on the disk is there when the *)
(* file is closed.                                                         *)
Transfers ==
  [][ /\ last'.op \in {"read", "reads", "!"} =>
           \A f \in DOMAIN file : f = last'.x => ReadsRight(f)
      /\ last'.op \in {"write", "writes", "stop"} => WritesRight
      /\ last'.op = "close" =>
           \A f \in DOMAIN file : f = last'.x /\ IsOpen(f) => ClosesRight(file[f].fd)
      /\ Kept ]_vars

(* "be sure that it is open for reading": what !f gives is from f.         *)
FromOwnFile ==
  [][last'.op = "!" /\ last'.how.outcome = "line" =>
       \A f \in DOMAIN file : f = last'.x => IsOpen(f)]_vars

(* "Flush the file." (Finish): a write that does not end with an error is  *)
(* on the disk.                                                            *)
ErrorsReported ==
  [][last'.op = "write" /\ last'.how.outcome = "gives" =>
       \A h \in FILE : stream'[h] # Free => ~stream'[h].err]_vars

(* Fs_Writing, "last file operation was write".                            *)
WritingMarked ==
  [][last'.op = "write" /\ last'.how.outcome = "gives" =>
       \A f \in File : [type |-> "file", f |-> f] \in ToSet(last'.x) => "Writing" \in Fs(f)']_vars
=============================================================================
