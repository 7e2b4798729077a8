------------------------------ MODULE PePatch ------------------------------
(***************************************************************************)
(* The programs that patch Soulstorm.exe on disk:                          *)
(*   redone    EnableLAA and InjectInjsec of "Redone/Overdrive exe.cpp",   *)
(*   console   PatchSoulstormExe of "ConsoleVersion.cpp",                  *)
(*   injector  PatchSoulstorm of "SoulStormPatcherInjector.cpp",           *)
(*   zero      ZeroPEChecksum of "ZeroPEChecksum.cpp".                     *)
(* Each reads the headers, changes its copy and writes the file piece by   *)
(* piece; a piece is what one seekp, or close, flushes.  The process may   *)
(* die between two pieces, and any of the programs may be run again.  A    *)
(* full disk makes the writes fail that would extend the file; the stream  *)
(* then ignores what follows, and no program looks at it.                  *)
(*                                                                         *)
(* The file is modelled by its headers, its import array, its length and   *)
(* the pieces the programs have written into the sections they add.  The   *)
(* game's own sections count as one.  One program runs at a time.          *)
(***************************************************************************)
EXTENDS Integers, Sequences, FiniteSets

CONSTANTS Tools,             \* the programs that are run
          FileAlignment, SectionAlignment,
          InjSize,           \* 0x3000
          Own,               \* header of the game's own sections
          Entry,             \* the game's own entry point, an RVA in Own
          OwnImports,        \* number of the game's own import descriptors
          HeaderRoom,        \* section headers that fit before the first section
          ImportRoom,        \* import descriptors that fit before other data
          MaxRuns            \* bound: runs of the programs

\* Mutant: the rounding goes down.
AlignDown(value, alignment)  == (value \div alignment) * alignment
AlignValue(value, alignment) == ((value + alignment - 1) \div alignment) * alignment

SectionHeaders == [va : Nat, vsize : Nat, raw : Nat, rawsize : Nat]

ASSUME ImageAssumption ==
  /\ {FileAlignment, SectionAlignment, InjSize, OwnImports} \subseteq Nat \ {0}
  /\ Own \in SectionHeaders
  /\ Own.va > 0 /\ Own.vsize > 0 /\ Own.raw > 0 /\ Own.rawsize > 0
  /\ Entry \in Own.va .. Own.va + Own.vsize - 1
  /\ {HeaderRoom, ImportRoom, MaxRuns} \subseteq Nat
  /\ InjSize > 3

VARIABLES disk,        \* Soulstorm.exe
          run,         \* the running program: where it is, its copies, its stream
          runs,        \* how many programs have been started
          shortRuns    \* ghost: the runs that stopped short, and why

vars == <<disk, run, runs, shortRuns>>

OwnNt(laa) == [laa |-> laa, nsec |-> 1, oep |-> Entry, tls |-> 0, debug |-> TRUE,
               size |-> AlignValue(Own.va + Own.vsize, SectionAlignment)]

Idle == [tool |-> "none", pc |-> "idle", nt |-> OwnNt(FALSE), inj |-> Own,
         imports |-> <<>>, bad |-> FALSE, missed |-> FALSE]

Init ==
  /\ \E fmt \in {"pe32", "no_imports", "other"}, laa \in BOOLEAN :
       disk = [fmt |-> fmt, nt |-> OwnNt(laa), table |-> <<Own>>,
               imports |-> [k \in 1 .. OwnImports |-> 0],
               data |-> {},
               eof |-> Own.raw + Own.rawsize,
               clobbered |-> FALSE]
  /\ run = Idle /\ runs = 0 /\ shortRuns = {}

-----------------------------------------------------------------------------
\* The pieces each program writes, in its order; "inject" is where redone
\* opens the file again.
\* Mutants: the entry point, or the TLS directory, is set too early.
HastyProgram == [
  redone   |-> <<"laa", "inject", "header", "blank">>,
  console  |-> <<"imports", "header", "impdata", "oep", "code", "zeros">>,
  injector |-> <<"header", "blank", "tls", "name", "callback", "array", "tlsdir">>,
  zero     |-> <<"nt">>]
Program == [
  redone   |-> <<"laa", "inject", "header", "blank">>,
  console  |-> <<"imports", "header", "impdata", "code", "zeros", "oep">>,
  injector |-> <<"header", "blank", "name", "callback", "array", "tlsdir", "tls">>,
  zero     |-> <<"nt">>]

ASSUME ToolsAssumption == Tools \subseteq DOMAIN Program

\* The place of the import data and of the code in the console's section.
CodeOffset == 2
CodeOf(section) == section.va + CodeOffset

Following(tool, pc) ==
  LET p == Program[tool]
      k == CHOOSE i \in DOMAIN p : p[i] = pc
  IN  IF k < Len(p) THEN p[k + 1] ELSE "done"

\* The section a program adds, behind the last one in the table it read.
NewSection ==
  LET last == disk.table[disk.nt.nsec] IN
  [va      |-> AlignValue(last.va + last.vsize, SectionAlignment), vsize |-> InjSize,
   raw     |-> AlignValue(last.raw + last.rawsize, FileAlignment),
   rawsize |-> AlignValue(InjSize, FileAlignment)]

\* Mutant: the image keeps its size.
WithSectionOnly(nt, s) == [nt EXCEPT !.nsec = @ + 1]
WithSection(nt, s) ==
  [nt EXCEPT !.nsec = @ + 1, !.size = s.va + AlignValue(s.vsize, SectionAlignment)]

Reading(tool, pc, nt, s, imports) ==
  [tool |-> tool, pc |-> pc, nt |-> nt, inj |-> s, imports |-> imports,
   bad |-> FALSE, missed |-> FALSE]

\* A program reads the file, checks it and prepares its copies of the headers.
EntryFound == \E i \in 1 .. disk.nt.nsec :
  LET s == disk.table[i] IN
  s.va <= disk.nt.oep /\ disk.nt.oep < s.va + AlignValue(s.vsize, SectionAlignment)

Accepts(tool) ==
  CASE tool = "console" -> disk.fmt = "pe32" /\ EntryFound
    [] OTHER            -> disk.fmt # "other"

Copy(tool) ==
  LET laa == [disk.nt EXCEPT !.laa = TRUE] IN
  CASE tool = "redone"   -> Reading(tool, "laa", laa, NewSection, <<>>)
    [] tool = "zero"     -> Reading(tool, "nt", [disk.nt EXCEPT !.debug = FALSE],
                                    NewSection, <<>>)
    [] tool = "injector" -> Reading(tool, Program[tool][1], WithSection(laa, NewSection),
                                    NewSection, <<>>)
    [] tool = "console"  -> Reading(tool, Program[tool][1], WithSection(laa, NewSection),
                                    NewSection, Append(disk.imports, NewSection.va))

Start(tool) ==
  /\ run.pc = "idle" /\ runs < MaxRuns
  /\ runs' = runs + 1
  /\ run' = IF Accepts(tool) THEN Copy(tool) ELSE Idle
  /\ UNCHANGED <<disk, shortRuns>>

\* InjectInjsec opens and reads the file again.
InjectInjsec ==
  /\ run.pc = "inject"
  /\ run' = Reading("redone", "header", WithSection(disk.nt, NewSection), NewSection, <<>>)
  /\ UNCHANGED <<disk, runs, shortRuns>>

-----------------------------------------------------------------------------
\* One piece reaches the file, or the disk is full, or the stream is bad already.
End(n) == run.inj.raw + n
Save(pc, d, end) ==
  /\ run.pc = pc
  /\ \/ /\ ~run.bad
        /\ disk' = [d EXCEPT !.eof = IF end > @ THEN end ELSE @]
        /\ run' = [run EXCEPT !.pc = Following(run.tool, pc)]
     \/ /\ run.bad \/ end > disk.eof
        /\ disk' = disk
        /\ run' = [run EXCEPT !.pc = Following(run.tool, pc), !.bad = TRUE, !.missed = TRUE]
  /\ UNCHANGED <<runs, shortRuns>>

\* The part `kind' of the new section; what it refers to is `ref'.
Part(kind, ref) == [raw |-> run.inj.raw, kind |-> kind, ref |-> ref]
Written(part)   == [disk EXCEPT !.data =
                      {p \in @ : p.raw # part.raw \/ p.kind # part.kind} \cup {part}]

\* IMAGE_NT_HEADERS32 alone: EnableLAA and ZeroPEChecksum.
WriteNt(pc) == Save(pc, [disk EXCEPT !.nt = run.nt], 0)
WriteLAA    == WriteNt("laa")
WriteZero   == WriteNt("nt")

\* The NT headers, the section table as it was read, and the new header.
WriteHeader == Save("header",
  [disk EXCEPT !.nt = run.nt,
               !.table = SubSeq(@, 1, run.nt.nsec - 1) \o <<run.inj>>,
               !.clobbered = @ \/ run.nt.nsec > HeaderRoom], 0)

\* Mutants: the zeros are left out; they land on what others wrote.
BlankNothing   == Save("blank", disk, 0)
BlankElsewhere == Save("blank", [disk EXCEPT !.data = {}], End(run.inj.rawsize))
WriteBlank == Save("blank",
  [disk EXCEPT !.data = {p \in @ : p.raw # run.inj.raw}], End(run.inj.rawsize))

\* The console program: the longer import array in its old place, the import
\* data, the code with its jump to the entry point read, the rest of the
\* section, and at last the entry point.
WriteImports == Save("imports",
  [disk EXCEPT !.imports = run.imports,
               !.clobbered = @ \/ Len(run.imports) > ImportRoom], 0)
WriteImportData == Save("impdata", Written(Part("imports", run.inj.va)), End(1))
WriteCode  == Save("code", Written(Part("code", run.nt.oep)), End(CodeOffset + 1))
WriteZeros == Save("zeros", disk, End(run.inj.rawsize))
WriteOep   == Save("oep", [disk EXCEPT !.nt.oep = CodeOf(run.inj)], 0)

\* The injector: the name of the DLL, the callback that loads it, the array of
\* callbacks, the TLS directory ...
WriteName     == Save("name", Written(Part("name", 0)), End(InjSize))
WriteCallback == Save("callback", Written(Part("callback", run.inj.va)), End(InjSize))
WriteArray    == Save("array", Written(Part("array", run.inj.va)), End(InjSize))
WriteTlsDir   == Save("tlsdir", Written(Part("tlsdir", run.inj.va)), End(InjSize))

\* ... and the headers again, after clear() has made the stream good.
WriteTls ==
  /\ run.pc = "tls"
  /\ disk' = [disk EXCEPT !.nt = [run.nt EXCEPT !.tls = run.inj.va]]
  /\ run' = [run EXCEPT !.pc = "done", !.bad = FALSE]
  /\ UNCHANGED <<runs, shortRuns>>

-----------------------------------------------------------------------------
Stops == shortRuns' = IF run.pc # "done" \/ run.missed
  THEN shortRuns \cup {[tool |-> run.tool, va |-> run.inj.va, killed |-> run.pc # "done"]}
  ELSE shortRuns

\* The program reports success, whatever its stream says; or it is killed.
Finish == run.pc = "done" /\ run' = Idle /\ Stops /\ UNCHANGED <<disk, runs>>
Crash  == run.pc \notin {"idle", "done"} /\ run' = Idle /\ Stops /\ UNCHANGED <<disk, runs>>

\* The file may be left alone for good.
Rest == run.pc = "idle" /\ UNCHANGED vars

Next ==
  \/ \E tool \in Tools : Start(tool)
  \/ WriteLAA \/ InjectInjsec \/ WriteHeader \/ WriteBlank
  \/ WriteImports \/ WriteImportData \/ WriteCode \/ WriteZeros \/ WriteOep
  \/ WriteName \/ WriteCallback \/ WriteArray \/ WriteTlsDir \/ WriteTls
  \/ WriteZero
  \/ Finish \/ Crash \/ Rest

Spec == Init /\ [][Next]_vars
=============================================================================
