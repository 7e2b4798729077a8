---------------------------- MODULE PeProperties ----------------------------
(***************************************************************************)
(* What the patched Soulstorm.exe is worth, whenever the patch programs    *)
(* were killed, met a full disk or were run again: see PePatch.            *)
(***************************************************************************)
EXTENDS PePatch

Kinds    == {"imports", "code", "name", "callback", "array", "tlsdir"}
Labels   == {"idle", "done"} \cup
            UNION {{Program[t][k] : k \in DOMAIN Program[t]} : t \in DOMAIN Program}
Sections == 1 .. disk.nt.nsec
Has(i, kind) == \E p \in disk.data : p.raw = disk.table[i].raw /\ p.kind = kind
Listed(va)   == \E k \in DOMAIN disk.imports : disk.imports[k] = va

Headers == [laa : BOOLEAN, nsec : Nat \ {0}, oep : Nat, tls : Nat, debug : BOOLEAN,
            size : Nat]
Files == [fmt : {"pe32", "no_imports", "other"}, nt : Headers, table : Seq(SectionHeaders),
          imports : Seq(Nat), data : SUBSET [raw : Nat, kind : Kinds, ref : Nat],
          eof : Nat, clobbered : BOOLEAN]
Runs  == [tool : Tools \cup {"none"}, pc : Labels, nt : Headers, inj : SectionHeaders,
          imports : Seq(Nat), bad : BOOLEAN, missed : BOOLEAN]

\* Types, and every RVA in the headers lies inside the image.
TypeOK ==
  /\ disk \in Files /\ run \in Runs /\ runs \in 0 .. MaxRuns
  /\ disk.nt.nsec <= Len(disk.table)
  /\ disk.nt.oep < disk.nt.size /\ disk.nt.tls < disk.nt.size

\* However often and in whatever order the programs run, and wherever they are
\* killed, the sections stay apart, in the file and in memory, and the image
\* ends behind the last one.
SectionsApart ==
  LET s == disk.table IN
  /\ \A i, j \in Sections : i < j =>
       /\ s[i].raw + s[i].rawsize <= s[j].raw
       /\ s[i].va + s[i].vsize <= s[j].va
  /\ \A i \in Sections : s[i].va + s[i].vsize <= disk.nt.size

\* The console program's code is whole: it is written, its import descriptor is
\* listed, and the descriptor's data is written.
CodeReady(i) == Has(i, "code") /\ Has(i, "imports") /\ Listed(disk.table[i].va)
EntersAt(rva, before) ==
  \/ rva = Entry
  \/ \E j \in 1 .. before : CodeReady(j) /\ rva = CodeOf(disk.table[j])

\* At every moment, even between two writes, the entry point is the game's own
\* or code that is whole, and that code jumps to the game's own entry point or to
\* older code that is whole: the code that a start enters leads on to the game.
\* This is about the chain of entry points alone, not about the loader, which
\* may refuse the file before it enters anything: between the headers and the
\* data of a new section the file is shorter than they say or a descriptor has
\* no data, and a table without room for a new entry overwrites what follows it;
\* see OnlyShortRunsDangle and Loadable.
EntryChainWhole ==
  /\ EntersAt(disk.nt.oep, disk.nt.nsec)
  /\ \A i \in Sections, p \in disk.data :
       p.raw = disk.table[i].raw /\ p.kind = "code" => EntersAt(p.ref, i - 1)

\* An import descriptor without its data, which keeps the loader from starting
\* the game, comes only from a run of the console program that was killed or
\* met a full disk; what a complete run has added no later run destroys.
Short(tool)  == {r.va : r \in {q \in shortRuns : q.tool = tool}}
Backed(va)   == \E i \in Sections : disk.table[i].va = va /\ Has(i, "imports")
OnlyShortRunsDangle == run.pc = "idle" =>
  \A k \in DOMAIN disk.imports :
    disk.imports[k] \in {0} \cup Short("console") \/ Backed(disk.imports[k])

\* The TLS directory is installed only when it, its callback array, the
\* callback and the DLL's name are in the file, unless the disk was full.
TlsWhole(i) == \A kind \in {"tlsdir", "array", "callback", "name"} : Has(i, kind)
Lost(va) ==
  \/ run.missed /\ run.inj.va = va
  \/ \E r \in shortRuns : r.tool = "injector" /\ r.va = va /\ ~r.killed
TlsSound ==
  \/ disk.nt.tls = 0 \/ Lost(disk.nt.tls)
  \/ \E i \in Sections : disk.table[i].va = disk.nt.tls /\ TlsWhole(i)

\* What the loader asks of the file.
Loadable ==
  LET s == disk.table
      after(i) == AlignValue(s[i].va + s[i].vsize, SectionAlignment)
  IN
  /\ ~disk.clobbered
  /\ \A i \in Sections : s[i].raw + s[i].rawsize <= disk.eof
  /\ \A i \in Sections : IF i = disk.nt.nsec THEN disk.nt.size = after(i)
                         ELSE s[i + 1].va = after(i)
  /\ \A k \in DOMAIN disk.imports : disk.imports[k] = 0 \/ Backed(disk.imports[k])

\* A complete run leaves a file that loads, large address aware, also when it
\* follows runs that were killed, as long as none of those was the console
\* program's and the tables have room for one more entry a run.
LoadsAfterRun ==
  /\ run.pc = "done" /\ ~run.missed /\ run.tool # "zero"
  /\ Short("console") = {}
  /\ 1 + runs <= HeaderRoom /\ OwnImports + runs <= ImportRoom
  => Loadable /\ disk.nt.laa

\* The console program says "Patch succeeded!" when the entry point leads into
\* the code it has written.
SuccessMeansPatched ==
  run.pc = "done" /\ run.tool = "console" =>
    disk.nt.oep = CodeOf(run.inj) /\ CodeReady(disk.nt.nsec)

-----------------------------------------------------------------------------
\* What makes these inductive.  The table grows at its end only; each section
\* starts where the one before it ends, rounded up; data lies in sections.
After(s) == AlignValue(s.va + s.vsize, SectionAlignment)
TableInv ==
  LET s == disk.table IN
  /\ Len(s) = disk.nt.nsec
  /\ \A i \in Sections : s[i].vsize > 0 /\ s[i].rawsize > 0
  /\ \A i \in Sections : IF i = disk.nt.nsec THEN disk.nt.size = After(s[i])
                         ELSE s[i + 1].va = After(s[i])
  /\ \A p \in disk.data : \E i \in Sections : p.raw = s[i].raw

\* Where a run of each tool may be, and what it has of the headers there: before
\* the section is added, copies of what the file holds; then its section is the
\* last one, and its copy of the headers is the file's.
Places(tool) == {Program[tool][k] : k \in DOMAIN Program[tool]} \cup {"done"}
NewHeaders   == WithSection([disk.nt EXCEPT !.laa = TRUE], NewSection)
Added        == disk.table[disk.nt.nsec] = run.inj /\ disk.nt.laa
Filling      == {"blank", "impdata", "code", "zeros", "oep",
                 "name", "callback", "array", "tlsdir", "tls"}
RunInv ==
  /\ \/ run.tool = "none" /\ run.pc = "idle"
     \/ run.tool \in DOMAIN Program /\ run.pc \in Places(run.tool)
  /\ run.pc # "done" => run.bad = run.missed
  /\ run.pc \in {"laa", "nt", "inject", "imports", "header"} => ~run.missed
  /\ run.pc = "laa"     => run.nt = [disk.nt EXCEPT !.laa = TRUE]
  /\ run.pc = "nt"      => run.nt = [disk.nt EXCEPT !.debug = FALSE]
  /\ run.pc = "inject"  => disk.nt.laa
  /\ run.pc = "imports" => run.imports = Append(disk.imports, run.inj.va)
  /\ run.pc \in {"imports", "header"} => run.nt = NewHeaders /\ run.inj = NewSection
  /\ run.pc \in Filling => Added /\ run.nt = disk.nt /\ run.inj.vsize = InjSize
  /\ run.pc = "done" /\ run.tool # "zero" => Added

\* What a run has written of its section, as long as nothing has failed.
Got(kind) == Has(disk.nt.nsec, kind)
PiecesInv ==
  /\ run.pc \in {"blank", "impdata"} => \A p \in disk.data : p.raw # run.inj.raw
  /\ run.pc = "code" => ~Got("code")
  /\ run.tool = "console" /\ run.pc \notin {"imports"} => Listed(run.inj.va)
  /\ ~run.missed /\ run.tool = "console" =>
       /\ run.pc \in {"code", "zeros", "oep", "done"} => Got("imports")
       /\ run.pc \in {"zeros", "oep", "done"} => Got("code")
  /\ ~run.missed /\ run.tool = "injector" =>
       /\ run.pc \in {"callback", "array", "tlsdir", "tls", "done"} => Got("name")
       /\ run.pc \in {"array", "tlsdir", "tls", "done"} => Got("callback")
       /\ run.pc \in {"tlsdir", "tls", "done"} => Got("array")
       /\ run.pc \in {"tls", "done"} => Got("tlsdir")
  /\ ~run.missed /\ run.tool # "zero" =>
       /\ run.pc \in {"name", "callback", "array", "tlsdir", "tls", "oep", "done"} =>
            run.inj.raw + run.inj.rawsize <= disk.eof

\* The sections and descriptors there are, counted by the runs.
CountInv ==
  /\ disk.nt.nsec <= 1 + runs /\ Len(disk.imports) <= OwnImports + runs
  /\ run.pc \in {"laa", "inject", "imports", "header"} => disk.nt.nsec <= runs
  /\ run.pc = "imports" => Len(disk.imports) < OwnImports + runs
  /\ disk.clobbered => disk.nt.nsec > HeaderRoom \/ Len(disk.imports) > ImportRoom

\* OnlyShortRunsDangle and TlsSound while a run is under way.
Pending(va) ==
  /\ run.tool = "console" /\ run.inj.va = va
  /\ run.pc \in {"header", "impdata"} \/ run.missed
DanglesInv == \A k \in DOMAIN disk.imports :
  LET va == disk.imports[k] IN
  va \in {0} \cup Short("console") \/ Backed(va) \/ Pending(va)

LostForGood(va) ==
  \/ run.tool = "injector" /\ run.pc = "done" /\ run.missed /\ run.inj.va = va
  \/ \E r \in shortRuns : r.tool = "injector" /\ r.va = va /\ ~r.killed
TlsInv ==
  \/ disk.nt.tls = 0 \/ LostForGood(disk.nt.tls)
  \/ \E i \in Sections : disk.table[i].va = disk.nt.tls /\ TlsWhole(i)

PeInv ==
  /\ SectionsApart /\ EntryChainWhole /\ TableInv /\ RunInv /\ PiecesInv /\ CountInv
  /\ DanglesInv /\ TlsInv
=============================================================================
