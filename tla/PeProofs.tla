------------------------------ MODULE PeProofs ------------------------------
(***************************************************************************)
(* Proofs about the programs that patch Soulstorm.exe, for any alignments, *)
(* any tables and any number of runs: see PePatch and PeProperties.        *)
(***************************************************************************)
EXTENDS PeProperties, SequenceTheorems, TLAPS

-----------------------------------------------------------------------------
\* Rounding up reaches at least the value, and keeps what is rounded already.
LEMMA AlignBounds ==
  ASSUME NEW v \in Nat, NEW a \in Nat \ {0}
  PROVE  AlignValue(v, a) \in Nat /\ v <= AlignValue(v, a)
<1> DEFINE q == (v + a - 1) \div a
<1>1. q \in Nat /\ v + a - 1 < q * a + a
  BY SMTT(30)
<1>2. q * a \in Nat
  BY <1>1, SMTT(30)
<1> QED
  BY <1>1, <1>2 DEF AlignValue

LEMMA AlignAdds ==
  ASSUME NEW v \in Nat, NEW w \in Nat, NEW a \in Nat \ {0}
  PROVE  AlignValue(AlignValue(v, a) + w, a) = AlignValue(v, a) + AlignValue(w, a)
<1> DEFINE q == (v + a - 1) \div a
           r == (w + a - 1) \div a
<1>1. q \in Nat /\ r \in Nat
  BY SMTT(30)
<1>2. r * a <= w + a - 1 /\ w + a - 1 < r * a + a
  BY SMTT(30)
<1>3. (q * a + w + a - 1) \div a = q + r
  BY <1>1, <1>2, SMTT(30)
<1>4. (q + r) * a = q * a + r * a
  BY <1>1, SMTT(30)
<1> QED
  BY <1>1, <1>3, <1>4 DEF AlignValue

-----------------------------------------------------------------------------
\* What comes after each piece of each program.
LEMMA RedoneOrder ==
  /\ Following("redone", "laa") = "inject" /\ Following("redone", "header") = "blank"
  /\ Following("redone", "blank") = "done"
  BY DEF Following, Program

LEMMA ConsoleOrder ==
  /\ Following("console", "imports") = "header" /\ Following("console", "header") = "impdata"
  /\ Following("console", "impdata") = "code" /\ Following("console", "code") = "zeros"
  /\ Following("console", "zeros") = "oep" /\ Following("console", "oep") = "done"
  BY DEF Following, Program

LEMMA InjectorOrder ==
  /\ Following("injector", "header") = "blank" /\ Following("injector", "blank") = "name"
  /\ Following("injector", "name") = "callback" /\ Following("injector", "callback") = "array"
  /\ Following("injector", "array") = "tlsdir" /\ Following("injector", "tlsdir") = "tls"
  BY DEF Following, Program

LEMMA ZeroOrder == Following("zero", "nt") = "done"
  BY DEF Following, Program

LEMMA PlacesAre ==
  /\ DOMAIN Program = {"redone", "console", "injector", "zero"}
  /\ Places("redone") = {"laa", "inject", "header", "blank", "done"}
  /\ Places("console") = {"imports", "header", "impdata", "code", "zeros", "oep", "done"}
  /\ Places("injector") =
       {"header", "blank", "name", "callback", "array", "tlsdir", "tls", "done"}
  /\ Places("zero") = {"nt", "done"}
  BY DEF Places, Program

LEMMA LabelsAre ==
  Labels = {"idle", "laa", "inject", "nt", "imports", "header", "blank", "impdata", "code",
            "zeros", "oep", "name", "callback", "array", "tlsdir", "tls", "done"}
  BY DEF Labels, Program

-----------------------------------------------------------------------------
\* The sections in the file, and the one that a program would add to them.
LEMMA SectionTypes ==
  ASSUME TypeOK, TableInv
  PROVE  /\ disk.nt.nsec \in Nat \ {0} /\ disk.nt.nsec \in Sections
         /\ Len(disk.table) = disk.nt.nsec
         /\ \A i \in Sections : disk.table[i] \in SectionHeaders
<1>1. disk.table \in Seq(SectionHeaders) /\ disk.nt.nsec \in Nat \ {0}
  BY DEF TypeOK, Files, Headers
<1>2. Len(disk.table) = disk.nt.nsec
  BY DEF TableInv
<1>3. \A i \in 1 .. Len(disk.table) : disk.table[i] \in SectionHeaders
  BY <1>1, ElementOfSeq
<1> QED
  BY <1>1, <1>2, <1>3 DEF Sections

LEMMA NewSectionFits ==
  ASSUME TypeOK, TableInv, SectionsApart
  PROVE  /\ NewSection \in SectionHeaders
         /\ NewSection.vsize = InjSize /\ NewSection.rawsize > 0
         /\ NewSection.va = disk.nt.size /\ NewSection.va = After(disk.table[disk.nt.nsec])
         /\ \A i \in Sections :
              /\ disk.table[i].raw + disk.table[i].rawsize <= NewSection.raw
              /\ disk.table[i].va + disk.table[i].vsize <= NewSection.va
         /\ NewSection.va + AlignValue(NewSection.vsize, SectionAlignment) = After(NewSection)
         /\ After(NewSection) \in Nat
         /\ NewSection.va + NewSection.vsize <= After(NewSection)
<1> DEFINE last == disk.table[disk.nt.nsec]
           end  == last.raw + last.rawsize
           top  == last.va + last.vsize
<1>1. /\ disk.nt.nsec \in Sections /\ disk.nt.nsec \in Nat \ {0}
      /\ \A i \in Sections : disk.table[i] \in SectionHeaders
  BY SectionTypes
<1>2. last \in SectionHeaders /\ end \in Nat /\ top \in Nat
  BY <1>1 DEF SectionHeaders
<1>3. FileAlignment \in Nat \ {0} /\ SectionAlignment \in Nat \ {0} /\ InjSize \in Nat \ {0}
  BY ImageAssumption
<1>4. /\ AlignValue(end, FileAlignment) \in Nat /\ end <= AlignValue(end, FileAlignment)
      /\ AlignValue(top, SectionAlignment) \in Nat /\ top <= AlignValue(top, SectionAlignment)
      /\ AlignValue(InjSize, FileAlignment) \in Nat
      /\ InjSize <= AlignValue(InjSize, FileAlignment)
      /\ AlignValue(InjSize, SectionAlignment) \in Nat
      /\ InjSize <= AlignValue(InjSize, SectionAlignment)
  BY <1>2, <1>3, AlignBounds
<1>5. NewSection = [va |-> AlignValue(top, SectionAlignment), vsize |-> InjSize,
                    raw |-> AlignValue(end, FileAlignment),
                    rawsize |-> AlignValue(InjSize, FileAlignment)]
  BY DEF NewSection
<1>6. /\ NewSection \in SectionHeaders /\ NewSection.vsize = InjSize /\ NewSection.rawsize > 0
      /\ NewSection.raw = AlignValue(end, FileAlignment)
      /\ NewSection.va = AlignValue(top, SectionAlignment)
  BY <1>3, <1>4, <1>5 DEF SectionHeaders
<1>7. NewSection.va = After(last) /\ disk.nt.size = After(last)
  BY <1>1, <1>6 DEF TableInv, After
<1>8. ASSUME NEW i \in Sections
      PROVE  /\ disk.table[i].raw + disk.table[i].rawsize <= NewSection.raw
             /\ disk.table[i].va + disk.table[i].vsize <= NewSection.va
  <2>1. disk.table[i].raw + disk.table[i].rawsize <= end /\
        disk.table[i].va + disk.table[i].vsize <= top
    <3>1. CASE i = disk.nt.nsec
      BY <3>1, <1>1 DEF SectionHeaders
    <3>2. CASE i < disk.nt.nsec
      BY <3>2, <1>1 DEF SectionsApart, SectionHeaders
    <3> QED
      BY <3>1, <3>2, <1>1 DEF Sections
  <2> QED
    BY <2>1, <1>1, <1>2, <1>4, <1>6 DEF SectionHeaders
<1>9. NewSection.va + AlignValue(NewSection.vsize, SectionAlignment) = After(NewSection)
  <2>1. AlignValue(AlignValue(top, SectionAlignment) + InjSize, SectionAlignment)
          = AlignValue(top, SectionAlignment) + AlignValue(InjSize, SectionAlignment)
    BY <1>2, <1>3, AlignAdds
  <2> QED
    BY <2>1, <1>6 DEF After
<1>10. After(NewSection) \in Nat /\ NewSection.va + NewSection.vsize <= After(NewSection)
  BY <1>4, <1>6, <1>9 DEF SectionHeaders
<1> QED
  BY <1>6, <1>7, <1>8, <1>9, <1>10

LEMMA NewHeadersAre ==
  ASSUME TypeOK, TableInv, SectionsApart
  PROVE  /\ NewHeaders \in Headers
         /\ NewHeaders.nsec = disk.nt.nsec + 1 /\ NewHeaders.size = After(NewSection)
         /\ NewHeaders.oep = disk.nt.oep /\ NewHeaders.tls = disk.nt.tls
         /\ NewHeaders.laa
<1>1. disk.nt \in Headers
  BY DEF TypeOK, Files
<1>2. NewHeaders = [disk.nt EXCEPT !.laa = TRUE, !.nsec = disk.nt.nsec + 1,
                                   !.size = After(NewSection)]
  BY <1>1, NewSectionFits DEF NewHeaders, WithSection, Headers
<1>3. After(NewSection) \in Nat
  BY NewSectionFits
<1>4. NewHeaders \in Headers
  <2>1. disk.nt.nsec + 1 \in Nat \ {0}
    BY <1>1 DEF Headers
  <2>2. NewHeaders = [laa |-> TRUE, nsec |-> disk.nt.nsec + 1, oep |-> disk.nt.oep,
                      tls |-> disk.nt.tls, debug |-> disk.nt.debug, size |-> After(NewSection)]
    BY <1>1, <1>2 DEF Headers
  <2>3. disk.nt.oep \in Nat /\ disk.nt.tls \in Nat /\ disk.nt.debug \in BOOLEAN
    BY <1>1 DEF Headers
  <2> QED
    BY <2>1, <2>2, <2>3, <1>3 DEF Headers
<1>5. /\ NewHeaders.nsec = disk.nt.nsec + 1 /\ NewHeaders.size = After(NewSection)
      /\ NewHeaders.oep = disk.nt.oep /\ NewHeaders.tls = disk.nt.tls
  BY <1>1, <1>2, <1>3 DEF Headers
<1>6. NewHeaders.laa
  BY <1>1, <1>2, <1>3 DEF Headers
<1> QED
  BY <1>4, <1>5, <1>6

-----------------------------------------------------------------------------
\* The headers and the file as they are typed.
LEMMA FileTypes ==
  ASSUME TypeOK
  PROVE  /\ disk.nt \in Headers /\ disk.nt.nsec \in Nat \ {0} /\ disk.nt.oep \in Nat
         /\ disk.nt.tls \in Nat /\ disk.nt.size \in Nat
         /\ disk.table \in Seq(SectionHeaders) /\ disk.imports \in Seq(Nat)
         /\ disk.data \subseteq [raw : Nat, kind : Kinds, ref : Nat]
         /\ disk.eof \in Nat /\ disk.clobbered \in BOOLEAN
         /\ run.nt \in Headers /\ run.inj \in SectionHeaders /\ run.imports \in Seq(Nat)
         /\ run.bad \in BOOLEAN /\ run.missed \in BOOLEAN /\ runs \in Nat
         /\ run.tool \in Tools \cup {"none"} /\ run.pc \in Labels
<1>1. MaxRuns \in Nat
  BY ImageAssumption
<1> QED
  BY <1>1 DEF TypeOK, Files, Runs, Headers

\* A section is known by where it lies in the file.
LEMMA RawNamesSection ==
  ASSUME TypeOK, TableInv, SectionsApart, NEW i \in Sections, NEW j \in Sections,
         disk.table[i].raw = disk.table[j].raw
  PROVE  i = j
<1>1. /\ disk.table[i] \in SectionHeaders /\ disk.table[j] \in SectionHeaders
      /\ disk.table[i].rawsize > 0 /\ disk.table[j].rawsize > 0
  BY SectionTypes DEF TableInv
<1>3. i \in Int /\ j \in Int
  BY DEF Sections
<1>2. /\ i < j => disk.table[i].raw + disk.table[i].rawsize <= disk.table[j].raw
      /\ j < i => disk.table[j].raw + disk.table[j].rawsize <= disk.table[i].raw
  BY DEF SectionsApart
<1> QED
  BY <1>1, <1>2, <1>3 DEF SectionHeaders

\* The entry point does not lead into a section that holds no code.
LEMMA EntersBefore ==
  ASSUME TypeOK, EntryChainWhole, ~Got("code")
  PROVE  EntersAt(disk.nt.oep, disk.nt.nsec - 1)
<1>1. EntersAt(disk.nt.oep, disk.nt.nsec)
  BY DEF EntryChainWhole
<1>2. ~CodeReady(disk.nt.nsec)
  BY DEF CodeReady, Got
<1> QED
  BY <1>1, <1>2, FileTypes DEF EntersAt

\* More data in the file, none of it lost: what holds of headers, sections and
\* entry point stays.  New code may only go on to the entry point there is.
LEMMA DataStep ==
  ASSUME TypeOK, TableInv, SectionsApart, EntryChainWhole,
         NEW D \in SUBSET [raw : Nat, kind : Kinds, ref : Nat],
         NEW e \in Nat, disk.eof <= e,
         disk' = [disk EXCEPT !.data = D, !.eof = e],
         \A p \in disk.data : \E q \in D : q.raw = p.raw /\ q.kind = p.kind,
         \A p \in D : \E i \in Sections : p.raw = disk.table[i].raw,
         \A p \in D : p.kind = "code" =>
           \/ p \in disk.data
           \/ p.raw = disk.table[disk.nt.nsec].raw /\ p.ref = disk.nt.oep /\ ~Got("code")
  PROVE  /\ disk' \in Files
         /\ disk'.nt = disk.nt /\ disk'.table = disk.table /\ disk'.imports = disk.imports
         /\ disk'.clobbered = disk.clobbered /\ disk'.data = D /\ disk'.eof = e
         /\ TableInv' /\ SectionsApart' /\ EntryChainWhole'
         /\ \A i \in Sections, kind \in Kinds : Has(i, kind) => Has(i, kind)'
<1>1. /\ disk' = [fmt |-> disk.fmt, nt |-> disk.nt, table |-> disk.table,
                  imports |-> disk.imports, data |-> D, eof |-> e,
                  clobbered |-> disk.clobbered]
      /\ disk.fmt \in {"pe32", "no_imports", "other"}
  BY DEF TypeOK, Files
<1>2. disk' \in Files
  BY <1>1, FileTypes DEF Files
<1>3. /\ disk'.nt = disk.nt /\ disk'.table = disk.table /\ disk'.imports = disk.imports
      /\ disk'.clobbered = disk.clobbered /\ disk'.data = D /\ disk'.eof = e
  BY <1>1
<1>4. TableInv' /\ SectionsApart'
  BY <1>3 DEF TableInv, SectionsApart, Sections
<1>5. \A i \in Sections, kind \in Kinds : Has(i, kind) => Has(i, kind)'
  BY <1>3 DEF Has
<1>6. ASSUME NEW rva, NEW n \in Nat, n <= disk.nt.nsec, EntersAt(rva, n)
      PROVE  EntersAt(rva, n)'
  <2>1. \A j \in 1 .. n : CodeReady(j) => CodeReady(j)'
    <3>1. \A j \in 1 .. n : j \in Sections
      BY <1>6, FileTypes DEF Sections
    <3>2. "code" \in Kinds /\ "imports" \in Kinds
      BY DEF Kinds
    <3> QED
      BY <1>3, <1>5, <3>1, <3>2 DEF CodeReady, Listed
  <2> QED
    BY <1>3, <1>6, <2>1 DEF EntersAt
<1>7. EntryChainWhole'
  <2>1. EntersAt(disk.nt.oep, disk.nt.nsec)'
    BY <1>3, <1>6, FileTypes DEF EntryChainWhole
  <2>2. ASSUME NEW i \in Sections, NEW p \in D, p.raw = disk.table[i].raw, p.kind = "code"
        PROVE  EntersAt(p.ref, i - 1)'
    <3>1. i - 1 \in Nat /\ i - 1 <= disk.nt.nsec
      BY FileTypes, SMTT(30) DEF Sections
    <3>2. EntersAt(p.ref, i - 1)
      <4>1. CASE p \in disk.data
        BY <2>2, <4>1 DEF EntryChainWhole
      <4>2. CASE p.raw = disk.table[disk.nt.nsec].raw /\ p.ref = disk.nt.oep /\ ~Got("code")
        <5>1. i = disk.nt.nsec
          <6>1. disk.nt.nsec \in Sections
            BY SectionTypes
          <6>2. disk.table[i].raw = disk.table[disk.nt.nsec].raw
            BY <2>2, <4>2
          <6> QED
            BY <6>1, <6>2, RawNamesSection
        <5>2. EntersAt(disk.nt.oep, disk.nt.nsec - 1)
          BY <4>2, EntersBefore
        <5> QED
          BY <4>2, <5>1, <5>2
      <4> QED
        BY <2>2, <4>1, <4>2
    <3> QED
      BY <1>6, <3>1, <3>2
  <2> QED
    BY <1>3, <2>1, <2>2 DEF EntryChainWhole, Sections
<1> QED
  BY <1>2, <1>3, <1>4, <1>5, <1>7

\* Other headers for the same sections, a longer list of imports: what holds of
\* sections and entry point stays, when the new entry point works.
LEMMA HeadersStep ==
  ASSUME TypeOK, TableInv, SectionsApart, EntryChainWhole,
         NEW nt \in Headers, nt.nsec = disk.nt.nsec, nt.size = disk.nt.size,
         NEW im \in Seq(Nat),
         \A k \in DOMAIN disk.imports : k \in DOMAIN im /\ im[k] = disk.imports[k],
         NEW c \in BOOLEAN,
         EntersAt(nt.oep, disk.nt.nsec),
         disk' = [disk EXCEPT !.nt = nt, !.imports = im, !.clobbered = c]
  PROVE  /\ disk' \in Files
         /\ disk'.nt = nt /\ disk'.table = disk.table /\ disk'.imports = im
         /\ disk'.clobbered = c /\ disk'.data = disk.data /\ disk'.eof = disk.eof
         /\ TableInv' /\ SectionsApart' /\ EntryChainWhole'
<1>1. /\ disk' = [fmt |-> disk.fmt, nt |-> nt, table |-> disk.table, imports |-> im,
                  data |-> disk.data, eof |-> disk.eof, clobbered |-> c]
      /\ disk.fmt \in {"pe32", "no_imports", "other"}
  BY DEF TypeOK, Files
<1>2. disk' \in Files
  BY <1>1, FileTypes DEF Files
<1>3. /\ disk'.nt = nt /\ disk'.table = disk.table /\ disk'.imports = im
      /\ disk'.clobbered = c /\ disk'.data = disk.data /\ disk'.eof = disk.eof
  BY <1>1
<1>4. TableInv' /\ SectionsApart'
  BY <1>3 DEF TableInv, SectionsApart, Sections
<1>5. ASSUME NEW rva, NEW n, EntersAt(rva, n)
      PROVE  EntersAt(rva, n)'
  BY <1>3, <1>5 DEF EntersAt, CodeReady, Has, Listed
<1>6. EntersAt(disk.nt.oep, disk.nt.nsec)'
  <2>1. EntersAt(nt.oep, disk.nt.nsec)'
    BY <1>5
  <2> QED
    BY <1>3, <2>1
<1>7. EntryChainWhole'
  BY <1>3, <1>5, <1>6 DEF EntryChainWhole, Sections
<1> QED
  BY <1>2, <1>3, <1>4, <1>7

-----------------------------------------------------------------------------
\* A new section: headers, table and all.
LEMMA TableGrows ==
  ASSUME TypeOK, TableInv
  PROVE  LET n  == disk.nt.nsec
             tb == SubSeq(disk.table, 1, NewHeaders.nsec - 1) \o <<NewSection>>
         IN  NewHeaders.nsec = n + 1 /\ NewSection \in SectionHeaders =>
               /\ tb \in Seq(SectionHeaders) /\ Len(tb) = n + 1
               /\ tb[n + 1] = NewSection
               /\ \A i \in 1 .. n : tb[i] = disk.table[i]
<1> DEFINE n  == disk.nt.nsec
           tb == SubSeq(disk.table, 1, NewHeaders.nsec - 1) \o <<NewSection>>
<1> SUFFICES ASSUME NewHeaders.nsec = n + 1, NewSection \in SectionHeaders
             PROVE  /\ tb \in Seq(SectionHeaders) /\ Len(tb) = n + 1
                    /\ tb[n + 1] = NewSection
                    /\ \A i \in 1 .. n : tb[i] = disk.table[i]
  OBVIOUS
<1>1. disk.table \in Seq(SectionHeaders) /\ Len(disk.table) = n /\ n \in Nat \ {0}
  BY FileTypes DEF TableInv
<1>2. SubSeq(disk.table, 1, Len(disk.table)) = disk.table
  BY <1>1, SubSeqFull
<1>3. tb = disk.table \o <<NewSection>>
  <2>1. NewHeaders.nsec - 1 = Len(disk.table)
    BY <1>1
  <2> QED
    BY <1>2, <2>1, Zenon
<1> HIDE DEF tb
<1> QED
  BY <1>1, <1>3, SMTT(30)

LEMMA SectionStep ==
  ASSUME TypeOK, TableInv, SectionsApart, EntryChainWhole,
         NEW c \in BOOLEAN,
         disk' = [disk EXCEPT !.nt = NewHeaders,
                              !.table = SubSeq(@, 1, NewHeaders.nsec - 1) \o <<NewSection>>,
                              !.clobbered = c]
  PROVE  /\ disk' \in Files
         /\ disk'.nt = NewHeaders /\ disk'.imports = disk.imports
         /\ disk'.clobbered = c /\ disk'.data = disk.data /\ disk'.eof = disk.eof
         /\ disk'.table[disk.nt.nsec + 1] = NewSection
         /\ \A i \in Sections : disk'.table[i] = disk.table[i]
         /\ \A p \in disk.data : p.raw # NewSection.raw
         /\ TableInv' /\ SectionsApart' /\ EntryChainWhole'
<1> DEFINE n  == disk.nt.nsec
           tb == SubSeq(disk.table, 1, NewHeaders.nsec - 1) \o <<NewSection>>
<1>1. /\ NewHeaders \in Headers /\ NewHeaders.nsec = n + 1
      /\ NewHeaders.size = After(NewSection) /\ NewHeaders.oep = disk.nt.oep
  BY NewHeadersAre
<1>2. /\ NewSection \in SectionHeaders
      /\ NewSection.vsize = InjSize /\ NewSection.rawsize > 0
      /\ NewSection.va = After(disk.table[n])
      /\ \A i \in Sections :
           /\ disk.table[i].raw + disk.table[i].rawsize <= NewSection.raw
           /\ disk.table[i].va + disk.table[i].vsize <= NewSection.va
      /\ After(NewSection) \in Nat /\ NewSection.va + NewSection.vsize <= After(NewSection)
  BY NewSectionFits
<1>3. /\ tb \in Seq(SectionHeaders) /\ Len(tb) = n + 1 /\ tb[n + 1] = NewSection
      /\ \A i \in 1 .. n : tb[i] = disk.table[i]
  BY <1>1, <1>2, TableGrows
<1>4. /\ n \in Nat \ {0} /\ Sections = 1 .. n /\ n \in Sections
      /\ \A i \in Sections : disk.table[i] \in SectionHeaders
  BY SectionTypes DEF Sections
<1>5. /\ disk' = [fmt |-> disk.fmt, nt |-> NewHeaders, table |-> tb,
                  imports |-> disk.imports, data |-> disk.data, eof |-> disk.eof,
                  clobbered |-> c]
      /\ disk.fmt \in {"pe32", "no_imports", "other"}
  BY DEF TypeOK, Files
<1> HIDE DEF tb
<1>6. disk' \in Files
  BY <1>1, <1>3, <1>5, FileTypes DEF Files
<1>7. /\ disk'.nt = NewHeaders /\ disk'.imports = disk.imports /\ disk'.table = tb
      /\ disk'.clobbered = c /\ disk'.data = disk.data /\ disk'.eof = disk.eof
  BY ONLY <1>5
<1>8. Sections' = 1 .. n + 1
  BY <1>1, <1>7 DEF Sections
<1>9. \A p \in disk.data : p.raw # NewSection.raw
  <2> SUFFICES ASSUME NEW p \in disk.data PROVE p.raw # NewSection.raw
    OBVIOUS
  <2>1. PICK i \in Sections : p.raw = disk.table[i].raw
    BY DEF TableInv
  <2>2. disk.table[i].rawsize > 0
    BY DEF TableInv
  <2> QED
    BY <1>2, <1>4, <2>1, <2>2 DEF SectionHeaders
<1>10. TableInv'
  <2>1. Len(tb) = NewHeaders.nsec
    BY <1>1, <1>3
  <2>2. \A i \in 1 .. n + 1 : tb[i].vsize > 0 /\ tb[i].rawsize > 0
    <3>1. \A i \in 1 .. n : disk.table[i].vsize > 0 /\ disk.table[i].rawsize > 0
      BY <1>4 DEF TableInv
    <3>2. InjSize > 0
      BY ImageAssumption
    <3> QED
      BY <1>2, <1>3, <1>4, <3>1, <3>2
  <2>3. ASSUME NEW i \in 1 .. n + 1
        PROVE  IF i = n + 1 THEN After(tb[i]) = NewHeaders.size
                            ELSE tb[i + 1].va = After(tb[i])
    <3>1. CASE i = n + 1
      BY <1>1, <1>3, <3>1
    <3>2. CASE i = n
      BY <1>2, <1>3, <1>4, <3>2
    <3>3. CASE i < n
      <4>1. i \in 1 .. n /\ i + 1 \in 1 .. n /\ i # n
        BY <1>4, <3>3
      <4>2. disk.table[i + 1].va = After(disk.table[i])
        BY <1>4, <4>1 DEF TableInv
      <4>3. tb[i] = disk.table[i] /\ tb[i + 1] = disk.table[i + 1] /\ i # n + 1
        BY <1>3, <1>4, <4>1
      <4> QED
        BY <4>2, <4>3
    <3> QED
      BY <1>4, <3>1, <3>2, <3>3
  <2>4. \A p \in disk.data : \E i \in 1 .. n + 1 : p.raw = tb[i].raw
    <3> SUFFICES ASSUME NEW p \in disk.data
                 PROVE  \E i \in 1 .. n + 1 : p.raw = tb[i].raw
      OBVIOUS
    <3>1. PICK i \in 1 .. n : p.raw = disk.table[i].raw
      BY <1>4 DEF TableInv
    <3> QED
      BY <1>3, <1>4, <3>1
  <2>5. disk'.nt.nsec = n + 1 /\ disk'.nt.size = NewHeaders.size
    BY <1>1, <1>7
  <2>6. \A i \in Sections' : IF i = disk'.nt.nsec THEN disk'.nt.size = After(tb[i])
                             ELSE tb[i + 1].va = After(tb[i])
    BY <1>8, <2>3, <2>5
  <2>7. Len(disk'.table) = disk'.nt.nsec
    BY <1>7, <2>1
  <2>8. \A i \in Sections' : disk'.table[i].vsize > 0 /\ disk'.table[i].rawsize > 0
    BY <1>7, <1>8, <2>2
  <2>9. \A i \in Sections' : IF i = disk'.nt.nsec THEN disk'.nt.size = After(disk'.table[i])
                             ELSE disk'.table[i + 1].va = After(disk'.table[i])
    BY <1>7, <2>6
  <2>10. \A p \in disk'.data : \E i \in Sections' : p.raw = disk'.table[i].raw
    BY <1>7, <1>8, <2>4
  <2> QED
    BY <2>7, <2>8, <2>9, <2>10 DEF TableInv
<1>11. SectionsApart'
  <2>1. ASSUME NEW i \in 1 .. n + 1, NEW j \in 1 .. n + 1, i < j
        PROVE  /\ tb[i].raw + tb[i].rawsize <= tb[j].raw
               /\ tb[i].va + tb[i].vsize <= tb[j].va
    <3>1. i \in 1 .. n /\ tb[i] = disk.table[i]
      BY <1>3, <1>4, <2>1
    <3>2. CASE j = n + 1
      BY <1>2, <1>3, <1>4, <3>1, <3>2
    <3>3. CASE j # n + 1
      <4>1. j \in 1 .. n /\ tb[j] = disk.table[j]
        BY <1>3, <1>4, <3>3
      <4> QED
        BY <1>4, <2>1, <3>1, <4>1 DEF SectionsApart
    <3> QED
      BY <3>2, <3>3
  <2>2. ASSUME NEW i \in 1 .. n + 1
        PROVE  tb[i].va + tb[i].vsize <= NewHeaders.size
    <3>1. CASE i = n + 1
      BY <1>1, <1>2, <1>3, <3>1
    <3>2. CASE i # n + 1
      <4>1. i \in 1 .. n /\ tb[i] = disk.table[i]
        BY <1>3, <1>4, <3>2
      <4>2. disk.table[i].va + disk.table[i].vsize <= NewSection.va
        BY <1>2, <1>4, <4>1
      <4>3. disk.table[i] \in SectionHeaders
        BY <1>4, <4>1
      <4> QED
        BY <1>1, <1>2, <4>1, <4>2, <4>3 DEF SectionHeaders
    <3> QED
      BY <3>1, <3>2
  <2> QED
    BY <1>7, <1>8, <2>1, <2>2 DEF SectionsApart
<1>12. ASSUME NEW rva, NEW k \in Nat, k <= n, EntersAt(rva, k)
       PROVE  EntersAt(rva, k)'
  <2>1. \A j \in 1 .. k : j \in 1 .. n /\ tb[j] = disk.table[j]
    BY <1>3, <1>4, <1>12
  <2> QED
    BY <1>7, <1>12, <2>1, ZenonT(60) DEF EntersAt, CodeReady, Has, Listed
<1>13. EntryChainWhole'
  <2>1. EntersAt(disk.nt.oep, disk.nt.nsec)'
    <3>1. PICK oep, m \in Nat : oep = disk.nt.oep /\ m = disk.nt.nsec
      BY <1>4, FileTypes
    <3>2. EntersAt(oep, m)'
      <4>1. EntersAt(oep, m) /\ m <= n
        BY <1>4, <3>1 DEF EntryChainWhole
      <4> QED
        BY <1>12, <3>1, <4>1
    <3>3. EntersAt(oep, m + 1)'
      <4>1. 1 .. m \subseteq 1 .. m + 1
        BY <3>1
      <4> QED
        BY ONLY <3>2, <4>1 DEF EntersAt
    <3>4. disk'.nt.oep = oep /\ disk'.nt.nsec = m + 1
      BY <1>1, <1>7, <3>1
    <3> QED
      BY ONLY <3>3, <3>4 DEF EntersAt
  <2>2. ASSUME NEW i \in 1 .. n + 1, NEW p \in disk.data, p.raw = tb[i].raw, p.kind = "code"
        PROVE  EntersAt(p.ref, i - 1)'
    <3>1. i # n + 1
      BY <1>3, <1>9, <2>2
    <3>2. i \in 1 .. n /\ i - 1 \in Nat /\ i - 1 <= n
      BY <1>4, <3>1
    <3>3. EntersAt(p.ref, i - 1)
      BY <1>3, <1>4, <2>2, <3>2 DEF EntryChainWhole
    <3> QED
      BY <1>12, <3>2, <3>3
  <2> QED
    BY <1>1, <1>7, <1>8, <2>1, <2>2 DEF EntryChainWhole
<1> QED
  BY <1>3, <1>4, <1>6, <1>7, <1>9, <1>10, <1>11, <1>13

-----------------------------------------------------------------------------
\* The next place of a run.
LEMMA Goes ==
  ASSUME TypeOK, NEW q \in Labels, NEW b \in BOOLEAN, NEW m \in BOOLEAN,
         run' = [run EXCEPT !.pc = q, !.bad = b, !.missed = m]
  PROVE  /\ run' \in Runs
         /\ run'.pc = q /\ run'.bad = b /\ run'.missed = m
         /\ run'.tool = run.tool /\ run'.nt = run.nt /\ run'.inj = run.inj
         /\ run'.imports = run.imports
<1>1. run' = [tool |-> run.tool, pc |-> q, nt |-> run.nt, inj |-> run.inj,
              imports |-> run.imports, bad |-> b, missed |-> m]
  BY DEF TypeOK, Runs
<1>2. run' \in Runs
  BY <1>1, FileTypes DEF Runs
<1>3. /\ run'.pc = q /\ run'.bad = b /\ run'.missed = m
      /\ run'.tool = run.tool /\ run'.nt = run.nt /\ run'.inj = run.inj
      /\ run'.imports = run.imports
  BY ONLY <1>1
<1> QED
  BY <1>2, <1>3

LEMMA GoesOn ==
  ASSUME TypeOK, NEW q \in Labels, run' = [run EXCEPT !.pc = q]
  PROVE  run' = [run EXCEPT !.pc = q, !.bad = run.bad, !.missed = run.missed]
  BY DEF TypeOK, Runs

\* Where a run is after a piece of its section, and after the headers.
Steps == {<<"redone", "blank", "done">>,
          <<"console", "impdata", "code">>, <<"console", "code", "zeros">>,
          <<"console", "zeros", "oep">>, <<"console", "oep", "done">>,
          <<"injector", "blank", "name">>, <<"injector", "name", "callback">>,
          <<"injector", "callback", "array">>, <<"injector", "array", "tlsdir">>,
          <<"injector", "tlsdir", "tls">>}

LEMMA FillingGoes ==
  ASSUME RunInv, run.pc \in Filling \ {"tls"}
  PROVE  <<run.tool, run.pc, Following(run.tool, run.pc)>> \in Steps
<1>1. run.tool \in DOMAIN Program /\ run.pc \in Places(run.tool)
  BY DEF RunInv, Filling
<1>2. CASE run.tool = "redone"
  <2>1. run.pc = "blank"
    BY <1>1, <1>2, PlacesAre DEF Filling
  <2> QED
    BY <1>2, <2>1, RedoneOrder DEF Steps
<1>3. CASE run.tool = "console"
  <2>1. run.pc \in {"impdata", "code", "zeros", "oep"}
    BY <1>1, <1>3, PlacesAre DEF Filling
  <2> QED
    BY <1>3, <2>1, ConsoleOrder DEF Steps
<1>4. CASE run.tool = "injector"
  <2>1. run.pc \in {"blank", "name", "callback", "array", "tlsdir"}
    BY <1>1, <1>4, PlacesAre DEF Filling
  <2> QED
    BY <1>4, <2>1, InjectorOrder DEF Steps
<1>5. CASE run.tool = "zero"
  BY <1>1, <1>5, PlacesAre DEF Filling
<1> QED
  BY <1>1, <1>2, <1>3, <1>4, <1>5, PlacesAre

LEMMA StepsAre ==
  ASSUME NEW t, NEW p, NEW q, <<t, p, q>> \in Steps
  PROVE  /\ t \in DOMAIN Program /\ q \in Places(t) /\ q \in Labels
         /\ q \in {"done", "code", "zeros", "oep", "name", "callback", "array", "tlsdir", "tls"}
         /\ t # "zero" /\ (q = "code" => p = "impdata")
         /\ t = "console" =>
              /\ q \in {"code", "zeros", "oep", "done"}
              /\ q = "zeros" => p = "code"
              /\ q = "oep" => p = "zeros"
              /\ q = "done" => p = "oep"
         /\ t = "injector" =>
              /\ q \in {"name", "callback", "array", "tlsdir", "tls"}
              /\ q = "name" => p = "blank"
              /\ q = "callback" => p = "name"
              /\ q = "array" => p = "callback"
              /\ q = "tlsdir" => p = "array"
              /\ q = "tls" => p = "tlsdir"
         /\ t = "redone" => q = "done" /\ p = "blank"
<1>1. \/ t = "redone" /\ p = "blank" /\ q = "done"
      \/ t = "console" /\ p = "impdata" /\ q = "code"
      \/ t = "console" /\ p = "code" /\ q = "zeros"
      \/ t = "console" /\ p = "zeros" /\ q = "oep"
      \/ t = "console" /\ p = "oep" /\ q = "done"
      \/ t = "injector" /\ p = "blank" /\ q = "name"
      \/ t = "injector" /\ p = "name" /\ q = "callback"
      \/ t = "injector" /\ p = "callback" /\ q = "array"
      \/ t = "injector" /\ p = "array" /\ q = "tlsdir"
      \/ t = "injector" /\ p = "tlsdir" /\ q = "tls"
  BY DEF Steps
<1>2. t \in DOMAIN Program /\ q \in Places(t)
  BY <1>1, PlacesAre
<1>3. q \in Labels
  BY <1>1, LabelsAre
<1> QED
  BY <1>1, <1>2, <1>3

-----------------------------------------------------------------------------
\* A write into the new section that does not reach the file.
LEMMA MissedStep ==
  ASSUME TypeOK, PeInv, run.pc \in Filling \ {"tls"}, disk' = disk,
         run' = [run EXCEPT !.pc = Following(run.tool, run.pc), !.bad = TRUE, !.missed = TRUE],
         UNCHANGED <<runs, shortRuns>>
  PROVE  TypeOK' /\ PeInv'
<1> DEFINE q == Following(run.tool, run.pc)
<1> USE DEF PeInv
<1>1. <<run.tool, run.pc, q>> \in Steps
  BY FillingGoes
<1> HIDE DEF q
<1>2. /\ run.tool \in DOMAIN Program /\ q \in Places(run.tool) /\ q \in Labels
      /\ q \in {"done", "code", "zeros", "oep", "name", "callback", "array", "tlsdir", "tls"}
      /\ run.tool # "zero" /\ (q = "code" => run.pc = "impdata")
  BY <1>1, StepsAre
<1>3. run' = [run EXCEPT !.pc = q, !.bad = TRUE, !.missed = TRUE]
  BY DEF q
<1>4. /\ run' \in Runs
      /\ run'.pc = q /\ run'.bad = TRUE /\ run'.missed = TRUE
      /\ run'.tool = run.tool /\ run'.nt = run.nt /\ run'.inj = run.inj
      /\ run'.imports = run.imports
  BY <1>2, <1>3, Goes
<1>5. TypeOK'
  BY <1>4 DEF TypeOK
<1>6. TableInv' /\ SectionsApart' /\ EntryChainWhole'
  BY DEF TableInv, SectionsApart, EntryChainWhole, EntersAt, CodeReady, Has, Listed, Sections
<1>7. Added /\ run.nt = disk.nt /\ run.inj.vsize = InjSize
  BY DEF RunInv
<1>8. RunInv'
  BY <1>2, <1>4, <1>7 DEF RunInv, Added
<1>9. PiecesInv'
  <2>1. q = "code" => ~Got("code")
    BY <1>2, <1>7 DEF PiecesInv, Got, Has, Added
  <2>2. run.tool = "console" => Listed(run.inj.va)
    BY DEF PiecesInv, Filling
  <2> QED
    BY <1>2, <1>4, <2>1, <2>2 DEF PiecesInv, Got, Has, Listed
<1>10. CountInv'
  BY <1>2, <1>4 DEF CountInv
<1>11. DanglesInv'
  BY <1>4 DEF DanglesInv, Backed, Has, Sections, Pending, Short
<1>12. TlsInv'
  BY <1>4 DEF TlsInv, LostForGood, TlsWhole, Has, Sections, Filling
<1> QED
  BY <1>5, <1>6, <1>8, <1>9, <1>10, <1>11, <1>12

-----------------------------------------------------------------------------
\* A write into the new section that does.
LEMMA PieceStep ==
  ASSUME TypeOK, PeInv, run.pc \in Filling \ {"tls", "oep"}, ~run.bad,
         NEW D \in SUBSET [raw : Nat, kind : Kinds, ref : Nat],
         NEW e \in Nat, disk.eof <= e,
         disk' = [disk EXCEPT !.data = D, !.eof = e],
         \A p \in disk.data : \E r \in D : r.raw = p.raw /\ r.kind = p.kind,
         \A p \in D : \/ p \in disk.data
                      \/ /\ p.raw = run.inj.raw
                         /\ p.kind = (IF run.pc = "impdata" THEN "imports" ELSE run.pc)
                         /\ run.pc = "code" => p.ref = disk.nt.oep,
         run.pc \notin {"blank", "zeros"} => \E r \in D :
           r.raw = run.inj.raw /\ r.kind = (IF run.pc = "impdata" THEN "imports" ELSE run.pc),
         run.pc \in {"blank", "zeros"} => run.inj.raw + run.inj.rawsize <= e,
         run' = [run EXCEPT !.pc = Following(run.tool, run.pc)],
         UNCHANGED <<runs, shortRuns>>
  PROVE  TypeOK' /\ PeInv'
<1> DEFINE q == Following(run.tool, run.pc)
           n == disk.nt.nsec
<1> USE DEF PeInv
<1>1. <<run.tool, run.pc, q>> \in Steps
  BY FillingGoes
<1>2. run' = [run EXCEPT !.pc = q]
  OBVIOUS
<1> HIDE DEF q
<1>3. /\ run.tool \in DOMAIN Program /\ q \in Places(run.tool) /\ q \in Labels
      /\ q \in {"done", "code", "zeros", "oep", "name", "callback", "array", "tlsdir", "tls"}
      /\ run.tool # "zero" /\ (q = "code" => run.pc = "impdata")
  BY <1>1, StepsAre
<1>4. /\ run' \in Runs
      /\ run'.pc = q /\ run'.bad = run.bad /\ run'.missed = run.missed
      /\ run'.tool = run.tool /\ run'.nt = run.nt /\ run'.inj = run.inj
      /\ run'.imports = run.imports
  BY <1>2, <1>3, GoesOn, Goes, FileTypes, ZenonT(60)
<1>5. /\ Added /\ run.nt = disk.nt /\ run.bad = run.missed /\ disk.table[n] = run.inj
      /\ run.inj.vsize = InjSize
  BY DEF RunInv, Filling, Added
<1>6. n \in Sections /\ Sections = 1 .. n
  BY SectionTypes DEF Sections
<1>7. \A p \in D : \E i \in Sections : p.raw = disk.table[i].raw
  BY <1>5, <1>6 DEF TableInv
<1>8. \A p \in D : p.kind = "code" =>
        \/ p \in disk.data
        \/ p.raw = disk.table[n].raw /\ p.ref = disk.nt.oep /\ ~Got("code")
  <2>1. run.pc = "code" => ~Got("code")
    BY DEF PiecesInv
  <2> QED
    BY <1>5, <2>1
<1>9. /\ disk' \in Files
      /\ disk'.nt = disk.nt /\ disk'.table = disk.table /\ disk'.imports = disk.imports
      /\ disk'.clobbered = disk.clobbered /\ disk'.data = D /\ disk'.eof = e
      /\ TableInv' /\ SectionsApart' /\ EntryChainWhole'
      /\ \A i \in Sections, kind \in Kinds : Has(i, kind) => Has(i, kind)'
  BY <1>7, <1>8, DataStep
<1>10. TypeOK'
  BY <1>4, <1>9 DEF TypeOK
<1>11. Sections' = Sections
  BY <1>9 DEF Sections
<1>12. RunInv'
  BY <1>3, <1>4, <1>5, <1>9 DEF RunInv, Added
<1>13. CountInv'
  BY <1>3, <1>4, <1>9 DEF CountInv
<1>14. {"imports", "code", "name", "callback", "array", "tlsdir"} = Kinds
  BY DEF Kinds
<1>15. PiecesInv'
  <2>1. q = "code" => ~Got("code")'
    <3>1. SUFFICES ASSUME q = "code" PROVE ~Got("code")'
      OBVIOUS
    <3>2. run.pc = "impdata"
      BY <1>3, <3>1
    <3>3. \A p \in D : p.raw = run.inj.raw => p.kind = "imports"
      BY <3>2 DEF PiecesInv
    <3> QED
      BY <1>5, <1>9, <3>3 DEF Got, Has
  <2>2. run.tool = "console" => Listed(run.inj.va)'
    BY <1>9 DEF PiecesInv, Filling, Listed
  <2>3. \A kind \in Kinds : Got(kind) => Got(kind)'
    BY <1>6, <1>9 DEF Got
  <2>4. /\ run.pc = "impdata" => Got("imports")'
        /\ run.pc = "code" => Got("code")'
        /\ run.pc = "name" => Got("name")'
        /\ run.pc = "callback" => Got("callback")'
        /\ run.pc = "array" => Got("array")'
        /\ run.pc = "tlsdir" => Got("tlsdir")'
    BY <1>5, <1>9 DEF Got, Has
  <2>5. ~run.missed /\ run.tool = "console" =>
          /\ q \in {"code", "zeros", "oep", "done"} => Got("imports")'
          /\ q \in {"zeros", "oep", "done"} => Got("code")'
    <3> SUFFICES ASSUME ~run.missed, run.tool = "console"
                 PROVE  /\ q \in {"code", "zeros", "oep", "done"} => Got("imports")'
                        /\ q \in {"zeros", "oep", "done"} => Got("code")'
      OBVIOUS
    <3>1. /\ q = "code" => run.pc = "impdata"
          /\ q = "zeros" => run.pc = "code"
          /\ q = "oep" => run.pc = "zeros"
          /\ q # "done"
      BY <1>1, StepsAre
    <3>2. /\ run.pc \in {"code", "zeros"} => Got("imports")
          /\ run.pc = "zeros" => Got("code")
      BY DEF PiecesInv
    <3> QED
      BY <1>14, <2>3, <2>4, <3>1, <3>2
  <2>6. ~run.missed /\ run.tool = "injector" =>
          /\ q \in {"callback", "array", "tlsdir", "tls", "done"} => Got("name")'
          /\ q \in {"array", "tlsdir", "tls", "done"} => Got("callback")'
          /\ q \in {"tlsdir", "tls", "done"} => Got("array")'
          /\ q \in {"tls", "done"} => Got("tlsdir")'
    <3> SUFFICES ASSUME ~run.missed, run.tool = "injector"
                 PROVE  /\ q \in {"callback", "array", "tlsdir", "tls", "done"} => Got("name")'
                        /\ q \in {"array", "tlsdir", "tls", "done"} => Got("callback")'
                        /\ q \in {"tlsdir", "tls", "done"} => Got("array")'
                        /\ q \in {"tls", "done"} => Got("tlsdir")'
      OBVIOUS
    <3>1. /\ q = "callback" => run.pc = "name"
          /\ q = "array" => run.pc = "callback"
          /\ q = "tlsdir" => run.pc = "array"
          /\ q = "tls" => run.pc = "tlsdir"
          /\ q # "done"
      BY <1>1, StepsAre
    <3>2. /\ run.pc \in {"callback", "array", "tlsdir"} => Got("name")
          /\ run.pc \in {"array", "tlsdir"} => Got("callback")
          /\ run.pc = "tlsdir" => Got("array")
      BY DEF PiecesInv
    <3> QED
      BY <1>14, <2>3, <2>4, <3>1, <3>2
  <2>7. ~run.missed /\ run.tool # "zero" =>
          /\ q \in {"name", "callback", "array", "tlsdir", "tls", "oep", "done"} =>
               run.inj.raw + run.inj.rawsize <= e
    <3>1. \/ run.pc \in {"blank", "zeros"}
          \/ run.pc \in {"name", "callback", "array", "tlsdir"}
          \/ q \in {"code", "zeros"}
      <4>1. run.pc \in {"impdata", "code"} => q \in {"code", "zeros"}
        BY <1>1 DEF Steps
      <4> QED
        BY <4>1 DEF Filling
    <3>2. ~run.missed /\ run.pc \in {"name", "callback", "array", "tlsdir"} =>
            run.inj.raw + run.inj.rawsize <= disk.eof
      BY <1>3 DEF PiecesInv
    <3>3. run.inj.raw + run.inj.rawsize \in Nat /\ disk.eof \in Nat
      BY FileTypes, SMTT(30) DEF SectionHeaders
    <3> QED
      BY <3>1, <3>2, <3>3
  <2> QED
    BY <1>3, <1>4, <1>9, <2>1, <2>2, <2>5, <2>6, <2>7 DEF PiecesInv
<1>16. DanglesInv'
  <2> SUFFICES ASSUME NEW k \in DOMAIN disk.imports
               PROVE  LET va == disk.imports[k] IN
                      va \in {0} \cup Short("console") \/ Backed(va)' \/ Pending(va)'
    BY <1>9 DEF DanglesInv, Short
  <2> DEFINE va == disk.imports[k]
  <2>1. CASE va \in {0} \cup Short("console")
    BY <2>1
  <2>2. CASE Backed(va)
    BY <1>9, <1>11, <1>14, <2>2 DEF Backed
  <2>3. CASE Pending(va)
    <3>1. CASE run.missed
      BY <1>4, <2>3, <3>1 DEF Pending
    <3>2. CASE run.pc = "impdata"
      <4>1. Has(n, "imports")'
        BY <1>5, <1>9, <3>2 DEF Has
      <4> QED
        BY <1>5, <1>6, <1>9, <1>11, <2>3, <4>1 DEF Backed, Pending
    <3> QED
      BY <2>3, <3>1, <3>2 DEF Pending, Filling
  <2> QED
    BY <2>1, <2>2, <2>3 DEF DanglesInv
<1>17. TlsInv'
  <2>1. CASE disk.nt.tls = 0 \/ LostForGood(disk.nt.tls)
    BY <1>9, <2>1 DEF TlsInv, LostForGood, Filling
  <2>2. CASE \E i \in Sections : disk.table[i].va = disk.nt.tls /\ TlsWhole(i)
    BY <1>9, <1>11, <1>14, <2>2 DEF TlsInv, TlsWhole
  <2> QED
    BY <2>1, <2>2 DEF TlsInv
<1> QED
  BY <1>9, <1>10, <1>12, <1>13, <1>15, <1>16, <1>17

-----------------------------------------------------------------------------
\* A write succeeds, or the stream is bad from now on.
SaveDone(d, e) ==
  /\ ~run.bad /\ disk' = [d EXCEPT !.eof = e]
  /\ run' = [run EXCEPT !.pc = Following(run.tool, run.pc)]
SaveMissed ==
  /\ disk' = disk
  /\ run' = [run EXCEPT !.pc = Following(run.tool, run.pc), !.bad = TRUE, !.missed = TRUE]

LEMMA SaveCases ==
  ASSUME TypeOK, NEW pc, NEW d, NEW end \in Nat, d.eof = disk.eof, Save(pc, d, end)
  PROVE  /\ run.pc = pc /\ UNCHANGED <<runs, shortRuns>>
         /\ \/ \E e \in Nat : /\ disk.eof <= e /\ end <= e /\ (end <= disk.eof => e = disk.eof)
                              /\ SaveDone(d, e)
            \/ (run.bad \/ end > disk.eof) /\ SaveMissed
<1>1. disk.eof \in Nat
  BY FileTypes
<1>2. run.pc = pc /\ UNCHANGED <<runs, shortRuns>>
  BY DEF Save
<1>3. CASE /\ ~run.bad
           /\ disk' = [d EXCEPT !.eof = IF end > @ THEN end ELSE @]
           /\ run' = [run EXCEPT !.pc = Following(run.tool, pc)]
  <2> DEFINE e == IF end > disk.eof THEN end ELSE disk.eof
  <2>1. e \in Nat /\ disk.eof <= e /\ end <= e /\ (end <= disk.eof => e = disk.eof)
    BY <1>1
  <2>2. SaveDone(d, e)
    BY <1>2, <1>3 DEF SaveDone
  <2> HIDE DEF e
  <2> QED
    BY <1>2, <2>1, <2>2
<1>4. CASE /\ run.bad \/ end > disk.eof
           /\ disk' = disk
           /\ run' = [run EXCEPT !.pc = Following(run.tool, pc), !.bad = TRUE, !.missed = TRUE]
  BY <1>2, <1>4 DEF SaveMissed
<1> QED
  BY <1>3, <1>4 DEF Save

\* What is written of the console's and the injector's section.
LEMMA PieceWritten ==
  ASSUME TypeOK, PeInv, NEW pc \in Filling \ {"tls", "oep", "blank", "zeros"},
         NEW kind \in Kinds, kind = (IF pc = "impdata" THEN "imports" ELSE pc),
         NEW ref \in Nat, pc = "code" => ref = disk.nt.oep,
         NEW end \in Nat, Save(pc, Written(Part(kind, ref)), end)
  PROVE  TypeOK' /\ PeInv'
<1> DEFINE part == [raw |-> run.inj.raw, kind |-> kind, ref |-> ref]
           D == {p \in disk.data : p.raw # run.inj.raw \/ p.kind # kind} \cup {part}
           d == [disk EXCEPT !.data = D]
<1>1. Written(Part(kind, ref)) = d
  BY DEF Written, Part
<1>2. d.eof = disk.eof
  <2>1. \A X : [disk EXCEPT !.data = X].eof = disk.eof
    BY DEF TypeOK, Files
  <2> QED
    BY <2>1
<1>3. /\ run.pc = pc /\ UNCHANGED <<runs, shortRuns>>
      /\ \/ \E e \in Nat : disk.eof <= e /\ SaveDone(d, e)
         \/ SaveMissed
  <2>1. Save(pc, d, end)
    BY <1>1
  <2> HIDE DEF d
  <2> QED
    BY <1>2, <2>1, SaveCases
<1>4. CASE SaveMissed
  BY <1>3, <1>4, MissedStep DEF SaveMissed
<1>5. ASSUME NEW e \in Nat, disk.eof <= e, SaveDone(d, e)
      PROVE  TypeOK' /\ PeInv'
  <2>1. disk.data \subseteq [raw : Nat, kind : Kinds, ref : Nat] /\ run.inj.raw \in Nat
    BY FileTypes DEF SectionHeaders
  <2>2. D \in SUBSET [raw : Nat, kind : Kinds, ref : Nat]
    BY <2>1
  <2>3. \A p \in disk.data : \E r \in D : r.raw = p.raw /\ r.kind = p.kind
    <3>1. part \in D /\ part.raw = run.inj.raw /\ part.kind = kind
      OBVIOUS
    <3>2. \A p \in disk.data : p \in D \/ (p.raw = run.inj.raw /\ p.kind = kind)
      OBVIOUS
    <3> HIDE DEF D, part
    <3> QED
      BY <3>1, <3>2
  <2>4. \A p \in D : \/ p \in disk.data
                     \/ /\ p.raw = run.inj.raw /\ p.kind = kind
                        /\ run.pc = "code" => p.ref = disk.nt.oep
    BY <1>3
  <2>5. \E r \in D : r.raw = run.inj.raw /\ r.kind = kind
    <3>1. part \in D /\ part.raw = run.inj.raw /\ part.kind = kind
      OBVIOUS
    <3> HIDE DEF D, part
    <3> QED
      BY <3>1
  <2>6. disk' = [disk EXCEPT !.data = D, !.eof = e]
    BY <1>5 DEF SaveDone, TypeOK, Files
  <2> HIDE DEF D
  <2> QED
    BY <1>3, <1>5, <2>2, <2>3, <2>4, <2>5, <2>6, PieceStep DEF SaveDone
<1> QED
  BY <1>3, <1>4, <1>5

LEMMA PiecesKeep ==
  ASSUME TypeOK, PeInv,
         WriteImportData \/ WriteCode \/ WriteName \/ WriteCallback \/ WriteArray
           \/ WriteTlsDir
  PROVE  TypeOK' /\ PeInv'
<1>1. /\ run.inj.va \in Nat /\ run.inj.raw \in Nat /\ run.nt.oep \in Nat
      /\ InjSize \in Nat /\ 0 \in Nat
  BY FileTypes, ImageAssumption DEF SectionHeaders, Headers
<1>2. End(1) \in Nat /\ End(CodeOffset + 1) \in Nat /\ End(InjSize) \in Nat
  BY <1>1 DEF End, CodeOffset
<1>3. Kinds = {"imports", "code", "name", "callback", "array", "tlsdir"}
  BY DEF Kinds
<1>4. run.pc = "code" => run.nt.oep = disk.nt.oep
  BY DEF PeInv, RunInv, Filling
<1>5. CASE WriteImportData
  <2>1. "impdata" \in Filling \ {"tls", "oep", "blank", "zeros"}
    BY DEF Filling
  <2> QED
    BY <1>1, <1>2, <1>3, <1>5, <2>1, PieceWritten DEF WriteImportData
<1>6. CASE WriteCode
  <2>1. "code" \in Filling \ {"tls", "oep", "blank", "zeros"}
    BY DEF Filling
  <2> QED
    <3>1. run.pc = "code"
      BY <1>6 DEF WriteCode, Save
    <3> QED
      BY <1>1, <1>2, <1>3, <1>4, <1>6, <2>1, <3>1, PieceWritten DEF WriteCode
<1>7. CASE WriteName
  <2>1. "name" \in Filling \ {"tls", "oep", "blank", "zeros"}
    BY DEF Filling
  <2> QED
    BY <1>1, <1>2, <1>3, <1>7, <2>1, PieceWritten DEF WriteName
<1>8. CASE WriteCallback
  <2>1. "callback" \in Filling \ {"tls", "oep", "blank", "zeros"}
    BY DEF Filling
  <2> QED
    BY <1>1, <1>2, <1>3, <1>8, <2>1, PieceWritten DEF WriteCallback
<1>9. CASE WriteArray
  <2>1. "array" \in Filling \ {"tls", "oep", "blank", "zeros"}
    BY DEF Filling
  <2> QED
    BY <1>1, <1>2, <1>3, <1>9, <2>1, PieceWritten DEF WriteArray
<1>10. CASE WriteTlsDir
  <2>1. "tlsdir" \in Filling \ {"tls", "oep", "blank", "zeros"}
    BY DEF Filling
  <2> QED
    BY <1>1, <1>2, <1>3, <1>10, <2>1, PieceWritten DEF WriteTlsDir
<1> QED
  BY <1>5, <1>6, <1>7, <1>8, <1>9, <1>10

\* Zeros, behind what there is or over what nobody has written.
LEMMA ZerosKeep ==
  ASSUME TypeOK, PeInv, NEW pc \in {"blank", "zeros"}, NEW d,
         d = [disk EXCEPT !.data = disk.data],
         Save(pc, d, End(run.inj.rawsize))
  PROVE  TypeOK' /\ PeInv'
<1>1. d.eof = disk.eof /\ d = disk
  BY DEF TypeOK, Files
<1>2. /\ End(run.inj.rawsize) \in Nat
      /\ End(run.inj.rawsize) = run.inj.raw + run.inj.rawsize
  BY FileTypes, SMTT(30) DEF End, SectionHeaders
<1>3. /\ run.pc = pc /\ UNCHANGED <<runs, shortRuns>>
      /\ \/ \E e \in Nat : /\ disk.eof <= e /\ run.inj.raw + run.inj.rawsize <= e
                           /\ SaveDone(d, e)
         \/ SaveMissed
  BY <1>1, <1>2, SaveCases
<1>4. pc \in Filling \ {"tls", "oep"}
  BY DEF Filling
<1>5. CASE SaveMissed
  BY <1>3, <1>4, <1>5, MissedStep DEF SaveMissed
<1>6. ASSUME NEW e \in Nat, disk.eof <= e, run.inj.raw + run.inj.rawsize <= e, SaveDone(d, e)
      PROVE  TypeOK' /\ PeInv'
  <2>1. disk.data \in SUBSET [raw : Nat, kind : Kinds, ref : Nat]
    BY FileTypes
  <2>2. disk' = [disk EXCEPT !.data = disk.data, !.eof = e]
    BY <1>1, <1>6 DEF SaveDone, TypeOK, Files
  <2> QED
    BY <1>3, <1>4, <1>6, <2>1, <2>2, PieceStep DEF SaveDone
<1> QED
  BY <1>3, <1>5, <1>6

LEMMA BlankKeeps ==
  ASSUME TypeOK, PeInv, WriteBlank \/ WriteZeros
  PROVE  TypeOK' /\ PeInv'
<1>1. disk = [disk EXCEPT !.data = disk.data]
  BY DEF TypeOK, Files
<1>2. CASE WriteZeros
  BY <1>1, <1>2, ZerosKeep DEF WriteZeros
<1>3. CASE WriteBlank
  <2>1. run.pc = "blank"
    BY <1>3 DEF WriteBlank, Save
  <2>2. {p \in disk.data : p.raw # run.inj.raw} = disk.data
    BY <2>1 DEF PeInv, PiecesInv
  <2> QED
    BY <1>3, <2>2, ZerosKeep DEF WriteBlank
<1> QED
  BY <1>2, <1>3

-----------------------------------------------------------------------------
\* Steps that write the headers of the sections there are, or more imports.
\* Such a write is never missed before the section is filled.
LEMMA EarlyWrites ==
  ASSUME TypeOK, PeInv, NEW pc \in {"laa", "nt", "imports", "header"}, NEW d,
         d.eof = disk.eof, Save(pc, d, 0)
  PROVE  /\ run.pc = pc /\ UNCHANGED <<runs, shortRuns>> /\ ~run.bad /\ ~run.missed
         /\ disk' = [d EXCEPT !.eof = disk.eof]
         /\ run' = [run EXCEPT !.pc = Following(run.tool, pc)]
<1>1. disk.eof \in Nat /\ 0 \in Nat /\ ~(0 > disk.eof)
  BY FileTypes
<1>2. /\ run.pc = pc /\ UNCHANGED <<runs, shortRuns>>
      /\ \/ \E e \in Nat : (0 <= disk.eof => e = disk.eof) /\ SaveDone(d, e)
         \/ run.bad \/ 0 > disk.eof
  BY <1>1, SaveCases
<1>3. ~run.missed /\ ~run.bad
  BY <1>2 DEF PeInv, RunInv
<1>4. SaveDone(d, disk.eof)
  BY <1>1, <1>2, <1>3
<1> QED
  BY <1>2, <1>3, <1>4 DEF SaveDone

\* The section programs would add is the same as long as headers and table are.
LEMMA SameSection ==
  ASSUME disk'.nt = disk.nt, disk'.table = disk.table
  PROVE  NewSection' = NewSection /\ NewHeaders' = NewHeaders
  BY DEF NewSection, NewHeaders, WithSection

LEMMA LaaKeeps ==
  ASSUME TypeOK, PeInv, WriteLAA
  PROVE  TypeOK' /\ PeInv'
<1> DEFINE d == [disk EXCEPT !.nt = run.nt]
<1>1. d.eof = disk.eof
  BY DEF TypeOK, Files
<1>2. /\ run.pc = "laa" /\ UNCHANGED <<runs, shortRuns>> /\ ~run.bad /\ ~run.missed
      /\ disk' = [d EXCEPT !.eof = disk.eof]
      /\ run' = [run EXCEPT !.pc = Following(run.tool, "laa")]
  BY <1>1, EarlyWrites DEF WriteLAA, WriteNt
<1>3. run.tool = "redone" /\ Following(run.tool, "laa") = "inject"
  <2>1. run.tool \in DOMAIN Program /\ "laa" \in Places(run.tool)
    BY <1>2 DEF PeInv, RunInv
  <2> QED
    BY <2>1, PlacesAre, RedoneOrder
<1>4. run.nt = [disk.nt EXCEPT !.laa = TRUE] /\ run.nt \in Headers
  BY <1>2, FileTypes DEF PeInv, RunInv
<1>5. /\ run.nt.nsec = disk.nt.nsec /\ run.nt.size = disk.nt.size /\ run.nt.laa
      /\ run.nt.oep = disk.nt.oep /\ run.nt.tls = disk.nt.tls
  BY <1>4, FileTypes DEF Headers
<1>6. disk' = [disk EXCEPT !.nt = run.nt, !.imports = disk.imports,
                           !.clobbered = disk.clobbered]
  BY <1>2 DEF TypeOK, Files
<1>7. EntersAt(run.nt.oep, disk.nt.nsec)
  BY <1>5 DEF PeInv, EntryChainWhole
<1>8. /\ disk' \in Files
      /\ disk'.nt = run.nt /\ disk'.table = disk.table /\ disk'.imports = disk.imports
      /\ disk'.clobbered = disk.clobbered /\ disk'.data = disk.data /\ disk'.eof = disk.eof
      /\ TableInv' /\ SectionsApart' /\ EntryChainWhole'
  BY <1>4, <1>5, <1>6, <1>7, FileTypes, HeadersStep DEF PeInv
<1>9. /\ run' \in Runs /\ run'.pc = "inject" /\ run'.bad = run.bad /\ run'.missed = run.missed
      /\ run'.tool = run.tool /\ run'.nt = run.nt /\ run'.inj = run.inj
  BY <1>2, <1>3, GoesOn, Goes, FileTypes, LabelsAre, ZenonT(60)
<1>10. TypeOK'
  BY <1>2, <1>5, <1>8, <1>9 DEF TypeOK
<1>11. Sections' = Sections
  BY <1>5, <1>8 DEF Sections
<1>12. RunInv'
  BY <1>2, <1>3, <1>5, <1>8, <1>9, PlacesAre DEF PeInv, RunInv, Filling
<1>13. PiecesInv' /\ CountInv'
  BY <1>2, <1>3, <1>5, <1>8, <1>9 DEF PeInv, PiecesInv, CountInv
<1>14. DanglesInv' /\ TlsInv'
  BY <1>2, <1>3, <1>5, <1>8, <1>9, <1>11
  DEF PeInv, DanglesInv, Short, Backed, Has, Pending, TlsInv, LostForGood, TlsWhole
<1> QED
  BY <1>8, <1>10, <1>12, <1>13, <1>14 DEF PeInv

LEMMA ZeroKeeps ==
  ASSUME TypeOK, PeInv, WriteZero
  PROVE  TypeOK' /\ PeInv'
<1> DEFINE d == [disk EXCEPT !.nt = run.nt]
<1>1. d.eof = disk.eof
  BY DEF TypeOK, Files
<1>2. /\ run.pc = "nt" /\ UNCHANGED <<runs, shortRuns>> /\ ~run.bad /\ ~run.missed
      /\ disk' = [d EXCEPT !.eof = disk.eof]
      /\ run' = [run EXCEPT !.pc = Following(run.tool, "nt")]
  BY <1>1, EarlyWrites DEF WriteZero, WriteNt
<1>3. run.tool = "zero" /\ Following(run.tool, "nt") = "done"
  <2>1. run.tool \in DOMAIN Program /\ "nt" \in Places(run.tool)
    BY <1>2 DEF PeInv, RunInv
  <2> QED
    BY <2>1, PlacesAre, ZeroOrder
<1>4. run.nt = [disk.nt EXCEPT !.debug = FALSE] /\ run.nt \in Headers
  BY <1>2, FileTypes DEF PeInv, RunInv
<1>5. /\ run.nt.nsec = disk.nt.nsec /\ run.nt.size = disk.nt.size
      /\ run.nt.oep = disk.nt.oep /\ run.nt.tls = disk.nt.tls
  BY <1>4, FileTypes DEF Headers
<1>6. disk' = [disk EXCEPT !.nt = run.nt, !.imports = disk.imports,
                           !.clobbered = disk.clobbered]
  BY <1>2 DEF TypeOK, Files
<1>7. EntersAt(run.nt.oep, disk.nt.nsec)
  BY <1>5 DEF PeInv, EntryChainWhole
<1>8. /\ disk' \in Files
      /\ disk'.nt = run.nt /\ disk'.table = disk.table /\ disk'.imports = disk.imports
      /\ disk'.clobbered = disk.clobbered /\ disk'.data = disk.data /\ disk'.eof = disk.eof
      /\ TableInv' /\ SectionsApart' /\ EntryChainWhole'
  BY <1>4, <1>5, <1>6, <1>7, FileTypes, HeadersStep DEF PeInv
<1>9. /\ run' \in Runs /\ run'.pc = "done" /\ run'.bad = run.bad /\ run'.missed = run.missed
      /\ run'.tool = run.tool /\ run'.nt = run.nt /\ run'.inj = run.inj
  BY <1>2, <1>3, GoesOn, Goes, FileTypes, LabelsAre
<1>10. TypeOK'
  BY <1>2, <1>5, <1>8, <1>9 DEF TypeOK
<1>11. Sections' = Sections
  BY <1>5, <1>8 DEF Sections
<1>12. RunInv'
  BY <1>2, <1>3, <1>5, <1>8, <1>9, PlacesAre DEF PeInv, RunInv, Filling
<1>13. PiecesInv' /\ CountInv'
  BY <1>2, <1>3, <1>5, <1>8, <1>9 DEF PeInv, PiecesInv, CountInv
<1>14. DanglesInv' /\ TlsInv'
  BY <1>2, <1>3, <1>5, <1>8, <1>9, <1>11
  DEF PeInv, DanglesInv, Short, Backed, Has, Pending, TlsInv, LostForGood, TlsWhole
<1> QED
  BY <1>8, <1>10, <1>12, <1>13, <1>14 DEF PeInv

LEMMA ImportsKeep ==
  ASSUME TypeOK, PeInv, WriteImports
  PROVE  TypeOK' /\ PeInv'
<1> DEFINE c == disk.clobbered \/ Len(run.imports) > ImportRoom
           d == [disk EXCEPT !.imports = run.imports, !.clobbered = c]
<1>1. d.eof = disk.eof
  BY DEF TypeOK, Files
<1>2. /\ run.pc = "imports" /\ UNCHANGED <<runs, shortRuns>> /\ ~run.bad /\ ~run.missed
      /\ disk' = [d EXCEPT !.eof = disk.eof]
      /\ run' = [run EXCEPT !.pc = Following(run.tool, "imports")]
  <2>1. Save("imports", d, 0)
    BY DEF WriteImports
  <2> HIDE DEF d
  <2> QED
    BY <1>1, <2>1, EarlyWrites
<1>3. run.tool = "console" /\ Following(run.tool, "imports") = "header"
  <2>1. run.tool \in DOMAIN Program /\ "imports" \in Places(run.tool)
    BY <1>2 DEF PeInv, RunInv
  <2> QED
    BY <2>1, PlacesAre, ConsoleOrder
<1>4. /\ run.imports = Append(disk.imports, run.inj.va) /\ run.imports \in Seq(Nat)
      /\ run.nt = NewHeaders /\ run.inj = NewSection
  BY <1>2, FileTypes DEF PeInv, RunInv
<1>5. /\ Len(run.imports) = Len(disk.imports) + 1 /\ Len(disk.imports) \in Nat
      /\ run.imports[Len(disk.imports) + 1] = run.inj.va
      /\ \A k \in DOMAIN disk.imports : k \in DOMAIN run.imports
                                         /\ run.imports[k] = disk.imports[k]
      /\ DOMAIN run.imports = 1 .. Len(disk.imports) + 1
      /\ DOMAIN disk.imports = 1 .. Len(disk.imports)
  <2>1. disk.imports \in Seq(Nat) /\ run.inj.va \in Nat
    BY FileTypes DEF SectionHeaders
  <2> QED
    BY <1>4, <2>1
<1>6. disk' = [disk EXCEPT !.nt = disk.nt, !.imports = run.imports, !.clobbered = c]
  BY <1>2 DEF TypeOK, Files
<1>7. EntersAt(disk.nt.oep, disk.nt.nsec) /\ c \in BOOLEAN
  BY DEF PeInv, EntryChainWhole
<1> HIDE DEF c
<1>8. /\ disk' \in Files
      /\ disk'.nt = disk.nt /\ disk'.table = disk.table /\ disk'.imports = run.imports
      /\ disk'.clobbered = c /\ disk'.data = disk.data /\ disk'.eof = disk.eof
      /\ TableInv' /\ SectionsApart' /\ EntryChainWhole'
  BY <1>4, <1>5, <1>6, <1>7, FileTypes, HeadersStep DEF PeInv
<1>9. /\ run' \in Runs /\ run'.pc = "header" /\ run'.bad = run.bad /\ run'.missed = run.missed
      /\ run'.tool = run.tool /\ run'.nt = run.nt /\ run'.inj = run.inj
      /\ run'.imports = run.imports
  BY <1>2, <1>3, GoesOn, Goes, FileTypes, LabelsAre
<1>10. TypeOK'
  BY <1>2, <1>8, <1>9 DEF TypeOK
<1>11. Sections' = Sections
  BY <1>8 DEF Sections
<1>12. RunInv'
  BY <1>2, <1>3, <1>4, <1>8, <1>9, SameSection, PlacesAre DEF PeInv, RunInv, Filling
<1>13. PiecesInv'
  <2>1. Listed(run.inj.va)'
    BY <1>5, <1>8, <1>9 DEF Listed
  <2>2. run'.pc = "header" /\ run'.tool = "console"
    BY <1>3, <1>9
  <2> QED
    BY ONLY <2>1, <2>2 DEF PiecesInv
<1>14. CountInv'
  <2>1. /\ disk.nt.nsec <= runs /\ Len(disk.imports) < OwnImports + runs
        /\ disk.clobbered => disk.nt.nsec > HeaderRoom \/ Len(disk.imports) > ImportRoom
    BY <1>2 DEF PeInv, CountInv
  <2>2. /\ OwnImports \in Nat /\ runs \in Nat /\ disk.nt.nsec \in Nat
        /\ HeaderRoom \in Nat /\ ImportRoom \in Nat
    BY FileTypes, ImageAssumption
  <2> QED
    <3>1. disk'.clobbered => disk.clobbered \/ Len(run.imports) > ImportRoom
      BY <1>8, Zenon DEF c
    <3>2. /\ disk'.nt = disk.nt /\ disk'.imports = run.imports /\ runs' = runs
          /\ run'.pc = "header"
      BY <1>2, <1>8, <1>9
    <3>3. Len(run.imports) = Len(disk.imports) + 1 /\ Len(disk.imports) \in Nat
      BY <1>5
    <3>4. disk'.clobbered =>
            disk.nt.nsec > HeaderRoom \/ Len(run.imports) > ImportRoom
      BY ONLY <2>1, <2>2, <3>1, <3>3
    <3> QED
      BY ONLY <2>1, <2>2, <3>2, <3>3, <3>4 DEF CountInv
<1>15. DanglesInv'
  <2> SUFFICES ASSUME NEW k \in 1 .. Len(disk.imports) + 1
               PROVE  LET va == run.imports[k] IN
                      va \in {0} \cup Short("console") \/ Backed(va)' \/ Pending(va)'
    BY <1>2, <1>5, <1>8 DEF DanglesInv, Short
  <2>1. CASE k = Len(disk.imports) + 1
    BY <1>3, <1>5, <1>9, <2>1 DEF Pending
  <2>2. CASE k # Len(disk.imports) + 1
    <3>1. k \in DOMAIN disk.imports /\ run.imports[k] = disk.imports[k]
      BY <1>5, <2>2
    <3>2. ~Pending(disk.imports[k])
      BY <1>2 DEF Pending
    <3> QED
      <4>1. \/ disk.imports[k] \in {0} \cup Short("console")
            \/ \E i \in Sections : /\ disk.table[i].va = disk.imports[k]
                                  /\ Has(i, "imports")
        BY <3>1, <3>2 DEF PeInv, DanglesInv, Backed
      <4>2. \A i \in Sections : Has(i, "imports") => Has(i, "imports")'
        BY <1>8 DEF Has
      <4>3. disk'.table = disk.table /\ run'.imports = run.imports
        BY <1>8, <1>9
      <4> QED
        BY <1>11, <3>1, <4>1, <4>2, <4>3 DEF Backed
  <2> QED
    BY <2>1, <2>2
<1>16. TlsInv'
  BY <1>2, <1>3, <1>8, <1>9, <1>11 DEF PeInv, TlsInv, LostForGood, TlsWhole, Has
<1> QED
  BY <1>8, <1>10, <1>12, <1>13, <1>14, <1>15, <1>16 DEF PeInv

-----------------------------------------------------------------------------
\* The headers, the table and the new section.
LEMMA HeaderKeeps ==
  ASSUME TypeOK, PeInv, WriteHeader
  PROVE  TypeOK' /\ PeInv'
<1> DEFINE n == disk.nt.nsec
           c == disk.clobbered \/ run.nt.nsec > HeaderRoom
           d == [disk EXCEPT !.nt = run.nt,
                             !.table = SubSeq(@, 1, run.nt.nsec - 1) \o <<run.inj>>,
                             !.clobbered = c]
<1>1. d.eof = disk.eof
  <2>1. \A X, Y, Z : [disk EXCEPT !.nt = X, !.table = Y, !.clobbered = Z].eof = disk.eof
    BY DEF TypeOK, Files
  <2> QED
    BY <2>1
<1>2. /\ run.pc = "header" /\ UNCHANGED <<runs, shortRuns>> /\ ~run.bad /\ ~run.missed
      /\ disk' = [d EXCEPT !.eof = disk.eof]
      /\ run' = [run EXCEPT !.pc = Following(run.tool, "header")]
  <2>1. Save("header", d, 0)
    BY DEF WriteHeader
  <2> HIDE DEF d
  <2> QED
    BY <1>1, <2>1, EarlyWrites
<1>3. \/ run.tool \in {"redone", "injector"} /\ Following(run.tool, "header") = "blank"
      \/ run.tool = "console" /\ Following(run.tool, "header") = "impdata"
  <2>1. run.tool \in DOMAIN Program /\ "header" \in Places(run.tool)
    BY <1>2 DEF PeInv, RunInv
  <2> QED
    BY <2>1, PlacesAre, RedoneOrder, ConsoleOrder, InjectorOrder
<1>4. run.nt = NewHeaders /\ run.inj = NewSection
  BY <1>2 DEF PeInv, RunInv
<1>5. disk' = [disk EXCEPT !.nt = NewHeaders,
                           !.table = SubSeq(@, 1, NewHeaders.nsec - 1) \o <<NewSection>>,
                           !.clobbered = c]
  <2>1. \A X, Y, Z : [[disk EXCEPT !.nt = X, !.table = Y, !.clobbered = Z]
                        EXCEPT !.eof = disk.eof]
                     = [disk EXCEPT !.nt = X, !.table = Y, !.clobbered = Z]
    BY DEF TypeOK, Files
  <2> QED
    BY <1>2, <1>4, <2>1
<1>6. c \in BOOLEAN
  OBVIOUS
<1> HIDE DEF c
<1>7. /\ disk' \in Files
      /\ disk'.nt = NewHeaders /\ disk'.imports = disk.imports
      /\ disk'.clobbered = c /\ disk'.data = disk.data /\ disk'.eof = disk.eof
      /\ disk'.table[n + 1] = NewSection
      /\ \A i \in Sections : disk'.table[i] = disk.table[i]
      /\ \A p \in disk.data : p.raw # NewSection.raw
      /\ TableInv' /\ SectionsApart' /\ EntryChainWhole'
  BY <1>5, <1>6, SectionStep DEF PeInv
<1>8. /\ NewHeaders \in Headers
      /\ NewHeaders.nsec = n + 1 /\ NewHeaders.size = After(NewSection)
      /\ NewHeaders.oep = disk.nt.oep /\ NewHeaders.tls = disk.nt.tls
      /\ NewHeaders.laa
  BY NewHeadersAre DEF PeInv
<1>9. /\ n \in Nat \ {0} /\ Sections = 1 .. n /\ Sections' = 1 .. n + 1
  BY <1>7, <1>8, FileTypes DEF Sections
<1>10. /\ run' \in Runs /\ run'.pc = Following(run.tool, "header")
       /\ run'.bad = run.bad /\ run'.missed = run.missed
       /\ run'.tool = run.tool /\ run'.nt = run.nt /\ run'.inj = run.inj
  BY <1>2, <1>3, GoesOn, Goes, FileTypes, LabelsAre, ZenonT(60)
<1>11. TypeOK'
  <2>1. disk.nt.size <= After(NewSection) /\ After(NewSection) \in Nat
    <3>1. /\ NewSection.va = disk.nt.size /\ NewSection \in SectionHeaders
          /\ NewSection.va + NewSection.vsize <= After(NewSection)
          /\ After(NewSection) \in Nat
      BY NewSectionFits DEF PeInv
    <3> QED
      BY <3>1 DEF SectionHeaders
  <2>2. Len(disk'.table) = disk'.nt.nsec
    BY <1>7 DEF TableInv
  <2>3. /\ disk.nt.oep < disk.nt.size /\ disk.nt.tls < disk.nt.size
        /\ disk.nt.oep \in Nat /\ disk.nt.tls \in Nat /\ disk.nt.size \in Nat
    BY FileTypes DEF TypeOK
  <2>4. disk'.nt.oep < disk'.nt.size /\ disk'.nt.tls < disk'.nt.size
    BY <1>7, <1>8, <2>1, <2>3
  <2>5. disk'.nt.nsec <= Len(disk'.table) /\ runs' \in 0 .. MaxRuns
    BY <1>2, <1>7, <1>8, <1>9, <2>2 DEF TypeOK
  <2> QED
    BY <1>7, <1>10, <2>4, <2>5 DEF TypeOK
<1>12. RunInv'
  <2>1. Added' /\ NewSection.vsize = InjSize
    BY <1>4, <1>7, <1>8, <1>10, NewSectionFits DEF PeInv, Added
  <2>2. run'.tool \in DOMAIN Program /\ run'.pc \in Places(run'.tool)
    BY <1>3, <1>10, PlacesAre
  <2> QED
    <3>1. /\ run'.pc \in {"blank", "impdata"} /\ run'.bad = run'.missed
          /\ run'.nt = disk'.nt /\ run'.inj.vsize = InjSize
      <4>1. run.bad = run.missed
        BY <1>2 DEF PeInv, RunInv
      <4> QED
        BY <1>3, <1>4, <1>7, <1>10, <2>1, <4>1
    <3> QED
      BY ONLY <2>1, <2>2, <3>1 DEF RunInv
<1>13. PiecesInv'
  <2>1. run.tool = "console" => Listed(run.inj.va)'
    BY <1>2, <1>7 DEF PeInv, PiecesInv, Listed
  <2> QED
    BY <1>3, <1>4, <1>7, <1>10, <2>1 DEF PiecesInv, Listed
<1>14. CountInv'
  <2>1. /\ n <= runs /\ Len(disk.imports) <= OwnImports + runs
        /\ disk.clobbered => n > HeaderRoom \/ Len(disk.imports) > ImportRoom
    BY <1>2 DEF PeInv, CountInv
  <2>2. OwnImports \in Nat /\ runs \in Nat /\ HeaderRoom \in Nat /\ ImportRoom \in Nat
    BY FileTypes, ImageAssumption
  <2> QED
    <3>1. disk'.clobbered => disk.clobbered \/ run.nt.nsec > HeaderRoom
      BY <1>7, Zenon DEF c
    <3>2. /\ disk'.nt = NewHeaders /\ disk'.imports = disk.imports /\ runs' = runs
          /\ run'.pc \in {"blank", "impdata"}
      BY <1>2, <1>3, <1>7, <1>10
    <3>3. NewHeaders.nsec = n + 1 /\ n \in Nat /\ run.nt.nsec = n + 1
      BY <1>4, <1>8, <1>9
    <3>4. disk'.clobbered => n + 1 > HeaderRoom \/ Len(disk.imports) > ImportRoom
      BY ONLY <2>1, <2>2, <3>1, <3>3
    <3> HIDE DEF n
    <3> QED
      BY ONLY <2>1, <2>2, <3>2, <3>3, <3>4 DEF CountInv
<1>15. ASSUME NEW i \in Sections
       PROVE  /\ i \in Sections' /\ disk'.table[i] = disk.table[i]
              /\ \A kind \in Kinds : Has(i, kind) => Has(i, kind)'
  BY <1>7, <1>9 DEF Has
<1>16. DanglesInv'
  <2> SUFFICES ASSUME NEW k \in DOMAIN disk.imports
               PROVE  LET va == disk.imports[k] IN
                      va \in {0} \cup Short("console") \/ Backed(va)' \/ Pending(va)'
    BY <1>2, <1>7 DEF DanglesInv, Short
  <2> DEFINE va == disk.imports[k]
  <2>1. CASE Backed(va)
    <3>1. PICK i \in Sections : disk.table[i].va = va /\ Has(i, "imports")
      BY <2>1 DEF Backed
    <3>2. "imports" \in Kinds
      BY DEF Kinds
    <3> QED
      BY <1>7, <1>15, <3>1, <3>2 DEF Backed
  <2>2. CASE Pending(va)
    BY <1>2, <1>3, <1>10, <2>2 DEF Pending
  <2> QED
    BY <2>1, <2>2 DEF PeInv, DanglesInv
<1>17. TlsInv'
  <2>1. CASE disk.nt.tls = 0 \/ LostForGood(disk.nt.tls)
    BY <1>2, <1>7, <1>8, <2>1 DEF TlsInv, LostForGood
  <2>2. CASE \E i \in Sections : disk.table[i].va = disk.nt.tls /\ TlsWhole(i)
    <3>1. PICK i \in Sections : disk.table[i].va = disk.nt.tls /\ TlsWhole(i)
      BY <2>2
    <3>2. {"tlsdir", "array", "callback", "name"} \subseteq Kinds
      BY DEF Kinds
    <3>3. TlsWhole(i)'
      BY <1>15, <3>1, <3>2 DEF TlsWhole
    <3> QED
      BY <1>7, <1>8, <1>15, <3>1, <3>3 DEF TlsInv
  <2> QED
    BY <2>1, <2>2 DEF PeInv, TlsInv
<1> QED
  BY <1>7, <1>11, <1>12, <1>13, <1>14, <1>16, <1>17 DEF PeInv

-----------------------------------------------------------------------------
\* The headers with one field changed.
LEMMA HeadersWith ==
  ASSUME NEW nt \in Headers, NEW x \in Nat
  PROVE  /\ [nt EXCEPT !.oep = x] \in Headers /\ [nt EXCEPT !.tls = x] \in Headers
         /\ LET m == [nt EXCEPT !.oep = x] IN
            /\ m.nsec = nt.nsec /\ m.size = nt.size /\ m.laa = nt.laa /\ m.tls = nt.tls
            /\ m.oep = x
         /\ LET m == [nt EXCEPT !.tls = x] IN
            /\ m.nsec = nt.nsec /\ m.size = nt.size /\ m.laa = nt.laa /\ m.oep = nt.oep
            /\ m.tls = x
  BY DEF Headers

-----------------------------------------------------------------------------
\* The console program turns the entry point to its code.
LEMMA OepKeeps ==
  ASSUME TypeOK, PeInv, WriteOep
  PROVE  TypeOK' /\ PeInv'
<1> DEFINE n  == disk.nt.nsec
           nt == [disk.nt EXCEPT !.oep = CodeOf(run.inj)]
           d  == [disk EXCEPT !.nt = nt]
<1>1. d.eof = disk.eof
  BY DEF TypeOK, Files
<1>2. /\ run.pc = "oep" /\ UNCHANGED <<runs, shortRuns>>
      /\ \/ SaveDone(d, disk.eof)
         \/ SaveMissed
  <2>1. WriteOep => Save("oep", d, 0)
    BY DEF WriteOep, TypeOK, Files, Headers
  <2>2. disk.eof \in Nat /\ 0 <= disk.eof
    BY FileTypes
  <2> HIDE DEF d
  <2> QED
    BY <1>1, <2>1, <2>2, SaveCases
<1>3. run.pc \in Filling \ {"tls"}
  BY <1>2 DEF Filling
<1>4. CASE SaveMissed
  BY <1>2, <1>3, <1>4, MissedStep DEF SaveMissed
<1>5. CASE SaveDone(d, disk.eof)
  <2>1. run.tool = "console" /\ Following(run.tool, run.pc) = "done"
    <3>1. run.tool \in DOMAIN Program /\ "oep" \in Places(run.tool)
      BY <1>2 DEF PeInv, RunInv
    <3> QED
      BY <1>2, <3>1, PlacesAre, ConsoleOrder
  <2>2. /\ ~run.bad /\ ~run.missed /\ Added /\ run.inj.vsize = InjSize
        /\ disk.table[n] = run.inj
    BY <1>2, <1>5 DEF SaveDone, PeInv, RunInv, Filling, Added
  <2>3. /\ Got("code") /\ Got("imports") /\ Listed(run.inj.va)
        /\ run.inj.raw + run.inj.rawsize <= disk.eof
    BY <1>2, <2>1, <2>2 DEF PeInv, PiecesInv
  <2>4. /\ n \in Nat \ {0} /\ n \in Sections /\ Sections = 1 .. n
        /\ run.inj \in SectionHeaders /\ InjSize \in Nat /\ InjSize > 3
    BY SectionTypes, FileTypes, ImageAssumption DEF PeInv, Sections
  <2>5. CodeOf(run.inj) \in Nat /\ CodeOf(run.inj) < disk.nt.size
    <3>1. run.inj.va + run.inj.vsize <= disk.nt.size
      BY <2>2, <2>4 DEF PeInv, SectionsApart
    <3>2. run.inj.va \in Nat /\ CodeOf(run.inj) = run.inj.va + 2
      BY <2>4 DEF CodeOf, CodeOffset, SectionHeaders
    <3>3. disk.nt.size \in Nat
      BY FileTypes
    <3> QED
      BY ONLY <2>2, <2>4, <3>1, <3>2, <3>3
  <2>6. /\ nt \in Headers /\ nt.nsec = n /\ nt.size = disk.nt.size /\ nt.laa = disk.nt.laa
        /\ nt.oep = CodeOf(run.inj) /\ nt.tls = disk.nt.tls
    <3>1. disk.nt \in Headers
      BY FileTypes
    <3> QED
      BY <2>5, <3>1, HeadersWith
  <2>7. disk' = [disk EXCEPT !.nt = nt, !.imports = disk.imports,
                             !.clobbered = disk.clobbered]
    <3>1. \A X : [[disk EXCEPT !.nt = X] EXCEPT !.eof = disk.eof]
                 = [disk EXCEPT !.nt = X, !.imports = disk.imports,
                                !.clobbered = disk.clobbered]
      BY DEF TypeOK, Files
    <3> QED
      BY <1>5, <3>1 DEF SaveDone
  <2> HIDE DEF nt
  <2>8. EntersAt(nt.oep, n)
    <3>1. CodeReady(n) /\ nt.oep = CodeOf(disk.table[n])
      BY <2>2, <2>3, <2>6 DEF CodeReady, Got
    <3> QED
      BY <2>4, <3>1 DEF EntersAt
  <2>9. /\ disk' \in Files
        /\ disk'.nt = nt /\ disk'.table = disk.table /\ disk'.imports = disk.imports
        /\ disk'.clobbered = disk.clobbered /\ disk'.data = disk.data
        /\ disk'.eof = disk.eof
        /\ TableInv' /\ SectionsApart' /\ EntryChainWhole'
    BY <2>6, <2>7, <2>8, FileTypes, HeadersStep DEF PeInv
  <2>10. /\ run' \in Runs /\ run'.pc = "done" /\ run'.bad = run.bad
         /\ run'.missed = run.missed
         /\ run'.tool = run.tool /\ run'.nt = run.nt /\ run'.inj = run.inj
    BY <1>5, <2>1, GoesOn, Goes, FileTypes, LabelsAre DEF SaveDone
  <2>11. TypeOK'
    BY <1>2, <2>5, <2>6, <2>9, <2>10 DEF TypeOK
  <2>12. Sections' = Sections /\ disk'.nt.nsec = n
    BY <2>6, <2>9 DEF Sections
  <2>13. RunInv'
    <3>1. Added' /\ run'.tool \in DOMAIN Program /\ run'.pc \in Places(run'.tool)
      BY <2>1, <2>2, <2>6, <2>9, <2>10, PlacesAre DEF Added
    <3> QED
      BY ONLY <2>10, <3>1 DEF RunInv, Filling
  <2>14. PiecesInv'
    <3>1. Got("code")' /\ Got("imports")' /\ Listed(run.inj.va)'
      BY <2>3, <2>9, <2>10, <2>12 DEF Got, Has, Listed
    <3>2. run'.inj.raw + run'.inj.rawsize <= disk'.eof
      BY <2>3, <2>9, <2>10
    <3> QED
      BY <2>1, <2>10, <3>1, <3>2 DEF PiecesInv
  <2>15. CountInv'
    BY <1>2, <2>9, <2>10, <2>12 DEF PeInv, CountInv
  <2>16. DanglesInv'
    BY <1>2, <2>2, <2>9, <2>10, <2>12
    DEF PeInv, DanglesInv, Short, Backed, Has, Pending
  <2>17. TlsInv'
    BY <1>2, <2>1, <2>6, <2>9, <2>10, <2>12 DEF PeInv, TlsInv, LostForGood, TlsWhole, Has
  <2> QED
    BY <2>9, <2>11, <2>13, <2>14, <2>15, <2>16, <2>17 DEF PeInv
<1> QED
  BY <1>2, <1>4, <1>5

\* The injector installs the TLS directory, whatever its stream says.
LEMMA TlsKeeps ==
  ASSUME TypeOK, PeInv, WriteTls
  PROVE  TypeOK' /\ PeInv'
<1> DEFINE n  == disk.nt.nsec
           nt == [run.nt EXCEPT !.tls = run.inj.va]
<1>1. /\ run.pc = "tls" /\ UNCHANGED <<runs, shortRuns>>
      /\ disk' = [disk EXCEPT !.nt = nt]
      /\ run' = [run EXCEPT !.pc = "done", !.bad = FALSE]
  BY DEF WriteTls
<1>2. run.tool = "injector"
  <2>1. run.tool \in DOMAIN Program /\ "tls" \in Places(run.tool)
    BY <1>1 DEF PeInv, RunInv
  <2> QED
    BY <2>1, PlacesAre
<1>3. /\ Added /\ run.inj.vsize = InjSize /\ disk.table[n] = run.inj /\ run.nt = disk.nt
  BY <1>1 DEF PeInv, RunInv, Filling, Added
<1>4. /\ n \in Nat \ {0} /\ n \in Sections /\ Sections = 1 .. n
      /\ run.inj \in SectionHeaders /\ InjSize \in Nat /\ InjSize > 3
  BY SectionTypes, FileTypes, ImageAssumption DEF PeInv, Sections
<1>5. run.inj.va \in Nat /\ run.inj.va < disk.nt.size
  <2>1. run.inj.va + run.inj.vsize <= disk.nt.size
    BY <1>3, <1>4 DEF PeInv, SectionsApart
  <2>2. run.inj.va \in Nat
    BY <1>4 DEF SectionHeaders
  <2>3. disk.nt.size \in Nat
    BY FileTypes
  <2> QED
    BY ONLY <1>3, <1>4, <2>1, <2>2, <2>3
<1>6. /\ nt \in Headers /\ nt.nsec = n /\ nt.size = disk.nt.size /\ nt.laa = disk.nt.laa
      /\ nt.oep = disk.nt.oep /\ nt.tls = run.inj.va
  <2>1. disk.nt \in Headers /\ nt = [disk.nt EXCEPT !.tls = run.inj.va]
    BY <1>3, FileTypes
  <2> HIDE DEF nt
  <2> QED
    BY <1>3, <1>5, <2>1, HeadersWith
<1>7. disk' = [disk EXCEPT !.nt = nt, !.imports = disk.imports,
                           !.clobbered = disk.clobbered]
  <2>1. \A X : [disk EXCEPT !.nt = X]
               = [disk EXCEPT !.nt = X, !.imports = disk.imports,
                              !.clobbered = disk.clobbered]
    BY DEF TypeOK, Files
  <2> QED
    BY <1>1, <2>1
<1> HIDE DEF nt
<1>8. EntersAt(nt.oep, n)
  BY <1>6 DEF PeInv, EntryChainWhole
<1>9. /\ disk' \in Files
      /\ disk'.nt = nt /\ disk'.table = disk.table /\ disk'.imports = disk.imports
      /\ disk'.clobbered = disk.clobbered /\ disk'.data = disk.data
      /\ disk'.eof = disk.eof
      /\ TableInv' /\ SectionsApart' /\ EntryChainWhole'
  BY <1>6, <1>7, <1>8, FileTypes, HeadersStep DEF PeInv
<1>10. /\ run' \in Runs /\ run'.pc = "done" /\ run'.missed = run.missed
       /\ run'.tool = run.tool /\ run'.inj = run.inj
  <2>1. run' = [run EXCEPT !.pc = "done", !.bad = FALSE, !.missed = run.missed]
    BY <1>1 DEF TypeOK, Runs
  <2> QED
    BY <2>1, Goes, FileTypes, LabelsAre
<1>11. TypeOK'
  BY <1>1, <1>5, <1>6, <1>9, <1>10 DEF TypeOK
<1>12. Sections' = Sections /\ disk'.nt.nsec = n
  BY <1>6, <1>9 DEF Sections
<1>13. RunInv'
  <2>1. Added' /\ run'.tool \in DOMAIN Program /\ run'.pc \in Places(run'.tool)
    BY <1>2, <1>3, <1>6, <1>9, <1>10, PlacesAre DEF Added
  <2> QED
    BY ONLY <1>10, <2>1 DEF RunInv, Filling
<1>14. ~run.missed => /\ TlsWhole(n) /\ Got("name") /\ Got("callback") /\ Got("array")
                      /\ Got("tlsdir") /\ run.inj.raw + run.inj.rawsize <= disk.eof
  BY <1>1, <1>2 DEF PeInv, PiecesInv, TlsWhole, Got
<1>15. \A i \in Sections : TlsWhole(i) => TlsWhole(i)'
  BY <1>9 DEF TlsWhole, Has
<1>16. PiecesInv'
  <2>1. ~run.missed => Got("name")' /\ Got("callback")' /\ Got("array")' /\ Got("tlsdir")'
    BY <1>9, <1>12, <1>14 DEF Got, Has
  <2>2. ~run.missed => run'.inj.raw + run'.inj.rawsize <= disk'.eof
    BY <1>9, <1>10, <1>14
  <2> QED
    BY <1>2, <1>10, <2>1, <2>2 DEF PiecesInv
<1>17. CountInv'
  BY <1>1, <1>9, <1>10, <1>12 DEF PeInv, CountInv
<1>18. DanglesInv'
  BY <1>1, <1>2, <1>9, <1>10, <1>12 DEF PeInv, DanglesInv, Short, Backed, Has, Pending
<1>19. TlsInv'
  <2>1. CASE run.missed
    BY <1>2, <1>6, <1>9, <1>10, <2>1 DEF TlsInv, LostForGood
  <2>2. CASE ~run.missed
    <3>1. PICK m \in Sections : disk.table[m] = run.inj /\ TlsWhole(m)
      BY <1>3, <1>4, <1>14, <2>2
    <3>2. TlsWhole(m)'
      BY <1>15, <3>1
    <3>3. m \in Sections' /\ disk'.table[m].va = disk'.nt.tls
      BY <1>6, <1>9, <1>12, <3>1
    <3> QED
      BY <3>2, <3>3 DEF TlsInv
  <2> QED
    BY <2>1, <2>2
<1> QED
  BY <1>9, <1>11, <1>13, <1>16, <1>17, <1>18, <1>19 DEF PeInv

-----------------------------------------------------------------------------
\* Steps that leave the file alone: what is said of the file alone stays.
LEMMA FileStays ==
  ASSUME TypeOK, PeInv, disk' = disk
  PROVE  /\ TableInv' /\ SectionsApart' /\ EntryChainWhole' /\ Sections' = Sections
         /\ NewSection' = NewSection /\ NewHeaders' = NewHeaders
         /\ \A i \in Sections : \A kind \in Kinds : Has(i, kind)' <=> Has(i, kind)
  BY DEF PeInv, TableInv, SectionsApart, EntryChainWhole, EntersAt, CodeReady, Has, Listed,
         Sections, NewSection, NewHeaders, WithSection

\* A run that begins to fill its copies: redone's second half, or any first.
LEMMA ReadingIs ==
  ASSUME NEW tool \in Tools, NEW pc \in Labels, NEW nt \in Headers,
         NEW s \in SectionHeaders, NEW im \in Seq(Nat), run' = Reading(tool, pc, nt, s, im)
  PROVE  /\ run' \in Runs /\ run'.tool = tool /\ run'.pc = pc /\ run'.nt = nt
         /\ run'.inj = s /\ run'.imports = im /\ run'.bad = FALSE /\ run'.missed = FALSE
  BY DEF Reading, Runs

LEMMA InjectKeeps ==
  ASSUME TypeOK, PeInv, InjectInjsec
  PROVE  TypeOK' /\ PeInv'
<1>1. /\ run.pc = "inject" /\ UNCHANGED <<disk, runs, shortRuns>>
      /\ run' = Reading("redone", "header", WithSection(disk.nt, NewSection), NewSection, <<>>)
  BY DEF InjectInjsec
<1>2. run.tool = "redone" /\ run.tool \in Tools /\ ~run.missed
  <2>1. run.tool \in DOMAIN Program /\ "inject" \in Places(run.tool) /\ ~run.missed
    BY <1>1 DEF PeInv, RunInv
  <2>2. run.tool = "redone"
    BY <2>1, PlacesAre
  <2> QED
    BY <2>1, <2>2, FileTypes
<1>3. WithSection(disk.nt, NewSection) = NewHeaders
  <2>1. disk.nt.laa /\ disk.nt \in Headers
    BY <1>1, FileTypes DEF PeInv, RunInv
  <2>2. [disk.nt EXCEPT !.laa = TRUE] = disk.nt
    BY <2>1 DEF Headers
  <2> QED
    BY <2>2 DEF NewHeaders
<1>4. NewHeaders \in Headers /\ NewSection \in SectionHeaders
  BY NewHeadersAre, NewSectionFits DEF PeInv
<1>5. /\ run' \in Runs /\ run'.tool = "redone" /\ run'.pc = "header" /\ run'.nt = NewHeaders
      /\ run'.inj = NewSection /\ run'.bad = FALSE /\ run'.missed = FALSE
  <2>1. <<>> \in Seq(Nat) /\ "header" \in Labels
    BY LabelsAre
  <2>2. "redone" \in Tools
    BY <1>2
  <2>3. run' = Reading("redone", "header", NewHeaders, NewSection, <<>>)
    BY <1>1, <1>3
  <2> QED
    BY ONLY <1>4, <2>1, <2>2, <2>3, ReadingIs
<1>6. TypeOK'
  BY <1>1, <1>5 DEF TypeOK
<1>7. /\ TableInv' /\ SectionsApart' /\ EntryChainWhole' /\ Sections' = Sections
      /\ NewSection' = NewSection /\ NewHeaders' = NewHeaders
  BY <1>1, FileStays
<1>8. RunInv'
  <2>1. run'.tool \in DOMAIN Program /\ run'.pc \in Places(run'.tool)
    BY <1>5, PlacesAre
  <2> QED
    BY ONLY <1>5, <1>7, <2>1 DEF RunInv, Filling
<1>9. PiecesInv'
  BY <1>5 DEF PiecesInv
<1>10. CountInv'
  BY <1>1, <1>5 DEF PeInv, CountInv
<1>11. DanglesInv'
  BY <1>1, <1>2, <1>7 DEF PeInv, DanglesInv, Short, Backed, Has, Pending
<1>12. TlsInv'
  BY <1>1, <1>2, <1>7 DEF PeInv, TlsInv, LostForGood, TlsWhole, Has
<1> QED
  BY <1>6, <1>7, <1>8, <1>9, <1>10, <1>11, <1>12 DEF PeInv

-----------------------------------------------------------------------------
\* A run ends: by itself, killed, or because it does not accept the file.
LEMMA IdleIs ==
  /\ Idle \in Runs /\ Idle.tool = "none" /\ Idle.pc = "idle" /\ Idle.bad = FALSE
  /\ Idle.missed = FALSE
  /\ \A laa \in BOOLEAN :
       /\ OwnNt(laa) \in Headers /\ OwnNt(laa).nsec = 1 /\ OwnNt(laa).oep = Entry
       /\ OwnNt(laa).tls = 0 /\ OwnNt(laa).size = After(Own)
       /\ Entry \in Nat /\ Own.va + Own.vsize <= After(Own)
       /\ Entry < After(Own) /\ 0 < After(Own)
<1>1. /\ Own \in SectionHeaders /\ Own.va \in Nat \ {0} /\ Own.vsize \in Nat \ {0}
      /\ Entry \in Own.va .. Own.va + Own.vsize - 1
      /\ SectionAlignment \in Nat \ {0}
  BY ImageAssumption DEF SectionHeaders
<1>2. Entry \in Nat /\ Entry < Own.va + Own.vsize
  BY <1>1
<1>3. After(Own) \in Nat /\ Own.va + Own.vsize <= After(Own)
  BY <1>1, AlignBounds DEF After
<1>4. ASSUME NEW laa \in BOOLEAN
      PROVE  /\ OwnNt(laa) \in Headers /\ OwnNt(laa).nsec = 1 /\ OwnNt(laa).oep = Entry
             /\ OwnNt(laa).tls = 0 /\ OwnNt(laa).size = After(Own)
  <2>1. OwnNt(laa) = [laa |-> laa, nsec |-> 1, oep |-> Entry, tls |-> 0, debug |-> TRUE,
                      size |-> After(Own)]
    BY DEF OwnNt, After
  <2> QED
    BY <1>2, <1>3, <2>1 DEF Headers
<1>5. Idle \in Runs
  <2>1. <<>> \in Seq(Nat) /\ "idle" \in Labels
    BY LabelsAre
  <2> QED
    BY <1>1, <1>4, <2>1 DEF Idle, Runs
<1>6. Idle.tool = "none" /\ Idle.pc = "idle" /\ Idle.bad = FALSE /\ Idle.missed = FALSE
  BY DEF Idle
<1>7. Entry < After(Own) /\ 0 < After(Own)
  BY <1>1, <1>2, <1>3
<1> QED
  BY <1>2, <1>3, <1>4, <1>5, <1>6, <1>7

LEMMA EndKeeps ==
  ASSUME TypeOK, PeInv, Finish \/ Crash
  PROVE  TypeOK' /\ PeInv'
<1>1. run' = Idle /\ Stops /\ UNCHANGED <<disk, runs>> /\ run.pc # "idle"
  BY DEF Finish, Crash
<1>2. /\ run' \in Runs /\ run'.tool = "none" /\ run'.pc = "idle" /\ run'.bad = FALSE
      /\ run'.missed = FALSE
  BY <1>1, IdleIs
<1>3. TypeOK'
  BY <1>1, <1>2 DEF TypeOK
<1>4. TableInv' /\ SectionsApart' /\ EntryChainWhole' /\ Sections' = Sections
  BY <1>1, FileStays
<1>5. RunInv' /\ PiecesInv'
  BY ONLY <1>2 DEF RunInv, PiecesInv, Filling
<1>6. CountInv'
  BY <1>1, <1>2 DEF PeInv, CountInv
<1>7. shortRuns \subseteq shortRuns'
  BY <1>1 DEF Stops
<1>8. DanglesInv'
  <2> SUFFICES ASSUME NEW k \in DOMAIN disk.imports
               PROVE  LET va == disk.imports[k] IN
                      va \in {0} \cup Short("console")' \/ Backed(va)'
    BY <1>1 DEF DanglesInv
  <2> DEFINE va == disk.imports[k]
  <2>1. CASE va \in {0} \cup Short("console")
    BY <1>7, <2>1 DEF Short
  <2>2. CASE Backed(va)
    BY <1>1, <1>4, <2>2 DEF Backed, Has
  <2>3. CASE Pending(va)
    <3>1. run.pc # "done" \/ run.missed
      BY <2>3 DEF Pending
    <3>2. [tool |-> run.tool, va |-> run.inj.va, killed |-> run.pc # "done"] \in shortRuns'
      BY <1>1, <3>1 DEF Stops
    <3>3. va \in Short("console")'
      BY <2>3, <3>2 DEF Short, Pending
    <3> QED
      BY <1>1, <3>3
  <2> QED
    BY <2>1, <2>2, <2>3 DEF PeInv, DanglesInv
<1>9. TlsInv'
  <2>1. CASE disk.nt.tls = 0 \/ \E i \in Sections : disk.table[i].va = disk.nt.tls /\ TlsWhole(i)
    BY <1>1, <1>4, <2>1 DEF TlsInv, TlsWhole, Has
  <2>2. CASE \E r \in shortRuns : r.tool = "injector" /\ r.va = disk.nt.tls /\ ~r.killed
    BY <1>1, <1>7, <2>2 DEF TlsInv, LostForGood
  <2>3. CASE run.tool = "injector" /\ run.pc = "done" /\ run.missed /\ run.inj.va = disk.nt.tls
    <3>1. [tool |-> run.tool, va |-> run.inj.va, killed |-> FALSE] \in shortRuns'
      BY <1>1, <2>3 DEF Stops
    <3> QED
      BY <1>1, <2>3, <3>1 DEF TlsInv, LostForGood
  <2> QED
    BY <2>1, <2>2, <2>3 DEF PeInv, TlsInv, LostForGood
<1> QED
  BY <1>3, <1>4, <1>5, <1>6, <1>8, <1>9 DEF PeInv

-----------------------------------------------------------------------------
\* A program starts: it has read the file, or does not accept it.
LEMMA CopyIs ==
  ASSUME TypeOK, PeInv, NEW tool \in Tools, run' = Copy(tool), UNCHANGED disk
  PROVE  /\ run' \in Runs /\ run'.bad = FALSE /\ run'.missed = FALSE /\ run'.tool = tool
         /\ \/ tool = "redone" /\ run'.pc = "laa"
            \/ tool = "zero" /\ run'.pc = "nt"
            \/ tool = "injector" /\ run'.pc = "header"
            \/ tool = "console" /\ run'.pc = "imports"
         /\ RunInv'
<1> DEFINE laa == [disk.nt EXCEPT !.laa = TRUE]
           dbg == [disk.nt EXCEPT !.debug = FALSE]
<1>1. laa \in Headers /\ dbg \in Headers
  BY FileTypes DEF Headers
<1>2. /\ NewHeaders \in Headers /\ NewSection \in SectionHeaders /\ NewSection.va \in Nat
      /\ NewHeaders = WithSection(laa, NewSection)
  BY NewHeadersAre, NewSectionFits DEF PeInv, NewHeaders, SectionHeaders
<1>3. /\ <<>> \in Seq(Nat) /\ Append(disk.imports, NewSection.va) \in Seq(Nat)
  BY <1>2, FileTypes
<1>4. {"laa", "nt", "header", "imports"} \subseteq Labels
  BY LabelsAre
<1>5. Program["injector"][1] = "header" /\ Program["console"][1] = "imports"
  BY DEF Program
<1>6. /\ NewHeaders' = NewHeaders /\ NewSection' = NewSection
  BY FileStays
<1> HIDE DEF laa, dbg
<1>7. CASE tool = "redone"
  <2>1. run' = Reading(tool, "laa", laa, NewSection, <<>>)
    BY <1>7 DEF Copy, laa
  <2>2. /\ run' \in Runs /\ run'.tool = tool /\ run'.pc = "laa" /\ run'.nt = laa
        /\ run'.bad = FALSE /\ run'.missed = FALSE
    BY ONLY <1>1, <1>2, <1>3, <1>4, <2>1, tool \in Tools, ReadingIs
  <2>3. run'.tool \in DOMAIN Program /\ run'.pc \in Places(run'.tool)
    BY <1>7, <2>2, PlacesAre
  <2>4. run'.nt = [disk'.nt EXCEPT !.laa = TRUE]
    BY <2>2 DEF laa
  <2>5. RunInv'
    BY ONLY <2>2, <2>3, <2>4 DEF RunInv, Filling
  <2> QED
    BY <1>7, <2>2, <2>5
<1>8. CASE tool = "zero"
  <2>1. run' = Reading(tool, "nt", dbg, NewSection, <<>>)
    BY <1>8 DEF Copy, dbg
  <2>2. /\ run' \in Runs /\ run'.tool = tool /\ run'.pc = "nt" /\ run'.nt = dbg
        /\ run'.bad = FALSE /\ run'.missed = FALSE
    BY ONLY <1>1, <1>2, <1>3, <1>4, <2>1, tool \in Tools, ReadingIs
  <2>3. run'.tool \in DOMAIN Program /\ run'.pc \in Places(run'.tool)
    BY <1>8, <2>2, PlacesAre
  <2>4. run'.nt = [disk'.nt EXCEPT !.debug = FALSE]
    BY <2>2 DEF dbg
  <2>5. RunInv'
    BY ONLY <2>2, <2>3, <2>4 DEF RunInv, Filling
  <2> QED
    BY <1>8, <2>2, <2>5
<1>9. CASE tool = "injector"
  <2>1. run' = Reading(tool, "header", NewHeaders, NewSection, <<>>)
    BY <1>2, <1>5, <1>9 DEF Copy, laa
  <2>2. /\ run' \in Runs /\ run'.tool = tool /\ run'.pc = "header" /\ run'.nt = NewHeaders
        /\ run'.inj = NewSection /\ run'.bad = FALSE /\ run'.missed = FALSE
    BY ONLY <1>1, <1>2, <1>3, <1>4, <2>1, tool \in Tools, ReadingIs
  <2>3. run'.tool \in DOMAIN Program /\ run'.pc \in Places(run'.tool)
    BY <1>9, <2>2, PlacesAre
  <2>4. RunInv'
    BY ONLY <1>6, <2>2, <2>3 DEF RunInv, Filling
  <2> QED
    BY <1>9, <2>2, <2>4
<1>10. CASE tool = "console"
  <2>1. run' = Reading(tool, "imports", NewHeaders, NewSection,
                       Append(disk.imports, NewSection.va))
    BY <1>2, <1>5, <1>10 DEF Copy, laa
  <2>2. /\ run' \in Runs /\ run'.tool = tool /\ run'.pc = "imports" /\ run'.nt = NewHeaders
        /\ run'.inj = NewSection /\ run'.bad = FALSE /\ run'.missed = FALSE
        /\ run'.imports = Append(disk.imports, NewSection.va)
    BY ONLY <1>1, <1>2, <1>3, <1>4, <2>1, tool \in Tools, ReadingIs
  <2>3. run'.tool \in DOMAIN Program /\ run'.pc \in Places(run'.tool)
    BY <1>10, <2>2, PlacesAre
  <2>4. run'.imports = Append(disk'.imports, run'.inj.va)
    BY <2>2
  <2>5. RunInv'
    BY ONLY <1>6, <2>2, <2>3, <2>4 DEF RunInv, Filling
  <2> QED
    BY <1>10, <2>2, <2>5
<1> QED
  BY <1>7, <1>8, <1>9, <1>10, PlacesAre, ToolsAssumption

LEMMA StartKeeps ==
  ASSUME TypeOK, PeInv, NEW tool \in Tools, Start(tool)
  PROVE  TypeOK' /\ PeInv'
<1>1. /\ run.pc = "idle" /\ runs < MaxRuns /\ runs' = runs + 1
      /\ run' = (IF Accepts(tool) THEN Copy(tool) ELSE Idle)
      /\ UNCHANGED <<disk, shortRuns>>
  BY DEF Start
<1>2. run.tool = "none"
  BY <1>1, PlacesAre DEF PeInv, RunInv
<1>3. runs \in Nat /\ runs' \in 0 .. MaxRuns /\ MaxRuns \in Nat
  BY <1>1, FileTypes, ImageAssumption, SMTT(30)
<1>4. /\ run' \in Runs /\ run'.bad = FALSE /\ run'.missed = FALSE /\ RunInv'
      /\ \/ run'.tool = "none" /\ run'.pc = "idle"
         \/ run'.tool = "redone" /\ run'.pc = "laa"
         \/ run'.tool = "zero" /\ run'.pc = "nt"
         \/ run'.tool = "injector" /\ run'.pc = "header"
         \/ run'.tool = "console" /\ run'.pc = "imports"
  <2>1. CASE Accepts(tool)
    BY <1>1, <2>1, CopyIs
  <2>2. CASE ~Accepts(tool)
    <3>1. /\ run' \in Runs /\ run'.tool = "none" /\ run'.pc = "idle" /\ run'.bad = FALSE
          /\ run'.missed = FALSE
      BY <1>1, <2>2, IdleIs
    <3>2. RunInv'
      BY ONLY <3>1 DEF RunInv, Filling
    <3> QED
      BY <3>1, <3>2
  <2> QED
    BY <2>1, <2>2
<1>5. TypeOK'
  BY <1>1, <1>3, <1>4 DEF TypeOK
<1>6. TableInv' /\ SectionsApart' /\ EntryChainWhole' /\ Sections' = Sections
  BY <1>1, FileStays
<1>7. PiecesInv'
  BY ONLY <1>4 DEF PiecesInv
<1>8. CountInv'
  <2>1. /\ disk.nt.nsec <= 1 + runs /\ Len(disk.imports) <= OwnImports + runs
        /\ disk.clobbered => disk.nt.nsec > HeaderRoom \/ Len(disk.imports) > ImportRoom
    BY DEF PeInv, CountInv
  <2>2. OwnImports \in Nat /\ Len(disk.imports) \in Nat /\ disk.nt.nsec \in Nat
    <3>1. OwnImports \in Nat
      BY ImageAssumption
    <3>2. disk.imports \in Seq(Nat) /\ disk.nt.nsec \in Nat
      BY FileTypes
    <3>3. Len(disk.imports) \in Nat
      BY ONLY <3>2
    <3> QED
      BY <3>1, <3>2, <3>3
  <2> QED
    BY <1>1, <1>3, <2>1, <2>2 DEF CountInv
<1>9. DanglesInv'
  BY <1>1, <1>2, <1>6 DEF PeInv, DanglesInv, Short, Backed, Has, Pending
<1>10. TlsInv'
  BY <1>1, <1>2, <1>6 DEF PeInv, TlsInv, LostForGood, TlsWhole, Has
<1> QED
  BY <1>4, <1>5, <1>6, <1>7, <1>8, <1>9, <1>10 DEF PeInv

-----------------------------------------------------------------------------
\* The game as it was shipped.
LEMMA InitHolds ==
  ASSUME Init
  PROVE  TypeOK /\ PeInv
<1>1. PICK fmt \in {"pe32", "no_imports", "other"}, laa \in BOOLEAN :
        disk = [fmt |-> fmt, nt |-> OwnNt(laa), table |-> <<Own>>,
                imports |-> [k \in 1 .. OwnImports |-> 0], data |-> {},
                eof |-> Own.raw + Own.rawsize, clobbered |-> FALSE]
  BY DEF Init
<1>2. run = Idle /\ runs = 0 /\ shortRuns = {}
  BY DEF Init
<1>3. /\ run \in Runs /\ run.tool = "none" /\ run.pc = "idle" /\ run.bad = FALSE
      /\ run.missed = FALSE
  BY <1>2, IdleIs
<1>4. /\ OwnNt(laa) \in Headers /\ OwnNt(laa).nsec = 1 /\ OwnNt(laa).oep = Entry
      /\ OwnNt(laa).tls = 0 /\ OwnNt(laa).size = After(Own)
      /\ Own.va + Own.vsize <= After(Own) /\ Entry < After(Own) /\ 0 < After(Own)
  BY IdleIs
<1>5. /\ Own \in SectionHeaders /\ Own.vsize > 0 /\ Own.rawsize > 0
      /\ Own.raw + Own.rawsize \in Nat /\ OwnImports \in Nat /\ MaxRuns \in Nat
  BY ImageAssumption DEF SectionHeaders
<1>6. /\ <<Own>> \in Seq(SectionHeaders) /\ Len(<<Own>>) = 1 /\ <<Own>>[1] = Own
  BY <1>5
<1> DEFINE im == [k \in 1 .. OwnImports |-> 0]
<1>7. im \in Seq(Nat) /\ Len(im) = OwnImports /\ \A k \in DOMAIN im : im[k] = 0
  BY <1>5
<1>8. /\ disk.nt = OwnNt(laa) /\ disk.table = <<Own>> /\ disk.imports = im
      /\ disk.data = {} /\ disk.clobbered = FALSE
  BY <1>1
<1>9. disk \in Files
  BY <1>1, <1>4, <1>5, <1>6, <1>7 DEF Files
<1> HIDE DEF im
<1>10. TypeOK
  BY <1>2, <1>3, <1>4, <1>5, <1>6, <1>8, <1>9 DEF TypeOK
<1>11. Sections = {1}
  BY <1>4, <1>8 DEF Sections
<1>12. SectionsApart
  BY <1>4, <1>6, <1>8, <1>11 DEF SectionsApart
<1>13. EntryChainWhole
  BY <1>4, <1>8 DEF EntryChainWhole, EntersAt
<1>14. TableInv
  BY <1>4, <1>5, <1>6, <1>8, <1>11 DEF TableInv
<1>15. RunInv /\ PiecesInv
  BY ONLY <1>3 DEF RunInv, PiecesInv, Filling
<1>16. CountInv
  BY <1>2, <1>3, <1>4, <1>5, <1>7, <1>8 DEF CountInv
<1>17. DanglesInv
  BY <1>7, <1>8 DEF DanglesInv
<1>18. TlsInv
  BY <1>4, <1>8 DEF TlsInv
<1> QED
  BY <1>10, <1>12, <1>13, <1>14, <1>15, <1>16, <1>17, <1>18 DEF PeInv

\* Nothing happens.
LEMMA RestKeeps ==
  ASSUME TypeOK, PeInv, UNCHANGED vars
  PROVE  TypeOK' /\ PeInv'
<1>1. /\ disk' = disk /\ run' = run /\ runs' = runs /\ shortRuns' = shortRuns
  BY DEF vars
<1>2. TypeOK'
  BY <1>1 DEF TypeOK
<1>3. TableInv' /\ SectionsApart' /\ EntryChainWhole' /\ Sections' = Sections
      /\ NewSection' = NewSection /\ NewHeaders' = NewHeaders
  BY <1>1, FileStays
<1>4. RunInv'
  BY <1>1, <1>3 DEF PeInv, RunInv, Added
<1>5. PiecesInv' /\ CountInv'
  BY <1>1 DEF PeInv, PiecesInv, CountInv, Got, Has, Listed
<1>6. DanglesInv' /\ TlsInv'
  BY <1>1, <1>3
  DEF PeInv, DanglesInv, Short, Backed, Has, Pending, TlsInv, LostForGood, TlsWhole
<1> QED
  BY <1>2, <1>3, <1>4, <1>5, <1>6 DEF PeInv

-----------------------------------------------------------------------------
\* Whatever programs run, are killed or meet a full disk: the invariant that the
\* properties of the file rest on holds.
THEOREM PeInvHolds == Spec => [](TypeOK /\ PeInv)
<1>1. Init => TypeOK /\ PeInv
  BY InitHolds
<1>2. TypeOK /\ PeInv /\ [Next]_vars => TypeOK' /\ PeInv'
  <2> SUFFICES ASSUME TypeOK, PeInv, [Next]_vars
               PROVE  TypeOK' /\ PeInv'
    OBVIOUS
  <2>1. ASSUME NEW tool \in Tools, Start(tool) PROVE TypeOK' /\ PeInv'
    BY <2>1, StartKeeps
  <2>2. CASE WriteLAA
    BY <2>2, LaaKeeps
  <2>3. CASE InjectInjsec
    BY <2>3, InjectKeeps
  <2>4. CASE WriteHeader
    BY <2>4, HeaderKeeps
  <2>5. CASE WriteBlank \/ WriteZeros
    BY <2>5, BlankKeeps
  <2>6. CASE WriteImports
    BY <2>6, ImportsKeep
  <2>7. CASE \/ WriteImportData \/ WriteCode \/ WriteName \/ WriteCallback \/ WriteArray
             \/ WriteTlsDir
    BY <2>7, PiecesKeep
  <2>8. CASE WriteOep
    BY <2>8, OepKeeps
  <2>9. CASE WriteTls
    BY <2>9, TlsKeeps
  <2>10. CASE WriteZero
    BY <2>10, ZeroKeeps
  <2>11. CASE Finish \/ Crash
    BY <2>11, EndKeeps
  <2>12. CASE Rest \/ UNCHANGED vars
    BY <2>12, RestKeeps DEF Rest
  <2> QED
    BY <2>1, <2>2, <2>3, <2>4, <2>5, <2>6, <2>7, <2>8, <2>9, <2>10, <2>11, <2>12
    DEF Next
<1> QED
  BY <1>1, <1>2, PTL DEF Spec

\* The types, and that every address in the headers lies inside the image.
THEOREM TypesHold == Spec => []TypeOK
  BY PeInvHolds, PTL

\* However often and in whatever order the programs run, and wherever they are
\* killed, the sections stay apart in the file and in memory.
THEOREM SectionsStayApart == Spec => []SectionsApart
<1>1. PeInv => SectionsApart
  BY DEF PeInv
<1> QED
  BY <1>1, PeInvHolds, PTL

\* The chain of entry points is whole at every moment, between two writes too:
\* what the entry point leads to leads on to the game.  Whether the loader
\* accepts the file is not said.
THEOREM EntryChainStaysWhole == Spec => []EntryChainWhole
<1>1. PeInv => EntryChainWhole
  BY DEF PeInv
<1> QED
  BY <1>1, PeInvHolds, PTL

\* Only a run of the console program that stopped short leaves an import
\* descriptor without data, for ever.
THEOREM OnlyShortRunsLeaveDangling == Spec => []OnlyShortRunsDangle
<1>1. PeInv => OnlyShortRunsDangle
  <2> SUFFICES ASSUME PeInv, run.pc = "idle" PROVE DanglesInv /\ run.tool # "console"
    BY DEF OnlyShortRunsDangle, DanglesInv, Pending
  <2> QED
    BY PlacesAre DEF PeInv, RunInv
<1> QED
  BY <1>1, PeInvHolds, PTL

\* The TLS directory that is installed is whole, unless its run met a full disk.
THEOREM TlsStaysSound == Spec => []TlsSound
<1>1. PeInv => TlsSound
  BY DEF PeInv, TlsInv, LostForGood, TlsSound, Lost
<1> QED
  BY <1>1, PeInvHolds, PTL

\* A complete run leaves a file that loads, whatever was killed before it.
THEOREM LoadsAfterEveryRun == Spec => []LoadsAfterRun
<1>1. TypeOK /\ PeInv => LoadsAfterRun
  <2> SUFFICES ASSUME TypeOK, PeInv, run.pc = "done", ~run.missed, run.tool # "zero",
                      Short("console") = {},
                      1 + runs <= HeaderRoom, OwnImports + runs <= ImportRoom
               PROVE  Loadable /\ disk.nt.laa
    BY DEF LoadsAfterRun
  <2> DEFINE n == disk.nt.nsec
  <2>1. /\ disk.table[n] = run.inj /\ disk.nt.laa
    BY DEF PeInv, RunInv, Added
  <2>2. ~disk.clobbered
    <3>1. /\ n <= 1 + runs /\ Len(disk.imports) <= OwnImports + runs
          /\ disk.clobbered => n > HeaderRoom \/ Len(disk.imports) > ImportRoom
      BY DEF PeInv, CountInv
    <3>2. /\ n \in Nat /\ runs \in Nat /\ Len(disk.imports) \in Nat
      BY FileTypes
    <3>3. HeaderRoom \in Nat /\ ImportRoom \in Nat /\ OwnImports \in Nat
      BY ImageAssumption
    <3> QED
      BY ONLY 1 + runs <= HeaderRoom, OwnImports + runs <= ImportRoom,
              <3>1, <3>2, <3>3
  <2>3. ASSUME NEW i \in Sections
        PROVE  disk.table[i].raw + disk.table[i].rawsize <= disk.eof
    <3>1. /\ n \in Nat \ {0} /\ n \in Sections /\ Sections = 1 .. n
          /\ disk.table[i] \in SectionHeaders /\ disk.table[n] \in SectionHeaders
      BY SectionTypes DEF PeInv, Sections
    <3>2. disk.table[n].raw + disk.table[n].rawsize <= disk.eof /\ disk.eof \in Nat
      BY <2>1, FileTypes DEF PeInv, PiecesInv
    <3>3. CASE i = n
      BY <3>2, <3>3
    <3>4. CASE i < n
      <4>1. disk.table[i].raw + disk.table[i].rawsize <= disk.table[n].raw
        BY <3>1, <3>4 DEF PeInv, SectionsApart
      <4>2. /\ disk.table[i].raw + disk.table[i].rawsize \in Nat
            /\ disk.table[n].raw \in Nat /\ disk.table[n].rawsize \in Nat
        <5>1. \A h \in SectionHeaders : h.raw \in Nat /\ h.rawsize \in Nat
          BY DEF SectionHeaders
        <5> HIDE DEF n
        <5> QED
          BY ONLY <3>1, <5>1
      <4> QED
        BY ONLY <3>2, <4>1, <4>2
    <3> QED
      BY <3>1, <3>3, <3>4
  <2>4. ASSUME NEW k \in DOMAIN disk.imports
        PROVE  disk.imports[k] = 0 \/ Backed(disk.imports[k])
    <3>1. ~Pending(disk.imports[k])
      BY DEF Pending
    <3> QED
      BY <3>1 DEF PeInv, DanglesInv
  <2> QED
    BY <2>1, <2>2, <2>3, <2>4 DEF Loadable, PeInv, TableInv, After
<1> QED
  BY <1>1, PeInvHolds, PTL
=============================================================================
