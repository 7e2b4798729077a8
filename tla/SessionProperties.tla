-------------------------- MODULE SessionProperties --------------------------
(***************************************************************************)
(* What sessions of the overdrive program do to the file they share, and   *)
(* to their own memory: see PatcherSession.                                *)
(***************************************************************************)
EXTENDS PatcherSession

Labels == {"absent", "started", "relaunch", "exit", "pick", "locate", "load", "laa",
           "laa write", "inject", "inject write", "search", "protect", "write",
           "restore", "report", "ended"}
Images == [laa : BOOLEAN, nsec : Nat, table : Seq(Procs)]
Boxes == {"must be administrator", "no exe selected", "not in registry", "no dll",
          "dll not loaded", "patch failed", "no patch address", "lobby patched", "success"}
Processes == [pc : Labels, elevated : BOOLEAN, origin : Procs,
              layout : Regions, memory : Regions,
              patchAddr : [region : Nat, at : Nat], oldProtect : Protections,
              nth : Images, hooked : BOOLEAN, told : SUBSET Boxes]

\* Types, and the headers counted by the file and by each copy exist.
TypeOK ==
  /\ image \in Images /\ image.nsec <= Len(image.table)
  /\ proc \in [Procs -> Processes]
  /\ \A p \in Procs : proc[p].nth.nsec = Len(proc[p].nth.table)

\* However many processes rewrite the headers, each from its own copy, the flag
\* that EnableLAA has set is never lost again.
LaaSticks == [][image.laa => image'.laa]_vars

\* A section that some process has added is dropped from the file only by the
\* write of a process whose copy of the headers is out of date: without
\* overlapping sessions nothing is lost.
Added(headers) == {headers.table[k] : k \in 1 .. headers.nsec}
Writes(p) == proc[p].pc \in {"laa write", "inject write"} /\ proc'[p].pc # proc[p].pc
Stale(p)  == proc[p].nth # Headers
OnlyStaleCopiesDrop ==
  [][Added(image) \subseteq Added(image')
       \/ \E p \in Procs : Writes(p) /\ Stale(p)]_vars

\* The file and the memory of a process are changed only by an elevated process
\* that has the hook DLL loaded.
Ready(p) == proc[p].elevated /\ proc[p].hooked
Touches(p) == proc'[p].pc # "started" /\ proc'[p].memory # proc[p].memory
OnlyReadyPatches ==
  [][/\ image' # image => \E p \in Procs : Writes(p) /\ Ready(p)
     /\ \A p \in Procs : Touches(p) => Ready(p)]_vars

\* RelaunchAsAdmin has two processes of one start side by side, the new one and
\* the one that handed over to it.  However often that happens, all processes
\* of a start but one have only to end: no two of them ever get past the
\* relaunch, so that two sessions at work on the file are two starts.
Running(p) == proc[p].pc \notin {"absent", "ended"}
Active(p)  == Running(p) /\ ~At(p, "exit")
OnePatcherPerStart ==
  \A p, q \in Procs : Active(p) /\ Active(q) /\ proc[p].origin = proc[q].origin => p = q

\* RunPatch searches the memory of its own process, its constant included: it
\* never misses.
SearchSucceeds == \A p \in Procs : "no patch address" \notin proc[p].told

\* The first place of the signature in readable memory.
Place(regions, r, i) ==
  /\ r \in DOMAIN regions /\ i \in 1 .. Len(regions[r].bytes) - 1
  /\ Readable(regions[r]) /\ SignatureAt(regions[r].bytes, i)
FirstPlace(regions, r, i) ==
  /\ Place(regions, r, i)
  /\ \A s \in 1 .. r : \A j \in 1 .. Len(regions[s].bytes) :
       Place(regions, s, j) => s = r /\ i <= j

SameElsewhere(memory, layout, r, i) ==
  /\ DOMAIN memory = DOMAIN layout
  /\ \A s \in DOMAIN layout :
       /\ DOMAIN memory[s].bytes = DOMAIN layout[s].bytes
       /\ s # r => memory[s].prot = layout[s].prot
       /\ \A j \in DOMAIN layout[s].bytes :
            s # r \/ j \notin {i, i + 1} => memory[s].bytes[j] = layout[s].bytes[j]
Overwritten(memory, r, i) == \A k \in 1 .. 2 : memory[r].bytes[i + k - 1] = PATCH_BYTES[k]

\* The search passes over no place, the last one of a region included, and a
\* process changes nothing in its memory but the first place of the signature
\* and the protection of its region; and when it says that the lobby is patched,
\* both bytes are overwritten and the protection is as it was.
Untouched(q) == q.memory = q.layout /\ "lobby patched" \notin q.told
PatchedAt(q, r, i) ==
  /\ FirstPlace(q.layout, r, i)
  /\ SameElsewhere(q.memory, q.layout, r, i)
  /\ "lobby patched" \in q.told =>
       Overwritten(q.memory, r, i) /\ q.memory[r].prot = q.layout[r].prot
PatchExact ==
  /\ SearchSucceeds
  /\ \A p \in Procs :
       \/ Untouched(proc[p])
       \/ \E r \in DOMAIN proc[p].layout : \E i \in 1 .. Len(proc[p].layout[r].bytes) :
            PatchedAt(proc[p], r, i)

\* The last message box of WinMain: "Multiplayer lobby JNZ patched".
SuccessMeansLobbyPatched == \A p \in Procs :
  "success" \in proc[p].told =>
    \E r \in DOMAIN proc[p].memory : \E i \in 1 .. Len(proc[p].memory[r].bytes) - 1 :
      Place(proc[p].layout, r, i) /\ Overwritten(proc[p].memory, r, i)
=============================================================================
