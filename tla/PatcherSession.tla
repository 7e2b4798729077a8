--------------------------- MODULE PatcherSession ---------------------------
(***************************************************************************)
(* Sessions of the overdrive program, WinMain of "Redone/Overdrive         *)
(* exe.cpp": a process looks whether it is elevated and otherwise starts   *)
(* itself again and ends; it finds and loads GDI HOOKING DLL.dll, rewrites *)
(* the headers of Soulstorm.exe, and at last searches its own memory for   *)
(* the jump of the lobby check and overwrites what it finds.               *)
(*                                                                         *)
(* Nothing keeps the user from starting the program twice, so processes    *)
(* interleave on the file, each with the headers it has read.  A header is *)
(* read in one step and written over in one step that succeeds: the pieces *)
(* of the writes, and the full disk, are in PePatch.  Every dialog is      *)
(* answered in the step that shows it, every other call of the operating   *)
(* system may fail, and a process may be killed anywhere.                  *)
(***************************************************************************)
EXTENDS Integers, Sequences

CONSTANTS Procs,     \* bound: processes of the program, over all sessions
          Layouts    \* the memory of a new process: regions by address

\* A byte, "00" for those that do not matter, and the protection of a region.
Bytes       == {"00", "75", "40", "90"}
Protections == {"free", "guard", "noaccess", "readonly", "readwrite", "execute",
                "execute_readwrite"}
Regions     == Seq([prot : Protections, bytes : Seq(Bytes)])

PATCH_SIGNATURE == <<"75", "40">>
PATCH_BYTES     == <<"90", "90">>

\* Free memory, guard pages and pages without access are passed over.
Readable(region) == region.prot \notin {"free", "guard", "noaccess"}
SignatureAt(bytes, i) == \A k \in 1 .. 2 : bytes[i + k - 1] = PATCH_SIGNATURE[k]

\* The constant PATCH_SIGNATURE is itself part of the memory searched.
ASSUME LayoutAssumption == \A regions \in Layouts :
  /\ regions \in Regions
  /\ \E r \in DOMAIN regions :
       Readable(regions[r]) /\ \E i \in 1 .. Len(regions[r].bytes) - 1 :
                                 SignatureAt(regions[r].bytes, i)

VARIABLES image,     \* Soulstorm.exe: the flag, and the .injsec headers by the
                     \* process that added them, of which the first nsec count
          proc       \* the processes

vars == <<image, proc>>

\* The ghost layout is the memory at the start.
Process(pc, elevated, origin, regions) ==
  [pc |-> pc, elevated |-> elevated, origin |-> origin,
   layout |-> regions, memory |-> regions,
   patchAddr |-> [region |-> 0, at |-> 0], oldProtect |-> "free",
   nth |-> [laa |-> FALSE, nsec |-> 0, table |-> <<>>], hooked |-> FALSE, told |-> {}]

Absent(p) == Process("absent", FALSE, p, <<>>)
Started(elevated, origin, regions) == Process("started", elevated, origin, regions)

Init ==
  /\ image \in [laa : BOOLEAN, nsec : {0}, table : {<<>>}]
  /\ proc = [p \in Procs |-> Absent(p)]

-----------------------------------------------------------------------------
At(p, pc)     == proc[p].pc = pc
Becomes(p, q) == proc' = [proc EXCEPT ![p] = q]
Goto(p, pc)   == Becomes(p, [proc[p] EXCEPT !.pc = pc]) /\ UNCHANGED image

\* The end of a process: WinMain returns, ~DllHandle lets the library go.
Ended(p, boxes) == [proc[p] EXCEPT !.pc = "ended", !.hooked = FALSE, !.told = @ \cup boxes]
Return(p, boxes) == Becomes(p, Ended(p, boxes)) /\ UNCHANGED image

UserStarts(p) ==
  /\ At(p, "absent")
  /\ \E elevated \in BOOLEAN, regions \in Layouts :
       Becomes(p, Started(elevated, p, regions))
  /\ UNCHANGED image

\* An elevated process takes itself for another one when the SID of the
\* administrators cannot be allocated.
\* Mutant: the test is left out.
AnyoneIsAdmin(p) == At(p, "started") /\ (Goto(p, "pick") \/ Goto(p, "relaunch"))
IsRunningAsAdmin(p) ==
  /\ At(p, "started")
  /\ \/ proc[p].elevated /\ Goto(p, "pick")
     \/ Goto(p, "relaunch")

\* The user agrees, and a new elevated process starts beside this one, which
\* has only ExitProcess left; or refuses; or the program does not find its own
\* path.
\* Mutant: the old process goes on.
RelaunchAndStay(p) ==
  /\ At(p, "relaunch")
  /\ \E q \in Procs, regions \in Layouts :
       /\ At(q, "absent")
       /\ proc' = [proc EXCEPT ![p].pc = "pick",
                               ![q] = Started(TRUE, proc[p].origin, regions)]
  /\ UNCHANGED image
RelaunchAsAdmin(p) ==
  /\ At(p, "relaunch")
  /\ \/ \E q \in Procs, regions \in Layouts :
          /\ At(q, "absent")
          /\ proc' = [proc EXCEPT ![p].pc = "exit",
                                  ![q] = Started(TRUE, proc[p].origin, regions)]
          /\ UNCHANGED image
     \/ Return(p, {"must be administrator"})
     \/ Return(p, {})
RelaunchExit(p) == At(p, "exit") /\ Return(p, {})

PickSoulstormExe(p) ==
  At(p, "pick") /\ (Goto(p, "locate") \/ Return(p, {"no exe selected"}))

\* The registry names the directory of the game, and the DLL is in it.
GetSoulstormPath(p) ==
  /\ At(p, "locate")
  /\ Goto(p, "load") \/ Return(p, {"not in registry"}) \/ Return(p, {"no dll"})

\* loadDll; nothing else in the process uses the library.
LoadHook(p) ==
  /\ At(p, "load")
  /\ \/ Becomes(p, [proc[p] EXCEPT !.pc = "laa", !.hooked = TRUE]) /\ UNCHANGED image
     \/ Return(p, {"dll not loaded"})

-----------------------------------------------------------------------------
\* EnableLAA and InjectInjsec each open the file, read and check its headers,
\* and write them back; EnableLAA writes the NT headers only.
Headers == [image EXCEPT !.table = SubSeq(@, 1, image.nsec)]

ReadHeaders(p, pc, next) ==
  /\ At(p, pc)
  /\ \/ Becomes(p, [proc[p] EXCEPT !.pc = next, !.nth = Headers]) /\ UNCHANGED image
     \/ Return(p, {"patch failed"})

EnableLAARead(p) == ReadHeaders(p, "laa", "laa write")

EnableLAAWrite(p) ==
  /\ At(p, "laa write")
  /\ image' = [image EXCEPT !.laa = TRUE, !.nsec = proc[p].nth.nsec]
  /\ Becomes(p, [proc[p] EXCEPT !.pc = "inject"])

\* Mutant: the headers read by EnableLAA are used again.
InjectReuse(p)      == At(p, "inject") /\ Goto(p, "inject write")
InjectInjsecRead(p) == ReadHeaders(p, "inject", "inject write")

\* The longer table over the old one, which is not cut off behind it.
\* Mutant: the counted new header is not written behind the others.
LastMissing(old, new) == SubSeq(new, 1, Len(new) - 1) \o SubSeq(old, Len(new), Len(old))
Over(old, new)   == new \o SubSeq(old, Len(new) + 1, Len(old))

InjectInjsecWrite(p) ==
  LET nth == proc[p].nth IN
  /\ At(p, "inject write")
  /\ image' = [laa |-> nth.laa, nsec |-> nth.nsec + 1,
               table |-> Over(image.table, Append(nth.table, p))]
  /\ Becomes(p, [proc[p] EXCEPT !.pc = "search"])

-----------------------------------------------------------------------------
\* The first place of the signature, region by region; no match crosses the
\* end of a region.
Least(S) == CHOOSE i \in S : \A j \in S : i <= j

Matches(bytes) == {i \in 1 .. Len(bytes) - 1 : SignatureAt(bytes, i)}

Hits(regions) ==
  {r \in DOMAIN regions : Readable(regions[r]) /\ Matches(regions[r].bytes) # {}}

FindPatchAddress(regions) ==
  LET r == Least(Hits(regions))
  IN  [region |-> r, at |-> Least(Matches(regions[r].bytes))]

Fails(p, boxes) == [proc[p] EXCEPT !.pc = "report", !.told = @ \cup boxes]

RunPatch(p) ==
  /\ At(p, "search")
  /\ Becomes(p, IF Hits(proc[p].memory) = {} THEN Fails(p, {"no patch address"})
                ELSE [proc[p] EXCEPT !.pc = "protect",
                                     !.patchAddr = FindPatchAddress(proc[p].memory)])
  /\ UNCHANGED image

\* PatchMultiplayerLobby: the page is made writable, the jump overwritten, and
\* the old protection put back, but not when the write has failed.
Protect(p) ==
  LET r == proc[p].patchAddr.region IN
  /\ At(p, "protect")
  /\ \/ Becomes(p, [proc[p] EXCEPT !.pc = "write", !.oldProtect = proc[p].memory[r].prot,
                                   !.memory[r].prot = "execute_readwrite"])
     \/ Becomes(p, Fails(p, {}))
  /\ UNCHANGED image

Patched(bytes, i) == [bytes EXCEPT ![i] = PATCH_BYTES[1], ![i + 1] = PATCH_BYTES[2]]

Write(p) ==
  LET a == proc[p].patchAddr IN
  /\ At(p, "write")
  /\ \/ Becomes(p, [proc[p] EXCEPT !.pc = "restore",
                                   !.memory[a.region].bytes = Patched(@, a.at)])
     \/ Becomes(p, Fails(p, {}))
  /\ UNCHANGED image

\* Mutant: the box comes whether or not the protection is back.
RestoreOrNot(p) == At(p, "restore") /\ Becomes(p, Fails(p, {"lobby patched"})) /\ UNCHANGED image
Restore(p) ==
  LET r == proc[p].patchAddr.region IN
  /\ At(p, "restore")
  /\ \/ Becomes(p, [Fails(p, {"lobby patched"}) EXCEPT
                      !.memory[r].prot = proc[p].oldProtect])
     \/ Becomes(p, Fails(p, {}))
  /\ UNCHANGED image

\* RunPatch returns nothing, and the last box claims everything.
Report(p) == At(p, "report") /\ Return(p, {"success"})

Killed(p) == proc[p].pc \notin {"absent", "ended"} /\ Return(p, {})

Run(p) ==
  \/ IsRunningAsAdmin(p) \/ RelaunchAsAdmin(p) \/ RelaunchExit(p)
  \/ PickSoulstormExe(p) \/ GetSoulstormPath(p) \/ LoadHook(p)
  \/ EnableLAARead(p) \/ EnableLAAWrite(p) \/ InjectInjsecRead(p) \/ InjectInjsecWrite(p)
  \/ RunPatch(p) \/ Protect(p) \/ Write(p) \/ Restore(p) \/ Report(p)

Next == \E p \in Procs : UserStarts(p) \/ Run(p) \/ Killed(p)

Spec == Init /\ [][Next]_vars
=============================================================================
