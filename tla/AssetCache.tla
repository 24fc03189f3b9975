----------------------------- MODULE AssetCache -----------------------------
(***************************************************************************)
(* The asset cache below UserCacheDir, shared by every process that uses   *)
(* the library: extractEmbeddedAsset (go/embed.go) for builds that carry   *)
(* the asset, downloadAsset (go/download.go) for the others.  A process    *)
(* may be killed between any two system calls, and inside write(2).        *)
(*                                                                         *)
(* A file is its content: "absent", "empty", "part" (a prefix), "wrong"    *)
(* (other bytes, as many) or the whole asset.  The embedded asset is whole as "blob"; the asset of a *)
(* release r is whole as r, and r also stands for its sha256.  An open     *)
(* descriptor follows its file through rename and unlink, as on the        *)
(* platforms whose builds embed an asset (linux).  There a write(2) is not *)
(* interleaved with a truncation of the same file.                         *)
(*                                                                         *)
(* External: the mirror lists and serves whatever it likes; every system   *)
(* call may fail, os.Remove too, whose error the code ignores.             *)
(***************************************************************************)
EXTENDS FiniteSets

CONSTANTS
    Procs,          \* processes that locate the asset
    Releases,       \* the assets a mirror may list for one version
    Temps           \* the names os.CreateTemp may take (bounds how many exist)

VARIABLES
    build,          \* "embed" or "plain": is the asset compiled in?
    file,           \* the directory: content by name
    fd,             \* the name each process's open descriptor refers to
    pc,             \* the next step of the process's call
    want,           \* expectedSha of the call
    path,           \* tmpPath while it downloads, then the path it returned
    overlapped,     \* history: calls that ran while another one did
    orphans         \* history: temporary downloads that no call will remove

call == <<pc, want, path>>
vars == <<build, file, fd, call, overlapped, orphans>>

----------------------------------------------------------------------------
Extracted == <<"extracted">>
ExtractTmp == <<"extracted.tmp">>
Legacy == <<"legacy">>
Cached(r) == <<"cached", r>>                \* verifiedDownloadPath
Names == {Extracted, ExtractTmp, Legacy} \cup {Cached(r) : r \in Releases} \cup Temps

Nowhere == <<>>                     \* no descriptor, an unlinked file, no path
NoSha == "none"
Contents == {"absent", "empty", "part", "wrong", "blob"} \cup Releases

\* The sum of a release is none of the other contents; os.CreateTemp takes
\* names assetName.<random>.tmp next to a verified download, which none of
\* the fixed names is.
ASSUME ReleaseAssumption ==
    Releases \cap {"absent", "empty", "part", "wrong", "blob", NoSha} = {}
ASSUME TempAssumption ==
    Temps \cap ({Extracted, ExtractTmp, Legacy, Nowhere} \cup {Cached(r) : r \in Releases}) = {}

ExtractSteps == {"stat", "open", "write", "rename", "unlink", "unlinkMissing"}
DownloadSteps == {"sha", "cached", "legacy", "temp", "fetch", "verify", "recheck", "install"}
Running == ExtractSteps \cup DownloadSteps
Ended == {"idle", "returned", "failed", "missing"}

Active(p) == pc[p] \in Running

\* What earlier runs, an older version of the library and a power failure
\* may have left in the build's part of the cache.  A failure that leaves a
\* file of the right size with other bytes is not among them: the code trusts
\* the name of the directory there.
Init ==
    /\ build \in {"embed", "plain"}
    /\ \E extracted \in {"absent", "empty", "part", "blob"}, tmp \in {"absent", "part"},
          legacy \in {"absent", "wrong"} \cup Releases, cached \in [Releases -> {"absent", "empty", "whole"}] :
        file = [n \in Names |->
            CASE build = "embed" /\ n = Extracted -> extracted
              [] build = "embed" /\ n = ExtractTmp -> tmp
              [] build = "plain" /\ n = Legacy -> legacy
              [] build = "plain" /\ \E r \in Releases : n = Cached(r) -> IF cached[n[2]] = "whole" THEN n[2] ELSE cached[n[2]]
              [] OTHER -> "absent"]
    /\ fd = [p \in Procs |-> Nowhere]
    /\ pc = [p \in Procs |-> "idle"]
    /\ want = [p \in Procs |-> NoSha]
    /\ path = [p \in Procs |-> Nowhere]
    /\ overlapped = {}
    /\ orphans = {}

----------------------------------------------------------------------------
(***************************************************************************)
(* System calls.                                                           *)
(***************************************************************************)
Rename(src, dst) ==
    /\ file' = [file EXCEPT ![dst] = file[src], ![src] = "absent"]
    /\ fd' = [p \in Procs |-> IF fd[p] = src THEN dst
                              ELSE IF fd[p] = dst THEN Nowhere ELSE fd[p]]

Remove(name) ==
    /\ file' = [file EXCEPT ![name] = "absent"]
    /\ fd' = [p \in Procs |-> IF fd[p] = name THEN Nowhere ELSE fd[p]]

Goto(p, step) == pc' = [pc EXCEPT ![p] = step]

Return(p, name) ==
    /\ Goto(p, "returned")
    /\ path' = [path EXCEPT ![p] = name]

Fail(p) ==
    /\ Goto(p, "failed")
    /\ path' = [path EXCEPT ![p] = Nowhere]

----------------------------------------------------------------------------
(***************************************************************************)
(* A call of locateBinary or locateLibrary that reaches the cache.         *)
(***************************************************************************)
Begin(p) ==
    /\ ~Active(p)
    /\ Goto(p, IF build = "embed" THEN "stat" ELSE "sha")
    /\ want' = [want EXCEPT ![p] = NoSha]
    /\ path' = [path EXCEPT ![p] = Nowhere]
    /\ LET others == {q \in Procs \ {p} : Active(q)}
       IN  overlapped' = IF others = {} THEN overlapped \ {p} ELSE overlapped \cup others \cup {p}
    /\ UNCHANGED <<build, file, fd, orphans>>

(***************************************************************************)
(* extractEmbeddedAsset.                                                   *)
(***************************************************************************)
\* Fault: any file in the directory is trusted.
SizeIgnored(content) == content # "absent"

\* Sizes, as far as the code tells them apart; len(blob) > 0.
Size(content) == CASE content \in {"absent", "empty"} -> 0 [] content = "part" -> 1 [] OTHER -> 2

\* info.Size() == int64(len(blob)): the content is not looked at.
SizeMatches(content) == Size(content) = Size("blob")

Stat(p) ==
    /\ pc[p] = "stat"
    /\ \/ SizeMatches(file[Extracted]) /\ Return(p, Extracted)
       \/ ~SizeMatches(file[Extracted]) /\ Goto(p, "open") /\ UNCHANGED path
       \/ Fail(p)
    /\ UNCHANGED <<build, file, fd, want, overlapped, orphans>>

\* os.WriteFile(tmp) opens with O_CREATE|O_TRUNC.
OpenTmp(p) ==
    /\ pc[p] = "open"
    /\ file' = [file EXCEPT ![ExtractTmp] = "empty"]
    /\ fd' = [fd EXCEPT ![p] = ExtractTmp]
    /\ Goto(p, "write")
    /\ UNCHANGED <<build, want, path, overlapped, orphans>>

OpenFails(p) ==
    /\ pc[p] = "open"
    /\ Fail(p)
    /\ UNCHANGED <<build, file, fd, want, overlapped, orphans>>

\* Everyone writes the same bytes: a write over the whole asset leaves it
\* whole.
Write(p, content) ==
    file' = IF fd[p] = Nowhere \/ file[fd[p]] = "blob" THEN file ELSE [file EXCEPT ![fd[p]] = content]

\* Fault: the error path does not close the file.
WriteTmpLeaking(p) ==
    /\ pc[p] = "write"
    /\ \/ Write(p, "blob") /\ Goto(p, "rename") /\ fd' = [fd EXCEPT ![p] = Nowhere] /\ UNCHANGED path
       \/ Write(p, "part") /\ Fail(p) /\ UNCHANGED fd
    /\ UNCHANGED <<build, want, overlapped, orphans>>

WriteTmp(p) ==
    /\ pc[p] = "write"
    /\ \/ Write(p, "blob") /\ Goto(p, "rename") /\ UNCHANGED path
       \/ Write(p, "part") /\ Fail(p)                 \* tmp is left behind
    /\ fd' = [fd EXCEPT ![p] = Nowhere]
    /\ UNCHANGED <<build, want, overlapped, orphans>>

RenameTmp(p) ==
    /\ pc[p] = "rename"
    /\ file[ExtractTmp] # "absent"
    /\ Rename(ExtractTmp, Extracted)
    /\ Return(p, Extracted)
    /\ UNCHANGED <<build, want, overlapped, orphans>>

\* The rename fails, because tmp is gone or for a reason of its own.
RenameFails(p) ==
    /\ pc[p] = "rename"
    /\ Goto(p, IF file[ExtractTmp] = "absent" THEN "unlinkMissing" ELSE "unlink")
    /\ UNCHANGED <<build, file, fd, want, path, overlapped, orphans>>

\* os.Remove(tmp) removes whatever has the name by now, or fails.
UnlinkTmp(p) ==
    /\ pc[p] \in {"unlink", "unlinkMissing"}
    /\ Remove(ExtractTmp) \/ UNCHANGED <<file, fd>>
    /\ Goto(p, IF pc[p] = "unlink" THEN "failed" ELSE "missing")
    /\ UNCHANGED <<build, want, path, overlapped, orphans>>

----------------------------------------------------------------------------
(***************************************************************************)
(* downloadAsset.                                                          *)
(***************************************************************************)
FetchExpectedSha(p) ==
    /\ pc[p] = "sha"
    /\ \/ \E r \in Releases : want' = [want EXCEPT ![p] = r] /\ Goto(p, "cached") /\ UNCHANGED path
       \/ Fail(p) /\ UNCHANGED want
    /\ UNCHANGED <<build, file, fd, overlapped, orphans>>

\* os.Open and streamSha: a file that cannot be opened or read counts as
\* one with another sum.
HasSha(p, name) == file[name] = want[p]

\* The two looks at the cache before anything is fetched.
Lookup(p, step, name, next) ==
    /\ pc[p] = step
    /\ \/ HasSha(p, name) /\ Return(p, name)
       \/ Goto(p, next) /\ UNCHANGED path
    /\ UNCHANGED <<build, file, fd, want, overlapped, orphans>>

LookupCached(p) == Lookup(p, "cached", Cached(want[p]), "legacy")
LookupLegacy(p) == Lookup(p, "legacy", Legacy, "temp")

\* os.CreateTemp takes a name that does not exist.
FreshName(name) == file[name] = "absent"

CreateTemp(p) ==
    /\ pc[p] = "temp"
    /\ \/ \E t \in Temps :
            /\ FreshName(t)
            /\ file' = [file EXCEPT ![t] = "empty"]
            /\ path' = [path EXCEPT ![p] = t]
            /\ Goto(p, "fetch")
       \/ Fail(p) /\ UNCHANGED file                   \* MkdirAll, CreateTemp
    /\ UNCHANGED <<build, fd, want, overlapped, orphans>>

\* _ = os.Remove(tmpPath): if it fails, the file stays and no call knows it.
Discard(p) ==
    \/ Remove(path[p]) /\ UNCHANGED orphans
    \/ orphans' = orphans \cup {path[p]} /\ UNCHANGED <<file, fd>>

\* Fault: the temporary file stays.
AbandonKeeping(p) ==
    /\ UNCHANGED <<file, fd, orphans>>
    /\ Fail(p)

\* Every error after CreateTemp tries to remove the temporary file.
Abandon(p) ==
    /\ Discard(p)
    /\ Fail(p)

\* downloadFile: io.Copy of a body that may be cut short.
DownloadFile(p) ==
    /\ pc[p] = "fetch"
    /\ \/ \E content \in {"part", "wrong"} \cup Releases :
            /\ file' = [file EXCEPT ![path[p]] = content]
            /\ Goto(p, "verify")
            /\ UNCHANGED <<fd, path, orphans>>
       \/ Abandon(p)
    /\ UNCHANGED <<build, want, overlapped>>

\* Fault: no check of the sum.
VerifyNothing(p) ==
    /\ pc[p] = "verify"
    /\ \/ Goto(p, "recheck") /\ UNCHANGED <<file, fd, path, orphans>>
       \/ Abandon(p)
    /\ UNCHANGED <<build, want, overlapped>>

Verify(p) ==
    /\ pc[p] = "verify"
    /\ \/ HasSha(p, path[p]) /\ Goto(p, "recheck") /\ UNCHANGED <<file, fd, path, orphans>>
       \/ Abandon(p)
    /\ UNCHANGED <<build, want, overlapped>>

Recheck(p) ==
    /\ pc[p] = "recheck"
    /\ \/ HasSha(p, Cached(want[p])) /\ Discard(p) /\ Return(p, Cached(want[p]))
       \/ Goto(p, "install") /\ UNCHANGED <<file, fd, path, orphans>>
    /\ UNCHANGED <<build, want, overlapped>>

Install(p) ==
    /\ pc[p] = "install"
    /\ \/ Rename(path[p], Cached(want[p])) /\ Return(p, Cached(want[p])) /\ UNCHANGED orphans
       \/ Abandon(p)
    /\ UNCHANGED <<build, want, overlapped>>

----------------------------------------------------------------------------
\* The process is killed; a write in progress leaves a prefix.
Kill(p) ==
    /\ Active(p)
    /\ \/ UNCHANGED file
       \/ pc[p] = "write" /\ Write(p, "part")
       \/ pc[p] = "fetch" /\ file' = [file EXCEPT ![path[p]] = "part"]
    /\ orphans' = orphans \cup ({path[p]} \cap Temps)
    /\ fd' = [fd EXCEPT ![p] = Nowhere]
    /\ Fail(p)
    /\ UNCHANGED <<build, want, overlapped>>

Extract(p) == Stat(p) \/ OpenTmp(p) \/ OpenFails(p) \/ WriteTmp(p) \/ RenameTmp(p) \/ RenameFails(p) \/ UnlinkTmp(p)

Download(p) ==
    \/ FetchExpectedSha(p) \/ LookupCached(p) \/ LookupLegacy(p) \/ CreateTemp(p)
    \/ DownloadFile(p) \/ Verify(p) \/ Recheck(p) \/ Install(p)

Next == \E p \in Procs : Begin(p) \/ Extract(p) \/ Download(p) \/ Kill(p)

Spec == Init /\ [][Next]_vars

----------------------------------------------------------------------------
(***************************************************************************)
(* Properties.                                                             *)
(***************************************************************************)
\* The state is well typed; a descriptor is open only during WriteFile and a
\* temporary download is known only to the steps that use it.
TypeOK ==
    /\ build \in {"embed", "plain"}
    /\ file \in [Names -> Contents]
    /\ fd \in [Procs -> {Nowhere, ExtractTmp, Extracted}]
    /\ pc \in [Procs -> Running \cup Ended]
    /\ want \in [Procs -> Releases \cup {NoSha}]
    /\ path \in [Procs -> Names \cup {Nowhere}]
    /\ \A p \in Procs : fd[p] # Nowhere => pc[p] = "write"
    /\ \A p \in Procs : path[p] \in Temps <=> pc[p] \in {"fetch", "verify", "recheck", "install"}
    /\ overlapped \subseteq Procs
    /\ orphans \subseteq Temps

\* A path that downloadAsset returned holds the asset whose sum it fetched,
\* and goes on doing so whatever other processes download, install or leave
\* behind when they are killed.
DownloadedVerified ==
    \A p \in Procs : pc[p] = "returned" /\ build = "plain" => file[path[p]] = want[p]

\* Every error path of downloadAsset tries to remove its temporary file, and
\* no two calls share one: a temporary file that exists belongs to one running
\* call, was left by a killed process, or could not be removed.
NoTempLeft ==
    \A t \in Temps : file[t] # "absent" =>
        \/ t \in orphans
        \/ Cardinality({p \in Procs : Active(p) /\ path[p] = t}) = 1

\* An extraction that ran alone never fails because its temporary file is
\* gone, and returns the whole asset, whatever crashed or concurrent calls
\* left before; later calls keep it whole.
SoloExtractionSound ==
    \A p \in Procs \ overlapped : build = "embed" =>
        /\ pc[p] # "missing"
        /\ pc[p] = "returned" => file[Extracted] = "blob"

\* "extractEmbeddedAsset writes blob to ..." (go/embed.go): a path it
\* returned holds the whole asset.
ExtractedWhole ==
    \A p \in Procs : pc[p] = "returned" /\ build = "embed" => file[Extracted] = "blob"
=============================================================================
