-------------------------- MODULE AssetCacheProofs --------------------------
(***************************************************************************)
(* Safety of the asset cache for any number of processes, releases and     *)
(* temporary names.                                                        *)
(***************************************************************************)
EXTENDS AssetCache, FiniteSetTheorems, TLAPS

----------------------------------------------------------------------------
(***************************************************************************)
(* The inductive invariant.                                                *)
(***************************************************************************)
TempSteps == {"fetch", "verify", "recheck", "install"}

\* A process takes only the steps of its build, and knows the sum it wants
\* once it has fetched it.
StepInv ==
    \A p \in Procs :
        /\ build = "embed" => pc[p] \notin DownloadSteps
        /\ build = "plain" => pc[p] \notin ExtractSteps
        /\ pc[p] \in DownloadSteps \ {"sha"} => want[p] \in Releases

\* A verified download is never anything but absent, cut to nothing by a power
\* failure, or what its name says.
CachedInv == \A r \in Releases : file[Cached(r)] \in {"absent", "empty", r}

\* A temporary file belongs to the one call that created it, which has seen
\* the sum it wants before it installs the file.
TempInv ==
    /\ \A p \in Procs :
        /\ pc[p] \in TempSteps => file[path[p]] # "absent"
        /\ pc[p] \in {"recheck", "install"} => file[path[p]] = want[p]
    /\ \A p, q \in Procs :
        pc[p] \in TempSteps /\ pc[q] \in TempSteps /\ path[p] = path[q] => p = q
    /\ \A t \in Temps : file[t] # "absent" =>
        t \in orphans \/ \E p \in Procs : pc[p] \in TempSteps /\ path[p] = t

\* A download returned one of the two names that no later call damages.
ReturnedInv ==
    \A p \in Procs : pc[p] = "returned" /\ build = "plain" =>
        /\ want[p] \in Releases
        /\ path[p] \in {Cached(want[p]), Legacy}
        /\ file[path[p]] = want[p]

\* Calls that run together are known to overlap; the files of an extraction
\* hold a prefix of the asset; a call that runs alone finds its temporary file
\* as it left it, and once it has returned every later call stops at the size
\* check.
SoloInv ==
    /\ \A p, q \in Procs : Active(p) /\ Active(q) /\ p # q => p \in overlapped
    /\ build = "embed" => {file[Extracted], file[ExtractTmp]} \subseteq {"absent", "empty", "part", "blob"}
    /\ build = "embed" => \A p \in Procs \ overlapped :
        /\ pc[p] \notin {"unlinkMissing", "missing"}
        /\ pc[p] = "write" => fd[p] = ExtractTmp
        /\ pc[p] = "rename" => file[ExtractTmp] = "blob"
        /\ pc[p] = "returned" =>
            /\ file[Extracted] = "blob"
            /\ \A q \in Procs : Active(q) => pc[q] = "stat"

Inv == TypeOK /\ StepInv /\ CachedInv /\ TempInv /\ ReturnedInv /\ SoloInv

----------------------------------------------------------------------------
(***************************************************************************)
(* Names and contents.                                                     *)
(***************************************************************************)
\* The names of the cache are different files, in both parts of it.
LEMMA NameFacts ==
    /\ {Extracted, ExtractTmp, Legacy} \subseteq Names /\ Temps \subseteq Names
    /\ \A r \in Releases : Cached(r) \in Names
    /\ Extracted # ExtractTmp /\ Extracted # Legacy /\ ExtractTmp # Legacy
    /\ Nowhere \notin {Extracted, ExtractTmp, Legacy}
    /\ \A r \in Releases : Cached(r) \notin {Extracted, ExtractTmp, Legacy, Nowhere}
    /\ \A r, q \in Releases : Cached(r) = Cached(q) => r = q
    /\ \A t \in Temps : t \notin {Extracted, ExtractTmp, Legacy, Nowhere}
    /\ \A t \in Temps, r \in Releases : t # Cached(r)
<1>1. /\ {Extracted, ExtractTmp, Legacy} \subseteq Names /\ Temps \subseteq Names
      /\ \A r \in Releases : Cached(r) \in Names
    BY DEF Names
<1>2. /\ Extracted # ExtractTmp /\ Extracted # Legacy /\ ExtractTmp # Legacy
      /\ Nowhere \notin {Extracted, ExtractTmp, Legacy}
    BY DEF Extracted, ExtractTmp, Legacy, Nowhere
<1>3. \A r \in Releases : Cached(r) \notin {Extracted, ExtractTmp, Legacy, Nowhere}
    BY DEF Extracted, ExtractTmp, Legacy, Nowhere, Cached
<1>4. \A r, q \in Releases : Cached(r) = Cached(q) => r = q
    BY DEF Cached
<1>5. /\ \A t \in Temps : t \notin {Extracted, ExtractTmp, Legacy, Nowhere}
      /\ \A t \in Temps, r \in Releases : t # Cached(r)
    BY TempAssumption
<1> QED
    BY <1>1, <1>2, <1>3, <1>4, <1>5

\* A release is a content of its own.
LEMMA ContentFacts ==
    /\ {"absent", "empty", "part", "wrong", "blob"} \cup Releases = Contents
    /\ \A r \in Releases : r \notin {"absent", "empty", "part", "wrong", "blob", NoSha}
BY ReleaseAssumption DEF Contents

----------------------------------------------------------------------------
(***************************************************************************)
(* Every step preserves the invariant.                                     *)
(***************************************************************************)
\* A process takes only the steps of its build.
LEMMA NextStep == Inv /\ [Next]_vars => StepInv'
<1> SUFFICES ASSUME Inv, [Next]_vars PROVE StepInv'
    OBVIOUS
<1> USE NameFacts, ContentFacts DEF call, Goto
<1>u. CASE UNCHANGED vars
    BY <1>u DEF vars, Inv, StepInv
<1>n. CASE Next
  <2> PICK p \in Procs : Begin(p) \/ Extract(p) \/ Download(p) \/ Kill(p)
      BY <1>n DEF Next
  <2>1. CASE Begin(p)
      BY <2>1 DEF Inv, TypeOK, StepInv, ExtractSteps, DownloadSteps, Running, Ended, Begin,
         Active
  <2>2. CASE Stat(p)
      BY <2>2 DEF Inv, TypeOK, StepInv, ExtractSteps, DownloadSteps, Running, Ended, Stat,
         Return, Fail, SizeMatches, Size
  <2>3. CASE OpenTmp(p)
      BY <2>3 DEF Inv, TypeOK, StepInv, ExtractSteps, DownloadSteps, Running, Ended, OpenTmp
  <2>4. CASE OpenFails(p)
      BY <2>4 DEF Inv, TypeOK, StepInv, ExtractSteps, DownloadSteps, Running, Ended,
         OpenFails, Fail
  <2>5. CASE WriteTmp(p)
      BY <2>5 DEF Inv, TypeOK, StepInv, ExtractSteps, DownloadSteps, Running, Ended,
         WriteTmp, Write, Fail
  <2>6. CASE RenameTmp(p)
      BY <2>6 DEF Inv, TypeOK, StepInv, ExtractSteps, DownloadSteps, Running, Ended,
         RenameTmp, Rename, Return
  <2>7. CASE RenameFails(p)
      BY <2>7 DEF Inv, TypeOK, StepInv, ExtractSteps, DownloadSteps, Running, Ended,
         RenameFails
  <2>8. CASE UnlinkTmp(p)
      BY <2>8 DEF Inv, TypeOK, StepInv, ExtractSteps, DownloadSteps, Running, Ended,
         UnlinkTmp, Remove
  <2>9. CASE FetchExpectedSha(p)
      BY <2>9 DEF Inv, TypeOK, StepInv, ExtractSteps, DownloadSteps, Running, Ended,
         FetchExpectedSha, Fail
  <2>10. CASE LookupCached(p)
      BY <2>10 DEF Inv, TypeOK, StepInv, ExtractSteps, DownloadSteps, Running, Ended,
         LookupCached, Lookup, HasSha, Return
  <2>11. CASE LookupLegacy(p)
      BY <2>11 DEF Inv, TypeOK, StepInv, ExtractSteps, DownloadSteps, Running, Ended,
         LookupLegacy, Lookup, HasSha, Return
  <2>12. CASE CreateTemp(p)
      BY <2>12 DEF Inv, TypeOK, StepInv, ExtractSteps, DownloadSteps, Running, Ended,
         CreateTemp, FreshName, Fail
  <2>13. CASE DownloadFile(p)
      BY <2>13 DEF Inv, TypeOK, StepInv, ExtractSteps, DownloadSteps, Running, Ended,
         DownloadFile, Abandon, Discard, Remove, Fail
  <2>14. CASE Verify(p)
      BY <2>14 DEF Inv, TypeOK, StepInv, ExtractSteps, DownloadSteps, Running, Ended,
         Verify, HasSha, Abandon, Discard, Remove, Fail
  <2>15. CASE Recheck(p)
      BY <2>15 DEF Inv, TypeOK, StepInv, ExtractSteps, DownloadSteps, Running, Ended,
         Recheck, HasSha, Discard, Remove, Return
  <2>16. CASE Install(p)
      BY <2>16 DEF Inv, TypeOK, StepInv, ExtractSteps, DownloadSteps, Running, Ended,
         Install, Rename, Return, Abandon, Discard, Remove, Fail
  <2>17. CASE Kill(p)
      BY <2>17 DEF Inv, TypeOK, StepInv, ExtractSteps, DownloadSteps, Running, Ended, Kill,
         Active, Write, Fail
  <2> QED
      BY <2>1, <2>2, <2>3, <2>4, <2>5, <2>6, <2>7, <2>8, <2>9, <2>10, <2>11, <2>12, <2>13,
         <2>14, <2>15, <2>16, <2>17 DEF Extract, Download
<1> QED
    BY <1>u, <1>n

\* Every step keeps the types.
LEMMA NextType == Inv /\ [Next]_vars => TypeOK'
<1> SUFFICES ASSUME Inv, [Next]_vars PROVE TypeOK'
    OBVIOUS
<1> USE NameFacts, ContentFacts DEF call, Goto
<1>u. CASE UNCHANGED vars
    BY <1>u DEF vars, Inv, TypeOK
<1>n. CASE Next
  <2> PICK p \in Procs : Begin(p) \/ Extract(p) \/ Download(p) \/ Kill(p)
      BY <1>n DEF Next
  <2>1. CASE Begin(p)
      BY <2>1 DEF Inv, TypeOK, StepInv, ExtractSteps, DownloadSteps, Running, Ended, Begin,
         Active
  <2>2. CASE Stat(p)
      BY <2>2 DEF Inv, TypeOK, StepInv, ExtractSteps, DownloadSteps, Running, Ended, Stat,
         Return, Fail, SizeMatches, Size
  <2>3. CASE OpenTmp(p)
      BY <2>3 DEF Inv, TypeOK, StepInv, ExtractSteps, DownloadSteps, Running, Ended, OpenTmp
  <2>4. CASE OpenFails(p)
      BY <2>4 DEF Inv, TypeOK, StepInv, ExtractSteps, DownloadSteps, Running, Ended,
         OpenFails, Fail
  <2>5. CASE WriteTmp(p)
      BY <2>5 DEF Inv, TypeOK, StepInv, ExtractSteps, DownloadSteps, Running, Ended,
         WriteTmp, Write, Fail
  <2>6. CASE RenameTmp(p)
      BY <2>6 DEF Inv, TypeOK, StepInv, ExtractSteps, DownloadSteps, Running, Ended,
         RenameTmp, Rename, Return
  <2>7. CASE RenameFails(p)
      BY <2>7 DEF Inv, TypeOK, StepInv, ExtractSteps, DownloadSteps, Running, Ended,
         RenameFails
  <2>8. CASE UnlinkTmp(p)
      BY <2>8 DEF Inv, TypeOK, StepInv, ExtractSteps, DownloadSteps, Running, Ended,
         UnlinkTmp, Remove
  <2>9. CASE FetchExpectedSha(p)
      BY <2>9 DEF Inv, TypeOK, StepInv, ExtractSteps, DownloadSteps, Running, Ended,
         FetchExpectedSha, Fail
  <2>10. CASE LookupCached(p)
      BY <2>10 DEF Inv, TypeOK, StepInv, ExtractSteps, DownloadSteps, Running, Ended,
         LookupCached, Lookup, HasSha, Return
  <2>11. CASE LookupLegacy(p)
      BY <2>11 DEF Inv, TypeOK, StepInv, ExtractSteps, DownloadSteps, Running, Ended,
         LookupLegacy, Lookup, HasSha, Return
  <2>12. CASE CreateTemp(p)
      BY <2>12 DEF Inv, TypeOK, StepInv, ExtractSteps, DownloadSteps, Running, Ended,
         CreateTemp, FreshName, Fail
  <2>13. CASE DownloadFile(p)
      BY <2>13 DEF Inv, TypeOK, StepInv, ExtractSteps, DownloadSteps, Running, Ended,
         DownloadFile, Abandon, Discard, Remove, Fail
  <2>14. CASE Verify(p)
      BY <2>14 DEF Inv, TypeOK, StepInv, ExtractSteps, DownloadSteps, Running, Ended,
         Verify, HasSha, Abandon, Discard, Remove, Fail
  <2>15. CASE Recheck(p)
      BY <2>15 DEF Inv, TypeOK, StepInv, ExtractSteps, DownloadSteps, Running, Ended,
         Recheck, HasSha, Discard, Remove, Return
  <2>16. CASE Install(p)
      BY <2>16 DEF Inv, TypeOK, StepInv, ExtractSteps, DownloadSteps, Running, Ended,
         Install, Rename, Return, Abandon, Discard, Remove, Fail
  <2>17. CASE Kill(p)
      BY <2>17 DEF Inv, TypeOK, StepInv, ExtractSteps, DownloadSteps, Running, Ended, Kill,
         Active, Write, Fail
  <2> QED
      BY <2>1, <2>2, <2>3, <2>4, <2>5, <2>6, <2>7, <2>8, <2>9, <2>10, <2>11, <2>12, <2>13,
         <2>14, <2>15, <2>16, <2>17 DEF Extract, Download
<1> QED
    BY <1>u, <1>n

\* Only a verified file is installed under the name of its sum.
LEMMA NextCached == Inv /\ [Next]_vars => CachedInv'
<1> SUFFICES ASSUME Inv, [Next]_vars PROVE CachedInv'
    OBVIOUS
<1> USE NameFacts, ContentFacts DEF call, Goto
<1>u. CASE UNCHANGED vars
    BY <1>u DEF vars, Inv, CachedInv
<1>n. CASE Next
  <2> PICK p \in Procs : Begin(p) \/ Extract(p) \/ Download(p) \/ Kill(p)
      BY <1>n DEF Next
  <2>1. CASE Begin(p)
      BY <2>1 DEF Inv, TypeOK, StepInv, ExtractSteps, DownloadSteps, Running, TempSteps,
         CachedInv, TempInv, Begin, Active
  <2>2. CASE Stat(p)
      BY <2>2 DEF Inv, TypeOK, StepInv, ExtractSteps, DownloadSteps, Running, TempSteps,
         CachedInv, TempInv, Stat, Return, Fail, SizeMatches, Size
  <2>3. CASE OpenTmp(p)
      BY <2>3 DEF Inv, TypeOK, StepInv, ExtractSteps, DownloadSteps, Running, TempSteps,
         CachedInv, TempInv, OpenTmp
  <2>4. CASE OpenFails(p)
      BY <2>4 DEF Inv, TypeOK, StepInv, ExtractSteps, DownloadSteps, Running, TempSteps,
         CachedInv, TempInv, OpenFails, Fail
  <2>5. CASE WriteTmp(p)
      BY <2>5 DEF Inv, TypeOK, StepInv, ExtractSteps, DownloadSteps, Running, TempSteps,
         CachedInv, TempInv, WriteTmp, Write, Fail
  <2>6. CASE RenameTmp(p)
      BY <2>6 DEF Inv, TypeOK, StepInv, ExtractSteps, DownloadSteps, Running, TempSteps,
         CachedInv, TempInv, RenameTmp, Rename, Return
  <2>7. CASE RenameFails(p)
      BY <2>7 DEF Inv, TypeOK, StepInv, ExtractSteps, DownloadSteps, Running, TempSteps,
         CachedInv, TempInv, RenameFails
  <2>8. CASE UnlinkTmp(p)
      BY <2>8 DEF Inv, TypeOK, StepInv, ExtractSteps, DownloadSteps, Running, TempSteps,
         CachedInv, TempInv, UnlinkTmp, Remove
  <2>9. CASE FetchExpectedSha(p)
      BY <2>9 DEF Inv, TypeOK, StepInv, ExtractSteps, DownloadSteps, Running, TempSteps,
         CachedInv, TempInv, FetchExpectedSha, Fail
  <2>10. CASE LookupCached(p)
      BY <2>10 DEF Inv, TypeOK, StepInv, ExtractSteps, DownloadSteps, Running, TempSteps,
         CachedInv, TempInv, LookupCached, Lookup, HasSha, Return
  <2>11. CASE LookupLegacy(p)
      BY <2>11 DEF Inv, TypeOK, StepInv, ExtractSteps, DownloadSteps, Running, TempSteps,
         CachedInv, TempInv, LookupLegacy, Lookup, HasSha, Return
  <2>12. CASE CreateTemp(p)
      BY <2>12 DEF Inv, TypeOK, StepInv, ExtractSteps, DownloadSteps, Running, TempSteps,
         CachedInv, TempInv, CreateTemp, FreshName, Fail
  <2>13. CASE DownloadFile(p)
      BY <2>13 DEF Inv, TypeOK, StepInv, ExtractSteps, DownloadSteps, Running, TempSteps,
         CachedInv, TempInv, DownloadFile, Abandon, Discard, Remove, Fail
  <2>14. CASE Verify(p)
      BY <2>14 DEF Inv, TypeOK, StepInv, ExtractSteps, DownloadSteps, Running, TempSteps,
         CachedInv, TempInv, Verify, HasSha, Abandon, Discard, Remove, Fail
  <2>15. CASE Recheck(p)
      BY <2>15 DEF Inv, TypeOK, StepInv, ExtractSteps, DownloadSteps, Running, TempSteps,
         CachedInv, TempInv, Recheck, HasSha, Discard, Remove, Return
  <2>16. CASE Install(p)
      BY <2>16 DEF Inv, TypeOK, StepInv, ExtractSteps, DownloadSteps, Running, TempSteps,
         CachedInv, TempInv, Install, Rename, Return, Abandon, Discard, Remove, Fail
  <2>17. CASE Kill(p)
      BY <2>17 DEF Inv, TypeOK, StepInv, ExtractSteps, DownloadSteps, Running, TempSteps,
         CachedInv, TempInv, Kill, Active, Write, Fail
  <2> QED
      BY <2>1, <2>2, <2>3, <2>4, <2>5, <2>6, <2>7, <2>8, <2>9, <2>10, <2>11, <2>12, <2>13,
         <2>14, <2>15, <2>16, <2>17 DEF Extract, Download
<1> QED
    BY <1>u, <1>n

\* A temporary file has one owner from its creation until it is gone.
LEMMA NextTemp == Inv /\ [Next]_vars => TempInv'
<1> SUFFICES ASSUME Inv, [Next]_vars PROVE TempInv'
    OBVIOUS
<1> USE NameFacts, ContentFacts DEF call, Goto
<1>u. CASE UNCHANGED vars
    BY <1>u DEF vars, Inv, TempInv, TempSteps
<1>n. CASE Next
  <2> PICK p \in Procs : Begin(p) \/ Extract(p) \/ Download(p) \/ Kill(p)
      BY <1>n DEF Next
  <2>1. CASE Begin(p)
      BY <2>1 DEF Inv, TypeOK, StepInv, ExtractSteps, DownloadSteps, Running, TempSteps,
         TempInv, Begin, Active
  <2>2. CASE Stat(p)
      BY <2>2 DEF Inv, TypeOK, StepInv, ExtractSteps, DownloadSteps, Running, TempSteps,
         TempInv, Stat, Return, Fail, SizeMatches, Size
  <2>3. CASE OpenTmp(p)
      BY <2>3 DEF Inv, TypeOK, StepInv, ExtractSteps, DownloadSteps, Running, TempSteps,
         TempInv, OpenTmp
  <2>4. CASE OpenFails(p)
      BY <2>4 DEF Inv, TypeOK, StepInv, ExtractSteps, DownloadSteps, Running, TempSteps,
         TempInv, OpenFails, Fail
  <2>5. CASE WriteTmp(p)
      BY <2>5 DEF Inv, TypeOK, StepInv, ExtractSteps, DownloadSteps, Running, TempSteps,
         TempInv, WriteTmp, Write, Fail
  <2>6. CASE RenameTmp(p)
      BY <2>6 DEF Inv, TypeOK, StepInv, ExtractSteps, DownloadSteps, Running, TempSteps,
         TempInv, RenameTmp, Rename, Return
  <2>7. CASE RenameFails(p)
      BY <2>7 DEF Inv, TypeOK, StepInv, ExtractSteps, DownloadSteps, Running, TempSteps,
         TempInv, RenameFails
  <2>8. CASE UnlinkTmp(p)
      BY <2>8 DEF Inv, TypeOK, StepInv, ExtractSteps, DownloadSteps, Running, TempSteps,
         TempInv, UnlinkTmp, Remove
  <2>9. CASE FetchExpectedSha(p)
      BY <2>9 DEF Inv, TypeOK, StepInv, ExtractSteps, DownloadSteps, Running, TempSteps,
         TempInv, FetchExpectedSha, Fail
  <2>10. CASE LookupCached(p)
      BY <2>10 DEF Inv, TypeOK, StepInv, ExtractSteps, DownloadSteps, Running, TempSteps,
         TempInv, LookupCached, Lookup, HasSha, Return
  <2>11. CASE LookupLegacy(p)
      BY <2>11 DEF Inv, TypeOK, StepInv, ExtractSteps, DownloadSteps, Running, TempSteps,
         TempInv, LookupLegacy, Lookup, HasSha, Return
  <2>12. CASE CreateTemp(p)
      BY <2>12 DEF Inv, TypeOK, StepInv, ExtractSteps, DownloadSteps, Running, TempSteps,
         TempInv, CreateTemp, FreshName, Fail
  <2>13. CASE DownloadFile(p)
      BY <2>13 DEF Inv, TypeOK, StepInv, ExtractSteps, DownloadSteps, Running, TempSteps,
         TempInv, DownloadFile, Abandon, Discard, Remove, Fail
  <2>14. CASE Verify(p)
      BY <2>14 DEF Inv, TypeOK, StepInv, ExtractSteps, DownloadSteps, Running, TempSteps,
         TempInv, Verify, HasSha, Abandon, Discard, Remove, Fail
  <2>15. CASE Recheck(p)
      BY <2>15 DEF Inv, TypeOK, StepInv, ExtractSteps, DownloadSteps, Running, TempSteps,
         TempInv, Recheck, HasSha, Discard, Remove, Return
  <2>16. CASE Install(p)
      BY <2>16 DEF Inv, TypeOK, StepInv, ExtractSteps, DownloadSteps, Running, TempSteps,
         TempInv, Install, Rename, Return, Abandon, Discard, Remove, Fail
  <2>17. CASE Kill(p)
      BY <2>17 DEF Inv, TypeOK, StepInv, ExtractSteps, DownloadSteps, Running, TempSteps,
         TempInv, Kill, Active, Write, Fail
  <2> QED
      BY <2>1, <2>2, <2>3, <2>4, <2>5, <2>6, <2>7, <2>8, <2>9, <2>10, <2>11, <2>12, <2>13,
         <2>14, <2>15, <2>16, <2>17 DEF Extract, Download
<1> QED
    BY <1>u, <1>n

\* What a download returned stays what it was.
LEMMA NextReturned == Inv /\ [Next]_vars => ReturnedInv'
<1> SUFFICES ASSUME Inv, [Next]_vars PROVE ReturnedInv'
    OBVIOUS
<1> USE NameFacts, ContentFacts DEF call, Goto
<1>u. CASE UNCHANGED vars
    BY <1>u DEF vars, Inv, ReturnedInv
<1>n. CASE Next
  <2> PICK p \in Procs : Begin(p) \/ Extract(p) \/ Download(p) \/ Kill(p)
      BY <1>n DEF Next
  <2>1. CASE Begin(p)
      BY <2>1 DEF Inv, TypeOK, StepInv, ExtractSteps, DownloadSteps, Running, TempSteps,
         CachedInv, TempInv, ReturnedInv, Begin, Active
  <2>2. CASE Stat(p)
      BY <2>2 DEF Inv, TypeOK, StepInv, ExtractSteps, DownloadSteps, Running, TempSteps,
         CachedInv, TempInv, ReturnedInv, Stat, Return, Fail, SizeMatches, Size
  <2>3. CASE OpenTmp(p)
      BY <2>3 DEF Inv, TypeOK, StepInv, ExtractSteps, DownloadSteps, Running, TempSteps,
         CachedInv, TempInv, ReturnedInv, OpenTmp
  <2>4. CASE OpenFails(p)
      BY <2>4 DEF Inv, TypeOK, StepInv, ExtractSteps, DownloadSteps, Running, TempSteps,
         CachedInv, TempInv, ReturnedInv, OpenFails, Fail
  <2>5. CASE WriteTmp(p)
      BY <2>5 DEF Inv, TypeOK, StepInv, ExtractSteps, DownloadSteps, Running, TempSteps,
         CachedInv, TempInv, ReturnedInv, WriteTmp, Write, Fail
  <2>6. CASE RenameTmp(p)
      BY <2>6 DEF Inv, TypeOK, StepInv, ExtractSteps, DownloadSteps, Running, TempSteps,
         CachedInv, TempInv, ReturnedInv, RenameTmp, Rename, Return
  <2>7. CASE RenameFails(p)
      BY <2>7 DEF Inv, TypeOK, StepInv, ExtractSteps, DownloadSteps, Running, TempSteps,
         CachedInv, TempInv, ReturnedInv, RenameFails
  <2>8. CASE UnlinkTmp(p)
      BY <2>8 DEF Inv, TypeOK, StepInv, ExtractSteps, DownloadSteps, Running, TempSteps,
         CachedInv, TempInv, ReturnedInv, UnlinkTmp, Remove
  <2>9. CASE FetchExpectedSha(p)
      BY <2>9 DEF Inv, TypeOK, StepInv, ExtractSteps, DownloadSteps, Running, TempSteps,
         CachedInv, TempInv, ReturnedInv, FetchExpectedSha, Fail
  <2>10. CASE LookupCached(p)
      BY <2>10 DEF Inv, TypeOK, StepInv, ExtractSteps, DownloadSteps, Running, TempSteps,
         CachedInv, TempInv, ReturnedInv, LookupCached, Lookup, HasSha, Return
  <2>11. CASE LookupLegacy(p)
      BY <2>11 DEF Inv, TypeOK, StepInv, ExtractSteps, DownloadSteps, Running, TempSteps,
         CachedInv, TempInv, ReturnedInv, LookupLegacy, Lookup, HasSha, Return
  <2>12. CASE CreateTemp(p)
      BY <2>12 DEF Inv, TypeOK, StepInv, ExtractSteps, DownloadSteps, Running, TempSteps,
         CachedInv, TempInv, ReturnedInv, CreateTemp, FreshName, Fail
  <2>13. CASE DownloadFile(p)
      BY <2>13 DEF Inv, TypeOK, StepInv, ExtractSteps, DownloadSteps, Running, TempSteps,
         CachedInv, TempInv, ReturnedInv, DownloadFile, Abandon, Discard, Remove, Fail
  <2>14. CASE Verify(p)
      BY <2>14 DEF Inv, TypeOK, StepInv, ExtractSteps, DownloadSteps, Running, TempSteps,
         CachedInv, TempInv, ReturnedInv, Verify, HasSha, Abandon, Discard, Remove, Fail
  <2>15. CASE Recheck(p)
      BY <2>15 DEF Inv, TypeOK, StepInv, ExtractSteps, DownloadSteps, Running, TempSteps,
         CachedInv, TempInv, ReturnedInv, Recheck, HasSha, Discard, Remove, Return
  <2>16. CASE Install(p)
      BY <2>16 DEF Inv, TypeOK, StepInv, ExtractSteps, DownloadSteps, Running, TempSteps,
         CachedInv, TempInv, ReturnedInv, Install, Rename, Return, Abandon, Discard, Remove, Fail
  <2>17. CASE Kill(p)
      BY <2>17 DEF Inv, TypeOK, StepInv, ExtractSteps, DownloadSteps, Running, TempSteps,
         CachedInv, TempInv, ReturnedInv, Kill, Active, Write, Fail
  <2> QED
      BY <2>1, <2>2, <2>3, <2>4, <2>5, <2>6, <2>7, <2>8, <2>9, <2>10, <2>11, <2>12, <2>13,
         <2>14, <2>15, <2>16, <2>17 DEF Extract, Download
<1> QED
    BY <1>u, <1>n

\* An extraction that ran alone stays sound.
LEMMA NextSolo == Inv /\ [Next]_vars => SoloInv'
<1> SUFFICES ASSUME Inv, [Next]_vars PROVE SoloInv'
    OBVIOUS
<1> USE NameFacts, ContentFacts DEF call, Goto
<1>u. CASE UNCHANGED vars
    BY <1>u DEF vars, Inv, SoloInv, Active
<1>n. CASE Next
  <2> PICK p \in Procs : Begin(p) \/ Extract(p) \/ Download(p) \/ Kill(p)
      BY <1>n DEF Next
  <2>1. CASE Begin(p)
      BY <2>1 DEF Inv, TypeOK, StepInv, ExtractSteps, DownloadSteps, Running, TempSteps,
         SoloInv, Active, Begin, Active
  <2>2. CASE Stat(p)
      BY <2>2 DEF Inv, TypeOK, StepInv, ExtractSteps, DownloadSteps, Running, TempSteps,
         SoloInv, Active, Stat, Return, Fail, SizeMatches, Size
  <2>3. CASE OpenTmp(p)
      BY <2>3 DEF Inv, TypeOK, StepInv, ExtractSteps, DownloadSteps, Running, TempSteps,
         SoloInv, Active, OpenTmp
  <2>4. CASE OpenFails(p)
      BY <2>4 DEF Inv, TypeOK, StepInv, ExtractSteps, DownloadSteps, Running, TempSteps,
         SoloInv, Active, OpenFails, Fail
  <2>5. CASE WriteTmp(p)
      BY <2>5 DEF Inv, TypeOK, StepInv, ExtractSteps, DownloadSteps, Running, TempSteps,
         SoloInv, Active, WriteTmp, Write, Fail
  <2>6. CASE RenameTmp(p)
      BY <2>6 DEF Inv, TypeOK, StepInv, ExtractSteps, DownloadSteps, Running, TempSteps,
         SoloInv, Active, RenameTmp, Rename, Return
  <2>7. CASE RenameFails(p)
      BY <2>7 DEF Inv, TypeOK, StepInv, ExtractSteps, DownloadSteps, Running, TempSteps,
         SoloInv, Active, RenameFails
  <2>8. CASE UnlinkTmp(p)
      BY <2>8 DEF Inv, TypeOK, StepInv, ExtractSteps, DownloadSteps, Running, TempSteps,
         SoloInv, Active, UnlinkTmp, Remove
  <2>9. CASE FetchExpectedSha(p)
      BY <2>9 DEF Inv, TypeOK, StepInv, ExtractSteps, DownloadSteps, Running, TempSteps,
         SoloInv, Active, FetchExpectedSha, Fail
  <2>10. CASE LookupCached(p)
      BY <2>10 DEF Inv, TypeOK, StepInv, ExtractSteps, DownloadSteps, Running, TempSteps,
         SoloInv, Active, LookupCached, Lookup, HasSha, Return
  <2>11. CASE LookupLegacy(p)
      BY <2>11 DEF Inv, TypeOK, StepInv, ExtractSteps, DownloadSteps, Running, TempSteps,
         SoloInv, Active, LookupLegacy, Lookup, HasSha, Return
  <2>12. CASE CreateTemp(p)
      BY <2>12 DEF Inv, TypeOK, StepInv, ExtractSteps, DownloadSteps, Running, TempSteps,
         SoloInv, Active, CreateTemp, FreshName, Fail
  <2>13. CASE DownloadFile(p)
      BY <2>13 DEF Inv, TypeOK, StepInv, ExtractSteps, DownloadSteps, Running, TempSteps,
         SoloInv, Active, DownloadFile, Abandon, Discard, Remove, Fail
  <2>14. CASE Verify(p)
      BY <2>14 DEF Inv, TypeOK, StepInv, ExtractSteps, DownloadSteps, Running, TempSteps,
         SoloInv, Active, Verify, HasSha, Abandon, Discard, Remove, Fail
  <2>15. CASE Recheck(p)
      BY <2>15 DEF Inv, TypeOK, StepInv, ExtractSteps, DownloadSteps, Running, TempSteps,
         SoloInv, Active, Recheck, HasSha, Discard, Remove, Return
  <2>16. CASE Install(p)
      BY <2>16 DEF Inv, TypeOK, StepInv, ExtractSteps, DownloadSteps, Running, TempSteps,
         SoloInv, Active, Install, Rename, Return, Abandon, Discard, Remove, Fail
  <2>17. CASE Kill(p)
      BY <2>17 DEF Inv, TypeOK, StepInv, ExtractSteps, DownloadSteps, Running, TempSteps,
         SoloInv, Active, Kill, Active, Write, Fail
  <2> QED
      BY <2>1, <2>2, <2>3, <2>4, <2>5, <2>6, <2>7, <2>8, <2>9, <2>10, <2>11, <2>12, <2>13,
         <2>14, <2>15, <2>16, <2>17 DEF Extract, Download
<1> QED
    BY <1>u, <1>n

\* What earlier runs left in the cache satisfies the invariant.
LEMMA InitInv == Init => Inv
<1> SUFFICES ASSUME Init PROVE Inv
    OBVIOUS
<1> USE NameFacts, ContentFacts
<1>0. PICK extracted \in {"absent", "empty", "part", "blob"}, tmp \in {"absent", "part"},
         legacy \in {"absent", "wrong"} \cup Releases,
         cached \in [Releases -> {"absent", "empty", "whole"}] :
        file = [n \in Names |->
            CASE build = "embed" /\ n = Extracted -> extracted
              [] build = "embed" /\ n = ExtractTmp -> tmp
              [] build = "plain" /\ n = Legacy -> legacy
              [] build = "plain" /\ \E r \in Releases : n = Cached(r) ->
                    IF cached[n[2]] = "whole" THEN n[2] ELSE cached[n[2]]
              [] OTHER -> "absent"]
    BY DEF Init
<1>1. \A r \in Releases : Cached(r)[2] = r
    BY DEF Cached
<1>2. \A r \in Releases : file[Cached(r)] \in {"absent", "empty", r}
    BY <1>0, <1>1 DEF Init
<1>3. file \in [Names -> Contents]
  <2> SUFFICES ASSUME NEW n \in Names PROVE file[n] \in Contents
      BY <1>0
  <2>1. CASE \E r \in Releases : n = Cached(r)
      BY <2>1, <1>2
  <2>2. CASE ~ \E r \in Releases : n = Cached(r)
    <3>1. file[n] \in {extracted, tmp, legacy, "absent"}
        BY <1>0, <2>2
    <3> QED
        BY <3>1
  <2> QED
      BY <2>1, <2>2
<1>4. \A t \in Temps : file[t] = "absent"
    BY <1>0
<1>5. TypeOK /\ StepInv
    BY <1>3 DEF Init, TypeOK, StepInv, Running, Ended, ExtractSteps, DownloadSteps
<1>6. CachedInv /\ TempInv /\ ReturnedInv
    BY <1>2, <1>4 DEF Init, CachedInv, TempInv, TempSteps, ReturnedInv
<1>7. build = "embed" => {file[Extracted], file[ExtractTmp]} \subseteq {"absent", "empty", "part", "blob"}
    BY <1>0
<1>8. SoloInv
    BY <1>7 DEF Init, SoloInv, Active, Running, ExtractSteps, DownloadSteps
<1> QED
    BY <1>5, <1>6, <1>8 DEF Inv

----------------------------------------------------------------------------
(***************************************************************************)
(* The theorems.                                                           *)
(***************************************************************************)
\* The invariant holds in every reachable state.
LEMMA Invariant == Spec => []Inv
<1>1. Inv /\ [Next]_vars => Inv'
    BY NextType, NextStep, NextCached, NextTemp, NextReturned, NextSolo DEF Inv
<1> QED
    BY <1>1, InitInv, PTL DEF Spec

\* The cache is well typed: a descriptor is open only during WriteFile, and a
\* temporary download is known only to the steps that use it.
THEOREM CacheTypeCorrect == Spec => []TypeOK
<1>1. Inv => TypeOK
    BY DEF Inv
<1> QED
    BY <1>1, Invariant, PTL

\* A path that downloadAsset returned holds the asset whose sum it fetched,
\* for ever after, whatever the other processes download, install or leave
\* behind when they are killed.
THEOREM DownloadsStayVerified == Spec => []DownloadedVerified
<1>1. Inv => DownloadedVerified
    BY DEF Inv, ReturnedInv, DownloadedVerified
<1> QED
    BY <1>1, Invariant, PTL

\* A temporary download that exists belongs to exactly one running call of
\* downloadAsset, was left by a killed process or could not be removed.
THEOREM TempsOwned == Spec => []NoTempLeft
<1>1. Inv => NoTempLeft
  <2> SUFFICES ASSUME Inv, NEW t \in Temps, file[t] # "absent", t \notin orphans
               PROVE  Cardinality({p \in Procs : Active(p) /\ path[p] = t}) = 1
      BY DEF NoTempLeft
  <2>1. PICK p \in Procs : pc[p] \in TempSteps /\ path[p] = t
      BY DEF Inv, TempInv
  <2>2. \A q \in Procs : path[q] = t => pc[q] \in TempSteps
      BY DEF Inv, TypeOK, TempSteps
  <2>3. {q \in Procs : Active(q) /\ path[q] = t} = {p}
      BY <2>1, <2>2 DEF Inv, TempInv, TempSteps, Active, Running, DownloadSteps
  <2> QED
      BY <2>3, FS_Singleton
<1> QED
    BY <1>1, Invariant, PTL

\* extractEmbeddedAsset returns the whole asset when no other call runs, and
\* never fails for a temporary file that is gone, whatever crashed or
\* concurrent calls left behind; later calls keep the file whole.
THEOREM SoloExtraction == Spec => []SoloExtractionSound
<1>1. Inv => SoloExtractionSound
    BY DEF Inv, SoloInv, SoloExtractionSound
<1> QED
    BY <1>1, Invariant, PTL
=============================================================================
