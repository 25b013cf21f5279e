---------------------------- MODULE InstallProofs ----------------------------
(***************************************************************************)
(* Theorems about the installation of VMs, the login at the store, the MCP *)
(* servers, the settings of a VM and the installation of applications, for *)
(* any numbers of installs, tasks, clients, editors and applications.      *)
(***************************************************************************)
EXTENDS VmInstall, StoreLogin, McpProxy, AppInstall, FiniteSetTheorems, WellFoundedInduction, TLAPS

-----------------------------------------------------------------------------
(* VmInstall                                                               *)

Pcs == {"new", "url", "cache", "copy", "download", "verify", "save", "extract", "boot",
        "insert", "register", "done", "failed", "copy_off", "verify_off"}
Known == Versions \cup {None}
InstallRecords ==
  [pc : Pcs, manifest : Known, name : 0 .. Cardinality(Installs), seen : SUBSET Installs,
   expected : Known, archive : File, saving : BOOLEAN, saved : 0 .. 8, hash : Known,
   disk : Content \cup {None}]
CacheEntries == [zip : File, manifest : Known, full : Known, app : BOOLEAN, sha : Known, there : BOOLEAN]
RowRecords == [name : 0 .. Cardinality(Installs), disk : Content \cup {None},
               hash : Known, there : BOOLEAN]
InstallTypes ==
  /\ published \in Versions /\ hashed \in BOOLEAN /\ cacheable \in BOOLEAN
  /\ cache \in [Keys -> CacheEntries]
  /\ ins \in [Installs -> InstallRecords]
  /\ rows \in [Installs -> RowRecords]
  /\ overwritten \subseteq Keys

(* What an install holds at each of its steps.                             *)
Sound(r) ==
  /\ r.pc \in {"new", "url", "cache", "copy", "download", "verify"} => r.saved = 0
  /\ r.pc \in {"new", "url", "cache", "copy"} => ~r.saving
  /\ r.pc \notin {"new", "failed"} => r.manifest \in Versions
  /\ r.pc \in {"verify", "save", "extract", "verify_off"} => r.archive # None
  /\ r.pc \in {"verify", "save"} /\ r.saving => r.archive \in Content
  /\ r.pc = "save" => r.saving /\ r.saved < 8
  /\ r.pc \in {"save", "extract"} /\ r.hash # None => r.archive = r.hash
  /\ r.pc \in {"boot", "insert"} => r.disk \in Content /\ (r.hash # None => r.disk = r.hash)

(* A row of the table is that of an install past its insert, with a whole  *)
(* and verified disk; a name was free among the rows it was chosen against.*)
Placed(i) ==
  rows[i].there => /\ rows[i].disk \in Content
                   /\ rows[i].hash # None => rows[i].disk = rows[i].hash
                   /\ rows[i].name = ins[i].name
                   /\ ins[i].pc # "new"
Chosen(i) == \A j \in ins[i].seen : rows[j].there /\ rows[j].name # ins[i].name

(* What the entry holds after each write of the one install that saves it. *)
Stage(r, d) ==
  /\ r.saved = 1 => d.zip = None
  /\ r.saved <= 2 => d.manifest = None /\ d.full = None
  /\ r.saved >= 3 => d.zip = r.archive
  /\ r.saved <= 6 => d.sha = None
Copies(i, k) == ins[i].pc = "copy" /\ CacheKeyFor(ins[i].manifest) = k

(* An entry no two installs wrote at once.                                 *)
Lone(k) ==
  /\ \A i, j \in Savers(k) : i = j
  /\ cache[k].zip = Partial => cache[k].manifest = None /\ cache[k].full = None /\ cache[k].sha = None
  /\ cache[k].sha # None => cache[k].zip = cache[k].sha
  /\ \A i \in Savers(k) : cache[k].there => Stage(ins[i], cache[k])
  /\ cache[k].zip = Partial /\ Savers(k) = {} => \A i \in Installs : ~Copies(i, k)
Entry(k) == (~cache[k].there => cache[k] = NoDir) /\ (k \notin overwritten => Lone(k))

Holds == \A i \in Installs : Sound(ins[i])
Places == \A i \in Installs : Placed(i) /\ Chosen(i)
Whole == \A k \in Keys : Entry(k)

InstallInv == InstallTypes /\ Holds /\ Places /\ Whole

(* A set of naturals that is not empty has a least element.                *)
LEMMA LeastNumber ==
  ASSUME NEW T, T \subseteq Nat, T # {}
  PROVE  \E n \in T : \A m \in T : n <= m
<1> DEFINE R == OpToRel(<, Nat)
<1>1. IsWellFoundedOn(R, Nat)
  BY NatLessThanWellFounded
<1>2. PICK n \in T : \A m \in T : ~(<<m, n>> \in R)
  <2> HIDE DEF R
  <2> QED BY <1>1, WFMin
<1>3. ASSUME NEW m \in T PROVE n <= m
  <2>1. ~(<<m, n>> \in {ss \in Nat \X Nat : ss[1] < ss[2]})
    BY <1>2 DEF OpToRel
  <2> QED
    BY <2>1
<1> QED
  BY <1>3

(* unique_vm_name finds a name no row has.                                 *)
LEMMA NameIsFree ==
  /\ UniqueName \in 0 .. Cardinality(Installs)
  /\ \A j \in Registered : rows[j].name # UniqueName
<1> DEFINE C == Cardinality(Installs)
           free == {n \in 0 .. C : \A j \in Registered : rows[j].name # n}
<1>1. C \in Nat /\ IsFiniteSet(Installs)
  BY InstallsAssumption, FS_CardinalityType
<1>2. free # {}
  <2> SUFFICES ASSUME free = {}
               PROVE  FALSE
    OBVIOUS
  <2> DEFINE f == [n \in 0 .. C |-> CHOOSE j \in Installs : rows[j].name = n]
  <2>1. \A n \in 0 .. C : \E j \in Installs : rows[j].name = n
    BY DEF Registered
  <2>2. \A n \in 0 .. C : f[n] \in Installs /\ rows[f[n]].name = n
    BY <2>1
  <2>3. f \in [0 .. C -> Installs]
    BY <2>2
  <2>4. IsFiniteSet(0 .. C) /\ Cardinality(0 .. C) = C + 1
    BY <1>1, FS_Interval
  <2> HIDE DEF f
  <2>5. \E x, y \in 0 .. C : x # y /\ f[x] = f[y]
    BY <2>3, <2>4, <1>1, FS_PigeonHole
  <2> QED
    BY <2>5, <2>2
<1>3. PICK n \in free : \A m \in free : n <= m
  <2>1. free \subseteq Nat
    BY <1>1
  <2> HIDE DEF free
  <2> QED BY <1>2, <2>1, LeastNumber
<1>4. n \in 0 .. C /\ (\A j \in Registered : rows[j].name # n)
  BY <1>3
<1>5. \A m \in 0 .. n - 1 : \E j \in Registered : rows[j].name = m
  BY <1>1, <1>3, <1>4
<1> QED
  BY <1>4, <1>5 DEF UniqueName

(* Before the first install.                                               *)
LEMMA InstallInvInit == InstallInit => InstallInv
<1> SUFFICES ASSUME InstallInit
             PROVE  InstallInv
  OBVIOUS
<1> USE VersionAssumption, MarksAssumption
<1>1. NewInstall \in InstallRecords /\ NoRow \in RowRecords /\ NoDir \in CacheEntries
  BY InstallsAssumption, FS_CardinalityType
     DEF NewInstall, InstallRecords, Pcs, Known, File, Content, NoRow, RowRecords, NoDir, CacheEntries, Versions
<1>2. InstallTypes
  BY <1>1 DEF InstallInit, InstallTypes, Versions
<1>3. Holds
  BY DEF InstallInit, Holds, Sound, NewInstall
<1>4. Places
  BY DEF InstallInit, Places, Placed, Chosen, NoRow, NewInstall
<1>5. Whole
  BY DEF InstallInit, Whole, Entry, Lone, Savers, NoDir, NewInstall
<1> QED
  BY <1>2, <1>3, <1>4, <1>5 DEF InstallInv

(* The step an install makes: what it holds is sound, and it has its name  *)
(* already, keeps waiting for it, or takes one no row has.                 *)
Moves(i, r) ==
  /\ ins' = [ins EXCEPT ![i] = r] /\ r \in InstallRecords
  /\ Sound(r)
  /\ \/ r.name = ins[i].name /\ r.seen = ins[i].seen /\ (r.pc = "new" => ins[i].pc = "new")
     \/ ins[i].pc = "new" /\ r.name = UniqueName /\ r.seen = Registered /\ r.pc # "new"


(* It leaves the cache alone and neither saves nor copies.                 *)
Lies(i, r) ==
  /\ UNCHANGED <<cache, overwritten, hashed>>
  /\ ins[i].pc # "save" /\ (r.pc = "save" => r.saved = 0) /\ r.pc # "copy"

(* A failing install keeps what it holds.                                  *)
LEMMA Failed ==
  ASSUME InstallTypes, NEW i \in Installs, ins[i].pc # "save",
         Fail(i), UNCHANGED <<cache, overwritten, hashed>>
  PROVE  \E r : Moves(i, r) /\ Lies(i, r)
<1> DEFINE r == [ins[i] EXCEPT !.pc = "failed"]
<1>1. ins[i] \in InstallRecords
  BY DEF InstallTypes
<1>2. /\ r \in InstallRecords /\ r.pc = "failed" /\ r.name = ins[i].name /\ r.seen = ins[i].seen
  BY <1>1 DEF InstallRecords, Pcs
<1>3. ins' = [ins EXCEPT ![i] = r]
  BY DEF Fail, Step
<1> HIDE DEF r
<1>4. Sound(r)
  BY <1>2 DEF Sound
<1>5. Moves(i, r) /\ Lies(i, r)
  BY <1>2, <1>3, <1>4 DEF Moves, Lies
<1> QED
  BY <1>5

(* One takes its name.                                                     *)
LEMMA Naming ==
  ASSUME InstallTypes, NEW i \in Installs, Sound(ins[i]), ins[i].pc = "new",
         NEW v \in Versions, NEW pc \in {"url", "copy_off"},
         Named(i, v, pc), UNCHANGED <<cache, overwritten, hashed>>
  PROVE  \E r : Moves(i, r) /\ Lies(i, r)
<1> DEFINE r == [ins[i] EXCEPT !.pc = pc, !.manifest = v, !.name = UniqueName, !.seen = Registered]
<1>1. ins[i] \in InstallRecords
  BY DEF InstallTypes
<1>2. UniqueName \in 0 .. Cardinality(Installs) /\ Registered \subseteq Installs
  BY NameIsFree DEF Registered
<1>3. /\ r \in InstallRecords /\ r.pc = pc /\ r.manifest = v /\ r.name = UniqueName
      /\ r.seen = Registered /\ r.saved = ins[i].saved /\ r.saving = ins[i].saving
  BY <1>1, <1>2 DEF InstallRecords, Pcs, Known
<1>4. ins' = [ins EXCEPT ![i] = r]
  BY DEF Named, Step
<1> HIDE DEF r
<1>5. Sound(r)
  BY <1>3 DEF Sound
<1>6. Moves(i, r) /\ Lies(i, r)
  BY <1>3, <1>4, <1>5 DEF Moves, Lies
<1> QED
  BY <1>6

(* The key of an install that has its manifest.                            *)
LEMMA KeyOf ==
  ASSUME InstallTypes, NEW i \in Installs, Sound(ins[i]), ins[i].pc \notin {"new", "failed"}
  PROVE  CacheKeyFor(ins[i].manifest) \in Keys
BY VersionAssumption DEF Sound, CacheKeyFor, Keys, Versions, InstallTypes

(* A manifest is fetched.                                                  *)
LEMMA FetchMoves ==
  ASSUME InstallTypes, Holds, NEW i \in Installs, FetchManifest(i)
  PROVE  \E r : Moves(i, r) /\ Lies(i, r)
<1>0. ins[i] \in InstallRecords /\ Sound(ins[i])
  BY DEF InstallTypes, Holds
<1>1. ins[i].pc = "new" /\ published \in Versions /\ UNCHANGED <<cache, overwritten, hashed>>
  BY DEF FetchManifest, KeepCache, KeepRest, InstallTypes
<1>2. CASE Fail(i)
  BY <1>1, <1>2, Failed
<1>3. CASE Named(i, published, "url")
  BY <1>0, <1>1, <1>3, Naming
<1> QED
  BY <1>2, <1>3 DEF FetchManifest

(* A URL and a hash are asked for.                                         *)
LEMMA UrlMoves ==
  ASSUME InstallTypes, Holds, NEW i \in Installs, RequestUrl(i)
  PROVE  \E r : Moves(i, r) /\ Lies(i, r)
<1>0. ins[i] \in InstallRecords /\ Sound(ins[i])
  BY DEF InstallTypes, Holds
<1>1. PICK e \in {published, None, ManifestSha(ins[i].manifest)} :
        Step(i, [ins[i] EXCEPT !.expected = e, !.pc = IF cacheable THEN "cache" ELSE "download"])
  BY DEF RequestUrl
<1>2. ins[i].pc = "url" /\ e \in Known /\ UNCHANGED <<cache, overwritten, hashed>>
  BY <1>0 DEF RequestUrl, KeepCache, KeepRest, InstallTypes, ManifestSha, Known, InstallRecords
<1> DEFINE pc == IF cacheable THEN "cache" ELSE "download"
           r == [ins[i] EXCEPT !.expected = e, !.pc = pc]
<1>3. /\ r \in InstallRecords /\ r.pc \in {"cache", "download"} /\ r.saving = ins[i].saving
      /\ r.name = ins[i].name /\ r.seen = ins[i].seen /\ r.saved = ins[i].saved /\ r.manifest = ins[i].manifest
  BY <1>0, <1>2 DEF InstallRecords, Pcs
<1>4. ins' = [ins EXCEPT ![i] = r]
  BY <1>1 DEF Step
<1> HIDE DEF r
<1>5. Sound(r)
  BY <1>0, <1>2, <1>3 DEF Sound
<1>6. Moves(i, r) /\ Lies(i, r)
  BY <1>2, <1>3, <1>4, <1>5 DEF Moves, Lies
<1> QED
  BY <1>6

(* An archive is downloaded.                                               *)
LEMMA DownloadMoves ==
  ASSUME InstallTypes, Holds, NEW i \in Installs, Download(i)
  PROVE  \E r : Moves(i, r) /\ Lies(i, r)
<1>0. ins[i] \in InstallRecords /\ Sound(ins[i])
  BY DEF InstallTypes, Holds
<1>1. ins[i].pc = "download" /\ UNCHANGED <<cache, overwritten, hashed>>
  BY DEF Download, KeepCache, KeepRest
<1>2. CASE Fail(i)
  BY <1>1, <1>2, Failed
<1>3. ASSUME NEW c \in {ins[i].manifest, published, Altered},
             Step(i, [ins[i] EXCEPT !.archive = c, !.saving = cacheable, !.pc = "verify"])
      PROVE  \E r : Moves(i, r) /\ Lies(i, r)
  <2>1. c \in Content /\ c # None
    BY <1>0, <1>1, VersionAssumption, MarksAssumption DEF InstallTypes, Sound, Content, Versions
  <2> DEFINE r == [ins[i] EXCEPT !.archive = c, !.saving = cacheable, !.pc = "verify"]
  <2>2. /\ r \in InstallRecords /\ r.pc = "verify" /\ r.archive = c
        /\ r.name = ins[i].name /\ r.seen = ins[i].seen /\ r.saved = ins[i].saved /\ r.manifest = ins[i].manifest
    BY <1>0, <2>1 DEF InstallRecords, Pcs, File, InstallTypes
  <2>3. ins' = [ins EXCEPT ![i] = r]
    BY <1>3 DEF Step
  <2> HIDE DEF r
  <2>4. Sound(r)
    BY <1>0, <1>1, <2>1, <2>2 DEF Sound
  <2>5. r.saved = 0
    BY <1>0, <1>1, <2>2 DEF Sound
  <2>6. Moves(i, r) /\ Lies(i, r)
    BY <1>1, <2>2, <2>3, <2>4, <2>5 DEF Moves, Lies
  <2> QED
    BY <2>6
<1> QED
  BY <1>2, <1>3 DEF Download

(* A fetched archive is verified.                                          *)
LEMMA VerifyMoves ==
  ASSUME InstallTypes, Holds, NEW i \in Installs, VerifyArchive(i)
  PROVE  \E r : Moves(i, r) /\ Lies(i, r)
<1>0. ins[i] \in InstallRecords /\ Sound(ins[i])
  BY DEF InstallTypes, Holds
<1>1. ins[i].pc = "verify" /\ UNCHANGED <<cache, overwritten, hashed>>
  BY DEF VerifyArchive, KeepCache, KeepRest
<1>2. CASE Fail(i)
  BY <1>1, <1>2, Failed
<1>3. ASSUME NEW h \in Known, h = None \/ Verifies(i, h),
             Step(i, [ins[i] EXCEPT !.hash = h, !.pc = IF ins[i].saving THEN "save" ELSE "extract"])
      PROVE  \E r : Moves(i, r) /\ Lies(i, r)
  <2> DEFINE pc == IF ins[i].saving THEN "save" ELSE "extract"
             r == [ins[i] EXCEPT !.hash = h, !.pc = pc]
  <2>2. /\ r \in InstallRecords /\ r.pc = pc /\ pc \in {"save", "extract"} /\ r.hash = h
        /\ r.name = ins[i].name /\ r.seen = ins[i].seen /\ r.saved = ins[i].saved /\ r.manifest = ins[i].manifest
        /\ r.archive = ins[i].archive /\ r.saving = ins[i].saving
    BY <1>0, <1>3 DEF InstallRecords, Pcs
  <2>3. ins' = [ins EXCEPT ![i] = r]
    BY <1>3 DEF Step
  <2>4. r.pc = "save" => r.saving
    BY <2>2
  <2> HIDE DEF r, pc
  <2>5. Sound(r)
    BY <1>0, <1>1, <1>3, <2>2, <2>4 DEF Sound, Verifies
  <2>6. r.pc = "save" => r.saved = 0
    BY <1>0, <1>1, <2>2 DEF Sound
  <2>7. Moves(i, r) /\ Lies(i, r)
    BY <1>1, <2>2, <2>3, <2>5, <2>6 DEF Moves, Lies
  <2> QED
    BY <2>7
<1> DEFINE h == IF ins[i].expected # None THEN ins[i].expected ELSE ManifestSha(ins[i].manifest)
<1>4. h \in Known
  BY <1>0 DEF InstallTypes, InstallRecords, ManifestSha, Known, CacheEntries
<1> QED
  BY <1>2, <1>3, <1>4 DEF VerifyArchive

(* A copied archive is verified.                                           *)
LEMMA VerifyOfflineMoves ==
  ASSUME InstallTypes, Holds, NEW i \in Installs, VerifyOffline(i)
  PROVE  \E r : Moves(i, r) /\ Lies(i, r)
<1>0. ins[i] \in InstallRecords /\ Sound(ins[i])
  BY DEF InstallTypes, Holds
<1>1. ins[i].pc = "verify_off" /\ UNCHANGED <<cache, overwritten, hashed>>
  BY DEF VerifyOffline, KeepCache, KeepRest
<1>2. CASE Fail(i)
  BY <1>1, <1>2, Failed
<1>3. ASSUME NEW h \in Known, h = None \/ Verifies(i, h),
             Step(i, [ins[i] EXCEPT !.hash = h, !.pc = "extract"])
      PROVE  \E r : Moves(i, r) /\ Lies(i, r)
  <2> DEFINE pc == "extract"
             r == [ins[i] EXCEPT !.hash = h, !.pc = pc]
  <2>2. /\ r \in InstallRecords /\ r.pc = pc /\ pc \in {"extract"} /\ r.hash = h
        /\ r.name = ins[i].name /\ r.seen = ins[i].seen /\ r.saved = ins[i].saved /\ r.manifest = ins[i].manifest
        /\ r.archive = ins[i].archive /\ r.saving = ins[i].saving
    BY <1>0, <1>3 DEF InstallRecords, Pcs
  <2>3. ins' = [ins EXCEPT ![i] = r]
    BY <1>3 DEF Step
  <2>4. r.pc = "save" => r.saving
    BY <2>2
  <2> HIDE DEF r, pc
  <2>5. Sound(r)
    BY <1>0, <1>1, <1>3, <2>2, <2>4 DEF Sound, Verifies
  <2>6. r.pc = "save" => r.saved = 0
    BY <1>0, <1>1, <2>2 DEF Sound
  <2>7. Moves(i, r) /\ Lies(i, r)
    BY <1>1, <2>2, <2>3, <2>5, <2>6 DEF Moves, Lies
  <2> QED
    BY <2>7
<1> DEFINE h == IF cache[CacheKeyFor(ins[i].manifest)].sha # None
              THEN cache[CacheKeyFor(ins[i].manifest)].sha ELSE ManifestSha(ins[i].manifest)
<1>5. cache[CacheKeyFor(ins[i].manifest)] \in CacheEntries
  BY <1>0, <1>1, KeyOf DEF InstallTypes
<1>4. h \in Known
  BY <1>0, <1>5 DEF InstallTypes, InstallRecords, ManifestSha, Known, CacheEntries
<1> QED
  BY <1>2, <1>3, <1>4 DEF VerifyOffline

(* A cached manifest is read.                                              *)
LEMMA FindMoves ==
  ASSUME InstallTypes, Holds, NEW i \in Installs, FindCached(i)
  PROVE  \E r : Moves(i, r) /\ Lies(i, r)
<1>0. ins[i] \in InstallRecords /\ Sound(ins[i])
  BY DEF InstallTypes, Holds
<1>1. ins[i].pc = "new" /\ UNCHANGED <<cache, overwritten, hashed>>
  BY DEF FindCached, KeepCache, KeepRest
<1>2. CASE Fail(i)
  BY <1>1, <1>2, Failed
<1>3. ASSUME NEW k \in Keys, Listed(cache[k]), Named(i, cache[k].full, "copy_off")
      PROVE  \E r : Moves(i, r) /\ Lies(i, r)
  <2>1. cache[k].full \in Versions
    BY <1>3 DEF InstallTypes, CacheEntries, Known, Listed
  <2> QED
    BY <1>0, <1>1, <1>3, <2>1, Naming
<1> QED
  BY <1>2, <1>3 DEF FindCached

(* The archive found there is copied.                                      *)
LEMMA CopyOfflineMoves ==
  ASSUME InstallTypes, Holds, NEW i \in Installs, CopyOffline(i)
  PROVE  \E r : Moves(i, r) /\ Lies(i, r)
<1>0. ins[i] \in InstallRecords /\ Sound(ins[i])
  BY DEF InstallTypes, Holds
<1>1. ins[i].pc = "copy_off" /\ UNCHANGED <<cache, overwritten, hashed>>
  BY DEF CopyOffline, KeepCache, KeepRest
<1> DEFINE zip == cache[CacheKeyFor(ins[i].manifest)].zip
<1>2. CASE Fail(i)
  BY <1>1, <1>2, Failed
<1>3. ASSUME zip # None, Step(i, [ins[i] EXCEPT !.archive = zip, !.pc = "verify_off"])
      PROVE  \E r : Moves(i, r) /\ Lies(i, r)
  <2>1. zip \in File
    BY <1>0, <1>1, KeyOf DEF InstallTypes, CacheEntries
  <2> DEFINE r == [ins[i] EXCEPT !.archive = zip, !.pc = "verify_off"]
  <2>2. /\ r \in InstallRecords /\ r.pc = "verify_off" /\ r.archive = zip
        /\ r.name = ins[i].name /\ r.seen = ins[i].seen /\ r.manifest = ins[i].manifest
    BY <1>0, <2>1 DEF InstallRecords, Pcs
  <2>3. ins' = [ins EXCEPT ![i] = r]
    BY <1>3 DEF Step
  <2> HIDE DEF r
  <2>4. Sound(r)
    BY <1>0, <1>1, <1>3, <2>2 DEF Sound
  <2>5. Moves(i, r) /\ Lies(i, r)
    BY <1>1, <2>2, <2>3, <2>4 DEF Moves, Lies
  <2> QED
    BY <2>5
<1> QED
  BY <1>2, <1>3 DEF CopyOffline

(* The disk is unpacked.                                                   *)
LEMMA ExtractMoves ==
  ASSUME InstallTypes, Holds, NEW i \in Installs, Extract(i)
  PROVE  \E r : Moves(i, r) /\ Lies(i, r)
<1>0. ins[i] \in InstallRecords /\ Sound(ins[i])
  BY DEF InstallTypes, Holds
<1>1. ins[i].pc = "extract" /\ UNCHANGED <<cache, overwritten, hashed>>
  BY DEF Extract, KeepCache, KeepRest
<1>2. CASE Fail(i)
  BY <1>1, <1>2, Failed
<1>3. ASSUME Opens(ins[i].archive), Step(i, [ins[i] EXCEPT !.disk = ins[i].archive, !.pc = "boot"])
      PROVE  \E r : Moves(i, r) /\ Lies(i, r)
  <2>1. ins[i].archive \in Content
    BY <1>0, <1>1, <1>3 DEF Sound, InstallRecords, File, Opens
  <2> DEFINE r == [ins[i] EXCEPT !.disk = ins[i].archive, !.pc = "boot"]
  <2>2. /\ r \in InstallRecords /\ r.pc = "boot" /\ r.disk = ins[i].archive /\ r.hash = ins[i].hash
        /\ r.name = ins[i].name /\ r.seen = ins[i].seen /\ r.manifest = ins[i].manifest
    BY <1>0, <2>1 DEF InstallRecords, Pcs
  <2>3. ins' = [ins EXCEPT ![i] = r]
    BY <1>3 DEF Step
  <2> HIDE DEF r
  <2>4. Sound(r)
    BY <1>0, <1>1, <2>1, <2>2 DEF Sound
  <2>5. Moves(i, r) /\ Lies(i, r)
    BY <1>1, <2>2, <2>3, <2>4 DEF Moves, Lies
  <2> QED
    BY <2>5
<1> QED
  BY <1>2, <1>3 DEF Extract

(* The kernel and the initrd are found and the archive is removed.         *)
LEMMA BootMoves ==
  ASSUME InstallTypes, Holds, NEW i \in Installs, ResolveBoot(i)
  PROVE  \E r : Moves(i, r) /\ Lies(i, r)
<1>0. ins[i] \in InstallRecords /\ Sound(ins[i])
  BY DEF InstallTypes, Holds
<1>1. ins[i].pc = "boot" /\ UNCHANGED <<cache, overwritten, hashed>>
  BY DEF ResolveBoot, KeepCache, KeepRest
<1>2. CASE Fail(i)
  BY <1>1, <1>2, Failed
<1>3. CASE Step(i, [ins[i] EXCEPT !.archive = None, !.pc = "insert"])
  <2> DEFINE r == [ins[i] EXCEPT !.archive = None, !.pc = "insert"]
  <2>2. /\ r \in InstallRecords /\ r.pc = "insert" /\ r.disk = ins[i].disk /\ r.hash = ins[i].hash
        /\ r.name = ins[i].name /\ r.seen = ins[i].seen /\ r.manifest = ins[i].manifest
    BY <1>0 DEF InstallRecords, Pcs, File
  <2>3. ins' = [ins EXCEPT ![i] = r]
    BY <1>3 DEF Step
  <2> HIDE DEF r
  <2>4. Sound(r)
    BY <1>0, <1>1, <2>2 DEF Sound
  <2>5. Moves(i, r) /\ Lies(i, r)
    BY <1>1, <2>2, <2>3, <2>4 DEF Moves, Lies
  <2> QED
    BY <2>5
<1> QED
  BY <1>2, <1>3 DEF ResolveBoot

(* An install with its disk goes on or ends.                               *)
LEMMA EndMoves ==
  ASSUME InstallTypes, Holds, NEW i \in Installs, NEW pc \in {"register", "done", "failed"},
         ins[i].pc \in {"insert", "register"}, Step(i, [ins[i] EXCEPT !.pc = pc]),
         UNCHANGED <<cache, overwritten, hashed>>
  PROVE  \E r : Moves(i, r) /\ Lies(i, r)
<1>0. ins[i] \in InstallRecords /\ Sound(ins[i])
  BY DEF InstallTypes, Holds
<1> DEFINE r == [ins[i] EXCEPT !.pc = pc]
<1>2. /\ r \in InstallRecords /\ r.pc = pc
      /\ r.name = ins[i].name /\ r.seen = ins[i].seen /\ r.manifest = ins[i].manifest
  BY <1>0 DEF InstallRecords, Pcs
<1>3. ins' = [ins EXCEPT ![i] = r]
  BY DEF Step
<1> HIDE DEF r
<1>4. Sound(r)
  BY <1>0, <1>2 DEF Sound
<1>5. Moves(i, r) /\ Lies(i, r)
  BY <1>2, <1>3, <1>4 DEF Moves, Lies
<1> QED
  BY <1>5

(* The steps of an install that leave the cache alone.                     *)
Aside(i) ==
  \/ FetchManifest(i) \/ RequestUrl(i) \/ Download(i) \/ VerifyArchive(i)
  \/ FindCached(i) \/ CopyOffline(i) \/ VerifyOffline(i)
  \/ Extract(i) \/ ResolveBoot(i) \/ InsertVm(i) \/ Register(i) \/ RegisterCached(i)

Adds(i) ==
  ins[i].pc = "insert" /\ rows' = [rows EXCEPT ![i] =
    [name |-> ins[i].name, disk |-> ins[i].disk, hash |-> ins[i].hash, there |-> TRUE]]

(* What they do to the table: nothing, or the row of the one taking it.    *)
LEMMA AsideMoves ==
  ASSUME InstallTypes, Holds, NEW i \in Installs, Aside(i)
  PROVE  /\ \E r : Moves(i, r) /\ Lies(i, r)
         /\ UNCHANGED rows \/ Adds(i)
<1>1. CASE FetchManifest(i)
  BY <1>1, FetchMoves DEF FetchManifest
<1>2. CASE RequestUrl(i)
  BY <1>2, UrlMoves DEF RequestUrl
<1>3. CASE Download(i)
  BY <1>3, DownloadMoves DEF Download
<1>4. CASE VerifyArchive(i)
  BY <1>4, VerifyMoves DEF VerifyArchive
<1>5. CASE FindCached(i)
  BY <1>5, FindMoves DEF FindCached
<1>6. CASE CopyOffline(i)
  BY <1>6, CopyOfflineMoves DEF CopyOffline
<1>7. CASE VerifyOffline(i)
  BY <1>7, VerifyOfflineMoves DEF VerifyOffline
<1>8. CASE Extract(i)
  BY <1>8, ExtractMoves DEF Extract
<1>9. CASE ResolveBoot(i)
  BY <1>9, BootMoves DEF ResolveBoot
<1>10. CASE InsertVm(i)
  <2>1. ins[i].pc = "insert" /\ Adds(i) /\ UNCHANGED <<cache, overwritten, hashed>>
    BY <1>10 DEF InsertVm, Adds, KeepCache, KeepRest
  <2>2. \E pc \in {"register", "done", "failed"} : Step(i, [ins[i] EXCEPT !.pc = pc])
    BY <1>10 DEF InsertVm, Fail
  <2> QED
    BY <2>1, <2>2, EndMoves
<1>11. CASE Register(i) \/ RegisterCached(i)
  <2>1. ins[i].pc = "register" /\ UNCHANGED rows /\ UNCHANGED <<cache, overwritten, hashed>>
    BY <1>11 DEF Register, RegisterCached, KeepCache, KeepRest
  <2>2. \E pc \in {"register", "done", "failed"} : Step(i, [ins[i] EXCEPT !.pc = pc])
    BY <1>11 DEF Register, RegisterCached
  <2> QED
    BY <2>1, <2>2, EndMoves
<1> QED
  BY <1>1, <1>2, <1>3, <1>4, <1>5, <1>6, <1>7, <1>8, <1>9, <1>10, <1>11 DEF Aside

(* What a step of an install leaves of the installs.                       *)
LEMMA MovesHold ==
  ASSUME InstallTypes, Holds, NEW i \in Installs, NEW r, Moves(i, r)
  PROVE  ins' \in [Installs -> InstallRecords] /\ Holds'
BY DEF InstallTypes, Holds, Moves

(* And of the table.                                                       *)
LEMMA MovesPlace ==
  ASSUME InstallTypes, Holds, Places, NEW i \in Installs, NEW r, Moves(i, r),
         UNCHANGED rows \/ Adds(i)
  PROVE  rows' \in [Installs -> RowRecords] /\ Places'
<1>1. ins[i] \in InstallRecords /\ Sound(ins[i]) /\ Placed(i) /\ Chosen(i)
  BY DEF InstallTypes, Holds, Places
<1>2. \A j \in Installs : j # i => ins'[j] = ins[j] /\ rows'[j] = rows[j]
  BY DEF InstallTypes, Moves, Adds
<1>3. ins'[i] = r
  BY DEF InstallTypes, Moves
<1>4. rows' \in [Installs -> RowRecords]
  <2>1. rows \in [Installs -> RowRecords]
    BY DEF InstallTypes
  <2> DEFINE entry == [name |-> ins[i].name, disk |-> ins[i].disk, hash |-> ins[i].hash, there |-> TRUE]
  <2>2. entry \in RowRecords
    BY <1>1 DEF RowRecords, InstallRecords
  <2> HIDE DEF entry
  <2>3. Adds(i) => rows' = [rows EXCEPT ![i] = entry]
    BY DEF Adds, entry
  <2> QED
    BY <2>1, <2>2, <2>3
<1>5. ins[i].pc = "insert" => r.name = ins[i].name /\ r.seen = ins[i].seen /\ r.pc # "new"
  BY DEF Moves
<1>6. rows'[i].there => /\ rows'[i].disk \in Content
                        /\ rows'[i].hash # None => rows'[i].disk = rows'[i].hash
                        /\ rows'[i].name = ins[i].name
                        /\ ins[i].pc # "new"
  <2>1. CASE UNCHANGED rows
    BY <1>1, <2>1 DEF Placed
  <2>2. CASE Adds(i)
    <3>1. /\ ins[i].pc = "insert" /\ rows'[i].name = ins[i].name
          /\ rows'[i].disk = ins[i].disk /\ rows'[i].hash = ins[i].hash
      BY <2>2 DEF Adds, InstallTypes
    <3> QED
      BY <1>1, <3>1 DEF Sound
  <2> QED
    BY <2>1, <2>2
<1>7. Placed(i)'
  <2>1. ins[i].pc # "new" => r.name = ins[i].name /\ r.pc # "new"
    BY DEF Moves
  <2> QED
    BY <1>3, <1>6, <2>1 DEF Placed
<1>8. \A j \in Installs : rows[j].there => rows'[j].there /\ rows'[j].name = rows[j].name
  <2>1. rows[i].there => rows'[i].there /\ rows'[i].name = rows[i].name
    <3>1. CASE UNCHANGED rows
      BY <3>1
    <3>2. CASE Adds(i)
      <4>1. rows'[i].there /\ rows'[i].name = ins[i].name
        BY <3>2 DEF Adds, InstallTypes
      <4> QED
        BY <1>1, <4>1 DEF Placed
    <3> QED
      BY <3>1, <3>2
  <2> QED
    BY <1>2, <2>1
<1>9. Chosen(i)'
  <2>1. CASE r.seen = ins[i].seen /\ r.name = ins[i].name
    BY <1>1, <1>3, <1>8, <2>1 DEF Chosen, InstallRecords
  <2>2. CASE r.name = UniqueName /\ r.seen = Registered
    <3>1. \A j \in Registered : rows[j].there /\ rows[j].name # r.name
      BY <2>2, NameIsFree DEF Registered
    <3>2. Registered \subseteq Installs
      BY DEF Registered
    <3> QED
      BY <1>3, <1>8, <2>2, <3>1, <3>2 DEF Chosen
  <2> QED
    BY <2>1, <2>2 DEF Moves
<1>10. ASSUME NEW j \in Installs, j # i
       PROVE  Placed(j)' /\ Chosen(j)'
  <2>1. Placed(j) /\ Chosen(j) /\ ins[j].seen \subseteq Installs
    BY DEF Places, InstallTypes, InstallRecords
  <2> QED
    BY <1>2, <1>8, <1>10, <2>1 DEF Placed, Chosen
<1> QED
  BY <1>4, <1>7, <1>9, <1>10 DEF Places

(* The cache after a step that leaves it alone.                            *)
LEMMA LiesWhole ==
  ASSUME InstallTypes, Holds, Whole, NEW i \in Installs, NEW r, Moves(i, r), Lies(i, r)
  PROVE  Whole'
<1>1. \A j \in Installs : j # i => ins'[j] = ins[j]
  BY DEF InstallTypes, Moves
<1>2. ins'[i] = r
  BY DEF InstallTypes, Moves
<1>3. \A k : CacheKeyFor(k)' = CacheKeyFor(k)
  BY DEF CacheKeyFor, Lies
<1>4. r.pc = "save" => ~(r.saved > 0)
  BY DEF Lies
<1>5. \A k : Savers(k)' = Savers(k)
  BY <1>1, <1>2, <1>3, <1>4 DEF Savers, Lies
<1>6. \A k : i \notin Savers(k)
  BY DEF Savers, Lies
<1>7. \A j \in Installs, k \in Keys : Copies(j, k)' => Copies(j, k)
  BY <1>1, <1>2, <1>3 DEF Copies, Lies
<1>8. ASSUME NEW k \in Keys, Lone(k)
      PROVE  Lone(k)'
  <2>1. \A j \in Savers(k) : ins'[j] = ins[j]
    BY <1>1, <1>6 DEF Savers
  <2> QED
    BY <1>5, <1>7, <1>8, <2>1 DEF Lone, Lies
<1> QED
  BY <1>8 DEF Whole, Entry, Lies

(* A cached entry is looked up.                                            *)
LEMMA CheckMoves ==
  ASSUME InstallTypes, Holds, NEW i \in Installs, CheckCache(i)
  PROVE  /\ ins[i].pc = "cache" /\ CacheKeyFor(ins[i].manifest) \in Keys
         /\ \E r : Moves(i, r) /\ r.pc \in {"copy", "download"} /\ r.manifest = ins[i].manifest
                 /\ ins' = [ins EXCEPT ![i] = r]
<1>0. ins[i] \in InstallRecords /\ Sound(ins[i])
  BY DEF InstallTypes, Holds
<1>1. ins[i].pc = "cache"
  BY DEF CheckCache
<1>2. CacheKeyFor(ins[i].manifest) \in Keys
  BY <1>0, <1>1, KeyOf
<1>3. PICK pc \in {"copy", "download"} : Step(i, [ins[i] EXCEPT !.pc = pc])
  BY DEF CheckCache
<1> DEFINE r == [ins[i] EXCEPT !.pc = pc]
<1>4. /\ r \in InstallRecords /\ r.pc = pc
      /\ r.name = ins[i].name /\ r.seen = ins[i].seen /\ r.saved = ins[i].saved
      /\ r.manifest = ins[i].manifest /\ r.saving = ins[i].saving
  BY <1>0 DEF InstallRecords, Pcs
<1>5. ins' = [ins EXCEPT ![i] = r]
  BY <1>3 DEF Step
<1> HIDE DEF r
<1>6. Sound(r)
  BY <1>0, <1>1, <1>4 DEF Sound
<1>7. Moves(i, r)
  BY <1>1, <1>4, <1>5, <1>6 DEF Moves
<1> QED
  BY <1>1, <1>2, <1>4, <1>5, <1>7

(* An entry whose directory is removed.                                    *)
LEMMA Removed ==
  ASSUME InstallTypes, NEW k \in Keys, Lone(k) \/ Savers(k) = {},
         cache'[k] = NoDir, Savers(k)' \subseteq Savers(k), \A j \in Savers(k)' : ins'[j] = ins[j]
  PROVE  Entry(k)'
<1>1. \A j, l \in Savers(k)' : j = l
  BY DEF Lone
<1> QED
  BY <1>1, MarksAssumption DEF Entry, Lone, NoDir

(* And the cache after that.                                               *)
LEMMA CheckWhole ==
  ASSUME InstallTypes, Holds, Whole, NEW i \in Installs, CheckCache(i)
  PROVE  Whole' /\ cache' \in [Keys -> CacheEntries] /\ overwritten' \subseteq Keys
<1>0. PICK k : k = CacheKeyFor(ins[i].manifest)
  OBVIOUS
<1>1. PICK r : /\ Moves(i, r) /\ r.pc \in {"copy", "download"} /\ r.manifest = ins[i].manifest
               /\ ins' = [ins EXCEPT ![i] = r]
  BY CheckMoves
<1>2. k \in Keys /\ ins[i].pc = "cache" /\ Sound(ins[i])
  BY <1>0, CheckMoves DEF Holds
<1>3. ins'[i] = r /\ \A j \in Installs : j # i => ins'[j] = ins[j]
  BY <1>1 DEF InstallTypes
<1>4. \A l : CacheKeyFor(l)' = CacheKeyFor(l)
  BY DEF CacheKeyFor, CheckCache, KeepRest
<1>5. \A l : Savers(l)' = Savers(l) /\ i \notin Savers(l)
  BY <1>1, <1>2, <1>3, <1>4 DEF Savers
<1>6. \A l : \A j \in Savers(l) : ins'[j] = ins[j]
  BY <1>3, <1>5 DEF Savers
<1>7. \A l \in Keys : \A j \in Installs : Copies(j, l)' => Copies(j, l) \/ (j = i /\ l = k /\ r.pc = "copy")
  BY <1>1, <1>0, <1>3, <1>4 DEF Copies
<1>8. ASSUME NEW l \in Keys, Lone(l), cache'[l] = cache[l], l # k \/ r.pc # "copy" \/ cache[l].zip # Partial
      PROVE  Lone(l)'
  BY <1>5, <1>6, <1>7, <1>8 DEF Lone
<1>9. CASE KeepCache /\ (r.pc # "copy" \/ (CacheValid(i, cache[k]) /\ cache[k].zip # None))
  <2>1. ASSUME NEW l \in Keys, l \notin overwritten
        PROVE  Lone(l)'
    <3>1. Lone(l)
      BY <2>1 DEF Whole, Entry
    <3>2. l = k /\ cache[l].zip = Partial => r.pc # "copy"
      BY <1>2, <1>9, <3>1, VersionAssumption, MarksAssumption DEF Lone, CacheValid, Sound, Versions
    <3> QED
      BY <1>8, <1>9, <3>1, <3>2 DEF KeepCache
  <2>2. cache' = cache /\ overwritten' = overwritten
    BY <1>9 DEF KeepCache
  <2>3. \A l \in Keys : ~cache[l].there => cache[l] = NoDir
    BY DEF Whole, Entry
  <2> QED
    BY <2>1, <2>2, <2>3 DEF Whole, Entry, InstallTypes
<1>10. CASE RemoveDir(k) /\ r.pc = "download"
  <2>1. /\ cache' = [cache EXCEPT ![k] = NoDir]
        /\ overwritten' = IF Savers(k) = {} THEN overwritten \ {k} ELSE overwritten
    BY <1>10 DEF RemoveDir
  <2>2. NoDir \in CacheEntries
    BY DEF NoDir, CacheEntries, File, Known
  <2>3. cache' \in [Keys -> CacheEntries] /\ overwritten' \subseteq Keys
    BY <2>1, <2>2 DEF InstallTypes
  <2>4. cache'[k] = NoDir /\ \A l \in Keys : l # k => cache'[l] = cache[l]
    BY <1>2, <2>1 DEF InstallTypes
  <2>5. ASSUME NEW l \in Keys, l # k
        PROVE  Entry(l)'
    <3>1. Entry(l) /\ cache'[l] = cache[l] /\ (l \in overwritten' <=> l \in overwritten)
      BY <2>1, <2>4, <2>5 DEF Whole
    <3>2. Lone(l) => Lone(l)'
      BY <1>8, <2>5, <3>1
    <3> QED
      BY <3>1, <3>2 DEF Entry
  <2>6. Entry(k)'
    <3>1. CASE k \in overwritten'
      BY <2>4, <3>1 DEF Entry
    <3>2. CASE k \notin overwritten'
      <4>1. Lone(k) \/ Savers(k) = {}
        BY <1>2, <2>1, <3>2 DEF Whole, Entry
      <4> QED
        BY <1>2, <1>5, <1>6, <2>4, <4>1, Removed
    <3> QED
      BY <3>1, <3>2
  <2> QED
    BY <2>3, <2>5, <2>6 DEF Whole
<1>11. \/ KeepCache /\ (r.pc # "copy" \/ (CacheValid(i, cache[k]) /\ cache[k].zip # None))
       \/ RemoveDir(k) /\ r.pc = "download"
  <2>1. \A pc \in {"copy", "download"} : Step(i, [ins[i] EXCEPT !.pc = pc]) => r.pc = pc
    BY <1>1 DEF Step, InstallTypes, InstallRecords
  <2> QED
    BY <1>0, <2>1 DEF CheckCache
<1> QED
  BY <1>9, <1>10, <1>11

(* The cached archive is copied, and a missing manifest added.             *)
LEMMA CopyStep ==
  ASSUME InstallTypes, Holds, Whole, NEW i \in Installs, CopyCached(i)
  PROVE  /\ \E r : Moves(i, r)
         /\ Whole' /\ cache' \in [Keys -> CacheEntries] /\ overwritten' \subseteq Keys
<1>0. PICK k : k = CacheKeyFor(ins[i].manifest)
  OBVIOUS
<1>1. ins[i] \in InstallRecords /\ Sound(ins[i]) /\ ins[i].pc = "copy"
  BY DEF InstallTypes, Holds, CopyCached
<1>2. k \in Keys
  BY <1>0, <1>1, KeyOf
<1>3. cache[k] \in CacheEntries /\ cache[k].zip \in File
  BY <1>2 DEF InstallTypes, CacheEntries
<1>4. CASE Fail(i) /\ KeepCache
  <2>1. UNCHANGED <<cache, overwritten, hashed>>
    BY <1>4 DEF KeepCache, CopyCached, KeepRest
  <2>2. PICK r : Moves(i, r) /\ Lies(i, r)
    BY <1>1, <1>4, <2>1, Failed
  <2> QED
    BY <2>1, <2>2, LiesWhole DEF InstallTypes
<1>5. ASSUME cache[k].zip # None, Step(i, [ins[i] EXCEPT !.archive = cache[k].zip, !.pc = "verify"]),
             \/ KeepCache
             \/ /\ cache' = [cache EXCEPT ![k].full = ins[i].manifest]
                /\ overwritten' = IF Savers(k) # {} THEN overwritten \cup {k} ELSE overwritten
      PROVE  /\ \E r : Moves(i, r)
             /\ Whole' /\ cache' \in [Keys -> CacheEntries] /\ overwritten' \subseteq Keys
  <2> DEFINE r == [ins[i] EXCEPT !.archive = cache[k].zip, !.pc = "verify"]
  <2>1. /\ r \in InstallRecords /\ r.pc = "verify" /\ r.archive = cache[k].zip
        /\ r.name = ins[i].name /\ r.seen = ins[i].seen /\ r.saved = ins[i].saved
        /\ r.manifest = ins[i].manifest /\ r.saving = ins[i].saving
    BY <1>1, <1>3 DEF InstallRecords, Pcs
  <2>2. ins' = [ins EXCEPT ![i] = r]
    BY <1>5 DEF Step
  <2> HIDE DEF r
  <2>3. Sound(r)
    BY <1>1, <1>5, <2>1 DEF Sound
  <2>4. Moves(i, r)
    BY <1>1, <2>1, <2>2, <2>3 DEF Moves
  <2>5. ins'[i] = r /\ \A j \in Installs : j # i => ins'[j] = ins[j]
    BY <2>2 DEF InstallTypes
  <2>6. \A l : CacheKeyFor(l)' = CacheKeyFor(l)
    BY DEF CacheKeyFor, CopyCached, KeepRest
  <2>7. \A l : Savers(l)' = Savers(l) /\ i \notin Savers(l)
    BY <1>1, <2>1, <2>5, <2>6 DEF Savers
  <2>8. \A l : \A j \in Savers(l) : ins'[j] = ins[j]
    BY <2>5, <2>7 DEF Savers
  <2>9. \A l \in Keys : \A j \in Installs : Copies(j, l)' => Copies(j, l)
    BY <2>1, <2>5, <2>6 DEF Copies
  <2>10. ASSUME NEW l \in Keys, Entry(l), cache'[l] = cache[l], overwritten \subseteq overwritten'
         PROVE  Entry(l)'
    <3>1. Lone(l) => Lone(l)'
      BY <2>7, <2>8, <2>9, <2>10 DEF Lone
    <3> QED
      BY <2>10, <3>1 DEF Entry
  <2>11. CASE KeepCache
    BY <2>4, <2>10, <2>11 DEF KeepCache, Whole, InstallTypes
  <2>12. CASE /\ cache' = [cache EXCEPT ![k].full = ins[i].manifest]
              /\ overwritten' = IF Savers(k) # {} THEN overwritten \cup {k} ELSE overwritten
    <3> DEFINE d == [cache[k] EXCEPT !.full = ins[i].manifest]
    <3>1. d \in CacheEntries /\ d.zip = cache[k].zip /\ d.there = cache[k].there
          /\ d.manifest = cache[k].manifest /\ d.sha = cache[k].sha
      BY <1>1, <1>3 DEF CacheEntries, InstallRecords
    <3>2. cache' = [cache EXCEPT ![k] = d]
      BY <2>12
    <3> HIDE DEF d
    <3>3. cache' \in [Keys -> CacheEntries] /\ overwritten' \subseteq Keys /\ overwritten \subseteq overwritten'
      BY <1>2, <2>12, <3>1, <3>2 DEF InstallTypes
    <3>4. cache'[k] = d /\ \A l \in Keys : l # k => cache'[l] = cache[l]
      BY <1>2, <3>2 DEF InstallTypes
    <3>5. Entry(k)
      BY <1>2 DEF Whole
    <3>6. cache[k].there
      BY <1>5, <3>5 DEF Entry, NoDir
    <3>7. ASSUME k \notin overwritten'
          PROVE  Lone(k)'
      <4>1. Savers(k) = {} /\ Lone(k)
        BY <2>12, <3>5, <3>7 DEF Entry
      <4>2. Copies(i, k)
        BY <1>0, <1>1 DEF Copies
      <4>3. cache[k].zip # Partial
        BY <4>1, <4>2 DEF Lone
      <4> QED
        BY <2>7, <3>1, <3>4, <4>1, <4>3 DEF Lone
    <3>8. Entry(k)'
      BY <3>1, <3>4, <3>6, <3>7 DEF Entry
    <3> QED
      BY <2>4, <2>10, <3>3, <3>4, <3>8 DEF Whole
  <2> QED
    BY <1>5, <2>11, <2>12
<1> QED
  BY <1>0, <1>4, <1>5 DEF CopyCached, KeepCache

(* The step of a save: the one that saves goes on or ends.                 *)
LEMMA SaveMoves ==
  ASSUME InstallTypes, Holds, NEW i \in Installs, ins[i].pc = "save",
         NEW pc \in {"save", "extract"}, pc = "save" => ins[i].saved < 7,
         ins' = [ins EXCEPT ![i] = [ins[i] EXCEPT !.saved = @ + 1, !.pc = pc]]
  PROVE  \E r : /\ Moves(i, r) /\ r.pc = pc /\ r.saved = ins[i].saved + 1
                /\ r.manifest = ins[i].manifest /\ r.archive = ins[i].archive
<1>0. ins[i] \in InstallRecords /\ Sound(ins[i])
  BY DEF InstallTypes, Holds
<1>1. ins[i].saved \in 0 .. 7
  BY <1>0 DEF Sound, InstallRecords
<1> DEFINE n == ins[i].saved + 1
           r == [ins[i] EXCEPT !.saved = n, !.pc = pc]
<1>6. n \in 0 .. 8
  BY <1>1
<1>2. /\ r \in InstallRecords /\ r.pc = pc /\ r.saved = ins[i].saved + 1
      /\ r.name = ins[i].name /\ r.seen = ins[i].seen /\ r.hash = ins[i].hash
      /\ r.manifest = ins[i].manifest /\ r.saving = ins[i].saving /\ r.archive = ins[i].archive
  <2> HIDE DEF n
  <2>1. /\ r \in InstallRecords /\ r.pc = pc /\ r.saved = n
        /\ r.name = ins[i].name /\ r.seen = ins[i].seen /\ r.hash = ins[i].hash
        /\ r.manifest = ins[i].manifest /\ r.saving = ins[i].saving /\ r.archive = ins[i].archive
    BY <1>0, <1>6 DEF InstallRecords, Pcs
  <2> QED
    BY <2>1 DEF n
<1>3. ins' = [ins EXCEPT ![i] = r]
  OBVIOUS
<1> HIDE DEF r
<1>4. Sound(r)
  BY <1>0, <1>1, <1>2 DEF Sound
<1>5. Moves(i, r)
  BY <1>2, <1>3, <1>4 DEF Moves
<1> QED
  BY <1>2, <1>5

(* The writes of a save by their number.                                   *)
LEMMA Writes ==
  /\ SaveOrder[1] = "mkdir" /\ SaveOrder[2] = "zip" /\ SaveOrder[3] = "whole"
  /\ SaveOrder[4] = "manifest" /\ SaveOrder[5] = "full" /\ SaveOrder[6] = "app"
  /\ SaveOrder[7] = "sha" /\ SaveOrder[8] = "evict" /\ Len(SaveOrder) = 8
BY DEF SaveOrder

(* What a write of a save puts into its entry.                             *)
LEMMA WrittenOK ==
  ASSUME NEW i \in Installs, NEW d \in CacheEntries, NEW r, ins[i] \in InstallRecords, Sound(ins[i]),
         ins[i].pc = "save", ins[i].saved \in 1 .. 6, r.saved = ins[i].saved + 1,
         r.archive = ins[i].archive
  PROVE  LET e == Written(i, SaveOrder[ins[i].saved + 1], d) IN
         /\ e \in CacheEntries /\ e.there = d.there
         /\ Stage(ins[i], d) /\ (d.sha # None => d.zip = d.sha) =>
              /\ Stage(r, e) /\ (e.sha # None => e.zip = e.sha)
              /\ e.zip = Partial => e.manifest = None /\ e.full = None /\ e.sha = None
<1> USE MarksAssumption
<1> DEFINE n == ins[i].saved
<1>0. Partial \in File /\ ins[i].archive \in File /\ ins[i].archive \in Content
      /\ ins[i].archive # None /\ ins[i].archive # Partial
      /\ ins[i].manifest \in Known /\ ins[i].hash \in Known
      /\ (ins[i].hash # None => ins[i].archive = ins[i].hash)
  BY VersionAssumption DEF Sound, InstallRecords, File, Content, Versions
<1>1. CASE n = 1
  <2>1. Written(i, SaveOrder[n + 1], d) = [d EXCEPT !.zip = Partial]
    BY <1>1, Writes DEF Written
  <2> QED
    BY <1>0, <1>1, <2>1 DEF CacheEntries, Stage
<1>2. CASE n = 2
  <2>1. Written(i, SaveOrder[n + 1], d) = [d EXCEPT !.zip = ins[i].archive]
    BY <1>2, Writes DEF Written
  <2> QED
    BY <1>0, <1>2, <2>1 DEF CacheEntries, Stage
<1>3. CASE n = 3
  <2>1. Written(i, SaveOrder[n + 1], d) = [d EXCEPT !.manifest = ins[i].manifest]
    BY <1>3, Writes DEF Written
  <2> QED
    BY <1>0, <1>3, <2>1 DEF CacheEntries, Stage
<1>4. CASE n = 4
  <2>1. Written(i, SaveOrder[n + 1], d) = [d EXCEPT !.full = ins[i].manifest]
    BY <1>4, Writes DEF Written
  <2> QED
    BY <1>0, <1>4, <2>1 DEF CacheEntries, Stage
<1>5. CASE n = 5
  <2>1. Written(i, SaveOrder[n + 1], d) = [d EXCEPT !.app = TRUE]
    BY <1>5, Writes DEF Written
  <2> DEFINE e == [d EXCEPT !.app = TRUE]
  <2>2. /\ e \in CacheEntries /\ e.zip = d.zip /\ e.manifest = d.manifest /\ e.full = d.full
        /\ e.sha = d.sha /\ e.there = d.there
    BY DEF CacheEntries
  <2> HIDE DEF e
  <2>3. Stage(ins[i], d) => Stage(r, e)
    BY <1>5, <2>2 DEF Stage
  <2>4. Stage(ins[i], d) => e.zip # Partial
    BY <1>0, <1>5, <2>2 DEF Stage
  <2> QED
    BY <2>1, <2>2, <2>3, <2>4 DEF e
<1>6. CASE n = 6
  <2>1. Written(i, SaveOrder[n + 1], d) = IF ins[i].hash # None THEN [d EXCEPT !.sha = ins[i].hash] ELSE d
    BY <1>6, Writes DEF Written
  <2>2. CASE ins[i].hash = None
    <3>1. Written(i, SaveOrder[n + 1], d) = d
      BY <2>1, <2>2
    <3> QED
      BY <1>0, <1>6, <3>1 DEF Stage
  <2>3. CASE ins[i].hash # None
    <3> DEFINE e == [d EXCEPT !.sha = ins[i].hash]
    <3>1. /\ e \in CacheEntries /\ e.zip = d.zip /\ e.manifest = d.manifest /\ e.full = d.full
          /\ e.sha = ins[i].hash /\ e.there = d.there
      BY <1>0 DEF CacheEntries
    <3>2. Written(i, SaveOrder[n + 1], d) = e
      BY <2>1, <2>3
    <3> HIDE DEF e
    <3> QED
      BY <1>0, <1>6, <3>1, <3>2 DEF Stage
  <2> QED
    BY <2>2, <2>3
<1> QED
  BY <1>1, <1>2, <1>3, <1>4, <1>5, <1>6

(* The directory of an entry is made, or another's is found.               *)
LEMMA MkdirLone ==
  ASSUME NEW i \in Installs, NEW k \in Keys, ins'[i].saved = 1,
         cache'[k] = EmptyDir, Savers(k)' = {i}
  PROVE  Lone(k)'
BY MarksAssumption DEF Lone, Stage, EmptyDir, NoDir

(* A step of a save.                                                       *)
LEMMA SaveStepWhole ==
  ASSUME InstallTypes, Holds, Whole, NEW i \in Installs, SaveStep(i)
  PROVE  /\ \E r : Moves(i, r)
         /\ Whole' /\ cache' \in [Keys -> CacheEntries] /\ overwritten' \subseteq Keys
<1>0. PICK k : k = CacheKeyFor(ins[i].manifest)
  OBVIOUS
<1>1. ins[i] \in InstallRecords /\ Sound(ins[i]) /\ ins[i].pc = "save"
  BY DEF InstallTypes, Holds, SaveStep
<1>2. k \in Keys /\ ins[i].saved \in 0 .. 7
  BY <1>0, <1>1, KeyOf DEF Sound, InstallRecords
<1>3. PICK w : w = SaveOrder[ins[i].saved + 1]
  OBVIOUS
<1>4. /\ w = "mkdir" <=> ins[i].saved = 0
      /\ w = "evict" <=> ins[i].saved = 7
  BY <1>2, <1>3, Writes
<1>5. \A l : CacheKeyFor(l)' = CacheKeyFor(l)
  BY DEF CacheKeyFor, SaveStep, KeepRest
<1>6. cache[k] \in CacheEntries /\ Entry(k)
  BY <1>2 DEF InstallTypes, Whole
<1>7. ins[i].saved > 0 => i \in Savers(k)
  BY <1>0, <1>1 DEF Savers
<1> DEFINE Next1 == Step(i, [ins[i] EXCEPT !.saved = @ + 1, !.pc = IF w = "evict" THEN "extract" ELSE "save"])
<1>8. \/ w = "mkdir" /\ cache' = [cache EXCEPT ![k] = IF @.there THEN @ ELSE EmptyDir]
         /\ overwritten' = (IF cache[k].there \/ Savers(k) # {} THEN overwritten \cup {k} ELSE overwritten)
         /\ Next1
      \/ w = "evict" /\ Evict(k) /\ Next1
      \/ /\ w \notin {"mkdir", "evict"} /\ cache[k].there
         /\ cache' = [cache EXCEPT ![k] = Written(i, w, @)]
         /\ UNCHANGED overwritten /\ Next1
      \/ w \notin {"mkdir", "evict"} /\ ~cache[k].there /\ Fail(i) /\ KeepCache
  BY <1>0, <1>3 DEF SaveStep
<1>9. ASSUME Next1
      PROVE  \E r : /\ Moves(i, r) /\ r.pc = (IF w = "evict" THEN "extract" ELSE "save")
                    /\ r.saved = ins[i].saved + 1
                    /\ r.manifest = ins[i].manifest /\ r.archive = ins[i].archive
  <2> DEFINE pc == IF w = "evict" THEN "extract" ELSE "save"
  <2>1. pc \in {"save", "extract"} /\ (pc = "save" => ins[i].saved < 7)
    BY <1>2, <1>4
  <2>2. ins' = [ins EXCEPT ![i] = [ins[i] EXCEPT !.saved = @ + 1, !.pc = pc]]
    BY <1>9 DEF Step
  <2> HIDE DEF pc
  <2>3. \E r : /\ Moves(i, r) /\ r.pc = pc /\ r.saved = ins[i].saved + 1
               /\ r.manifest = ins[i].manifest /\ r.archive = ins[i].archive
    BY <1>1, <2>1, <2>2, SaveMoves
  <2> QED
    BY <2>3 DEF pc
<1>10. ASSUME NEW r, ins' = [ins EXCEPT ![i] = r], r.pc # "copy"
       PROVE  /\ ins'[i] = r /\ \A j \in Installs : j # i => ins'[j] = ins[j]
              /\ \A l \in Keys : \A j \in Installs : Copies(j, l)' => Copies(j, l)
              /\ \A l \in Keys : l # k /\ (r.pc = "save" => r.manifest = ins[i].manifest) =>
                                 Savers(l)' = Savers(l) /\ i \notin Savers(l)
              /\ r.pc # "save" => Savers(k)' = Savers(k) \ {i}
              /\ r.pc = "save" /\ r.saved > 0 /\ r.manifest = ins[i].manifest => Savers(k)' = Savers(k) \cup {i}
  <2>1. ins'[i] = r /\ \A j \in Installs : j # i => ins'[j] = ins[j]
    BY <1>10 DEF InstallTypes
  <2>2. \A l \in Keys : \A j \in Installs : Copies(j, l)' => Copies(j, l)
    BY <1>5, <1>10, <2>1 DEF Copies
  <2>3. ASSUME NEW l \in Keys, l # k, r.pc = "save" => r.manifest = ins[i].manifest
        PROVE  Savers(l)' = Savers(l) /\ i \notin Savers(l)
    BY <1>0, <1>5, <2>1, <2>3 DEF Savers
  <2>4. r.pc # "save" => Savers(k)' = Savers(k) \ {i}
    BY <1>5, <2>1 DEF Savers
  <2>5. r.pc = "save" /\ r.saved > 0 /\ r.manifest = ins[i].manifest => Savers(k)' = Savers(k) \cup {i}
    BY <1>0, <1>5, <2>1 DEF Savers
  <2> QED
    BY <2>1, <2>2, <2>3, <2>4, <2>5
<1>16. ASSUME NEW r, ins' = [ins EXCEPT ![i] = r], r.pc = "save", r.saved > 0,
              r.manifest = ins[i].manifest
       PROVE  Savers(k)' = Savers(k) \cup {i} /\ ins'[i] = r
  BY <1>10, <1>16
<1>11. ASSUME NEW r, ins' = [ins EXCEPT ![i] = r], r.pc # "copy",
              r.pc = "save" => r.manifest = ins[i].manifest,
              NEW l \in Keys, l # k, cache'[l] = cache[l], Lone(l)
       PROVE  Lone(l)'
  <2>1. Savers(l)' = Savers(l) /\ i \notin Savers(l)
    BY <1>10, <1>11
  <2>2. \A j \in Savers(l) : ins'[j] = ins[j]
    BY <1>10, <1>11, <2>1 DEF Savers
  <2>3. \A j \in Installs : Copies(j, l)' => Copies(j, l)
    BY <1>10, <1>11
  <2> QED
    BY <1>11, <2>1, <2>2, <2>3 DEF Lone
<1> HIDE DEF Next1
<1>12. CASE /\ w = "mkdir" /\ cache' = [cache EXCEPT ![k] = IF @.there THEN @ ELSE EmptyDir]
            /\ overwritten' = (IF cache[k].there \/ Savers(k) # {} THEN overwritten \cup {k} ELSE overwritten)
            /\ Next1
  <2>1. PICK r : /\ Moves(i, r) /\ r.pc = "save" /\ r.saved = 1 /\ r.manifest = ins[i].manifest
    BY <1>4, <1>9, <1>12
  <2>2. ins' = [ins EXCEPT ![i] = r]
    BY <2>1 DEF Moves
  <2>3. EmptyDir \in CacheEntries
    BY DEF EmptyDir, NoDir, CacheEntries, File, Known
  <2>4. cache' \in [Keys -> CacheEntries] /\ overwritten' \subseteq Keys
    BY <1>2, <1>12, <2>3 DEF InstallTypes
  <2>5. \A l \in Keys : l # k => cache'[l] = cache[l] /\ (l \in overwritten' <=> l \in overwritten)
    BY <1>12 DEF InstallTypes
  <2>6. cache'[k] = IF cache[k].there THEN cache[k] ELSE EmptyDir
    BY <1>2, <1>12 DEF InstallTypes
  <2>7. cache'[k].there
    BY <2>6 DEF EmptyDir, NoDir
  <2>8. ASSUME k \notin overwritten'
        PROVE  Lone(k)'
    <3>1. ~cache[k].there /\ Savers(k) = {}
      BY <1>12, <2>8
    <3>2. cache'[k] = EmptyDir
      BY <2>6, <3>1
    <3>3. Savers(k)' = {i} /\ ins'[i].saved = 1
      <4>1. r.saved > 0
        BY <2>1
      <4>2. Savers(k)' = Savers(k) \cup {i} /\ ins'[i] = r
        BY <1>16, <2>1, <2>2, <4>1
      <4> QED
        BY <2>1, <3>1, <4>2
    <3> QED
      BY <1>2, <3>2, <3>3, MkdirLone
  <2>9. ASSUME NEW l \in Keys
        PROVE  Entry(l)'
    <3>1. Entry(l)
      BY DEF Whole
    <3>2. CASE l = k
      BY <2>7, <2>8, <3>2 DEF Entry
    <3>3. CASE l # k
      <4>1. Lone(l) => Lone(l)'
        BY <1>11, <2>1, <2>2, <2>5, <3>3
      <4> QED
        BY <2>5, <3>1, <3>3, <4>1 DEF Entry
    <3> QED
      BY <3>2, <3>3
  <2> QED
    BY <2>1, <2>4, <2>9 DEF Whole
<1>13. CASE /\ w \notin {"mkdir", "evict"} /\ cache[k].there
            /\ cache' = [cache EXCEPT ![k] = Written(i, w, @)]
            /\ UNCHANGED overwritten /\ Next1
  <2>1. PICK r : /\ Moves(i, r) /\ r.pc = "save" /\ r.saved = ins[i].saved + 1
                 /\ r.manifest = ins[i].manifest /\ r.archive = ins[i].archive
    BY <1>9, <1>13
  <2>2. ins' = [ins EXCEPT ![i] = r]
    BY <2>1 DEF Moves
  <2>3. ins[i].saved \in 1 .. 6
    BY <1>2, <1>4, <1>13
  <2>4. PICK e : e = Written(i, w, cache[k])
    OBVIOUS
  <2>5. /\ e \in CacheEntries /\ e.there = cache[k].there
        /\ Stage(ins[i], cache[k]) /\ (cache[k].sha # None => cache[k].zip = cache[k].sha) =>
              /\ Stage(r, e) /\ (e.sha # None => e.zip = e.sha)
              /\ e.zip = Partial => e.manifest = None /\ e.full = None /\ e.sha = None
    BY <1>1, <1>3, <1>6, <2>1, <2>3, <2>4, WrittenOK
  <2>6. cache' = [cache EXCEPT ![k] = e]
    BY <1>13, <2>4
  <2>7. cache' \in [Keys -> CacheEntries] /\ overwritten' \subseteq Keys
    BY <1>2, <1>13, <2>5, <2>6 DEF InstallTypes
  <2>8. cache'[k] = e /\ \A l \in Keys : l # k => cache'[l] = cache[l]
    BY <1>2, <2>6 DEF InstallTypes
  <2>9. ASSUME Lone(k)
        PROVE  Lone(k)'
    <3>1. i \in Savers(k) /\ Savers(k) = {i}
      BY <1>7, <2>3, <2>9 DEF Lone
    <3>2. Savers(k)' = {i} /\ ins'[i] = r
      <4>1. r.saved > 0
        BY <2>1, <2>3
      <4>2. Savers(k)' = Savers(k) \cup {i} /\ ins'[i] = r
        BY <1>16, <2>1, <2>2, <4>1
      <4> QED
        BY <3>1, <4>2
    <3>3. Stage(ins[i], cache[k]) /\ (cache[k].sha # None => cache[k].zip = cache[k].sha)
      BY <1>13, <2>9, <3>1 DEF Lone
    <3> QED
      BY <2>5, <2>8, <3>2, <3>3 DEF Lone
  <2>10. ASSUME NEW l \in Keys
         PROVE  Entry(l)'
    <3>1. Entry(l)
      BY DEF Whole
    <3>2. CASE l = k
      BY <1>13, <2>5, <2>8, <2>9, <3>1, <3>2 DEF Entry
    <3>3. CASE l # k
      <4>1. Lone(l) => Lone(l)'
        BY <1>11, <2>1, <2>2, <2>8, <3>3
      <4> QED
        BY <1>13, <2>8, <3>1, <3>3, <4>1 DEF Entry
    <3> QED
      BY <3>2, <3>3
  <2> QED
    BY <2>1, <2>7, <2>10 DEF Whole
<1>14. CASE w = "evict" /\ Evict(k) /\ Next1
  <2>1. PICK r : /\ Moves(i, r) /\ r.pc = "extract"
    BY <1>9, <1>14
  <2>2. ins' = [ins EXCEPT ![i] = r]
    BY <2>1 DEF Moves
  <2>3. /\ cache' = [l \in Keys |-> IF l # k /\ cache[l].app THEN NoDir ELSE cache[l]]
        /\ overwritten' = {l \in overwritten : l = k \/ ~cache[l].app \/ Savers(l) # {}}
    BY <1>14 DEF Evict
  <2>4. NoDir \in CacheEntries
    BY DEF NoDir, CacheEntries, File, Known
  <2>5. cache' \in [Keys -> CacheEntries] /\ overwritten' \subseteq Keys
    BY <2>3, <2>4 DEF InstallTypes
  <2>6. ASSUME Lone(k)
        PROVE  Lone(k)'
    <3>1. i \in Savers(k) /\ Savers(k) = {i}
      BY <1>4, <1>7, <1>14, <2>6 DEF Lone
    <3>2. Savers(k)' = {}
      BY <1>10, <2>1, <2>2, <3>1
    <3>3. cache'[k] = cache[k]
      BY <1>2, <2>3
    <3>4. cache[k].zip # Partial
      <4>1. CASE cache[k].there
        <5>1. Stage(ins[i], cache[k])
          BY <2>6, <3>1, <4>1 DEF Lone
        <5>2. cache[k].zip = ins[i].archive
          BY <1>4, <1>14, <5>1 DEF Stage
        <5> QED
          BY <1>1, <5>2, VersionAssumption, MarksAssumption DEF Sound, Content, Versions
      <4>2. CASE ~cache[k].there
        BY <1>6, <4>2, MarksAssumption DEF Entry, NoDir
      <4> QED
        BY <4>1, <4>2
    <3> QED
      BY <2>6, <3>2, <3>3, <3>4 DEF Lone
  <2>7. ASSUME NEW l \in Keys
        PROVE  Entry(l)'
    <3>1. Entry(l)
      BY DEF Whole
    <3>2. CASE l = k
      BY <2>3, <2>6, <3>1, <3>2 DEF Entry
    <3>3. CASE l # k /\ cache[l].app
      <4>1. cache'[l] = NoDir
        BY <2>3, <3>3
      <4>2. CASE l \in overwritten'
        BY <4>1, <4>2 DEF Entry
      <4>3. CASE l \notin overwritten'
        <5>1. Lone(l) \/ Savers(l) = {}
          BY <2>3, <3>1, <3>3, <4>3 DEF Entry
        <5>2. Savers(l)' = Savers(l) /\ i \notin Savers(l)
          BY <1>10, <2>1, <2>2, <3>3
        <5>3. \A j \in Savers(l)' : ins'[j] = ins[j]
          BY <1>10, <2>1, <2>2, <5>2 DEF Savers
        <5> QED
          BY <4>1, <5>1, <5>2, <5>3, Removed
      <4> QED
        BY <4>2, <4>3
    <3>4. CASE l # k /\ ~cache[l].app
      <4>1. cache'[l] = cache[l] /\ (l \in overwritten' <=> l \in overwritten)
        BY <2>3, <3>4
      <4>2. Lone(l) => Lone(l)'
        BY <1>11, <2>1, <2>2, <3>4, <4>1
      <4> QED
        BY <3>1, <4>1, <4>2 DEF Entry
    <3> QED
      BY <3>2, <3>3, <3>4
  <2> QED
    BY <2>1, <2>5, <2>7 DEF Whole
<1>15. CASE w \notin {"mkdir", "evict"} /\ ~cache[k].there /\ Fail(i) /\ KeepCache
  <2> DEFINE r == [ins[i] EXCEPT !.pc = "failed"]
  <2>1. /\ r \in InstallRecords /\ r.pc = "failed" /\ r.name = ins[i].name /\ r.seen = ins[i].seen
    BY <1>1 DEF InstallRecords, Pcs
  <2>2. ins' = [ins EXCEPT ![i] = r]
    BY <1>15 DEF Fail, Step
  <2> HIDE DEF r
  <2>3. Sound(r)
    BY <2>1 DEF Sound
  <2>4. Moves(i, r)
    BY <2>1, <2>2, <2>3 DEF Moves
  <2>5. cache' = cache /\ overwritten' = overwritten
    BY <1>15 DEF KeepCache
  <2>6. ASSUME Lone(k)
        PROVE  Lone(k)'
    <3>1. cache'[k] = NoDir
      BY <1>6, <1>15, <2>5 DEF Entry
    <3>2. Savers(k)' \subseteq Savers(k) /\ i \notin Savers(k)'
      BY <1>10, <2>1, <2>2
    <3>3. \A j \in Savers(k)' : ins'[j] = ins[j]
      BY <1>10, <2>1, <2>2, <3>2 DEF Savers
    <3>4. \A j, l \in Savers(k)' : j = l
      BY <2>6, <3>2 DEF Lone
    <3> QED
      BY <3>1, <3>4, MarksAssumption DEF Lone, NoDir
  <2>7. ASSUME NEW l \in Keys
        PROVE  Entry(l)'
    <3>1. Entry(l)
      BY DEF Whole
    <3>2. CASE l = k
      BY <2>5, <2>6, <3>1, <3>2 DEF Entry
    <3>3. CASE l # k
      <4>1. Lone(l) => Lone(l)'
        BY <1>11, <2>1, <2>2, <2>5, <3>3
      <4> QED
        BY <2>5, <3>1, <4>1 DEF Entry
    <3> QED
      BY <3>2, <3>3
  <2> QED
    BY <2>4, <2>5, <2>7 DEF Whole, InstallTypes
<1> QED
  BY <1>8, <1>12, <1>13, <1>14, <1>15

(* The end of the process.                                                 *)
LEMMA CrashKeeps ==
  ASSUME InstallInv, Crash
  PROVE  InstallInv'
<1> USE DEF InstallInv
<1>1. \A i \in Installs : ins'[i] = IF ins[i].pc = "new" THEN ins[i] ELSE [ins[i] EXCEPT !.pc = "failed"]
  BY DEF Crash
<1>2. ASSUME NEW i \in Installs
      PROVE  /\ ins'[i] \in InstallRecords /\ Sound(ins'[i])
             /\ ins'[i].name = ins[i].name /\ ins'[i].seen = ins[i].seen
             /\ ins'[i].pc \in {"new", "failed"} /\ (ins'[i].pc = "new" => ins[i].pc = "new")
  <2>1. ins[i] \in InstallRecords /\ Sound(ins[i])
    BY DEF InstallTypes, Holds
  <2>2. CASE ins[i].pc = "new"
    BY <1>1, <2>1, <2>2
  <2>3. CASE ins[i].pc # "new"
    <3> DEFINE r == [ins[i] EXCEPT !.pc = "failed"]
    <3>1. r \in InstallRecords /\ r.pc = "failed" /\ r.name = ins[i].name /\ r.seen = ins[i].seen
      BY <2>1 DEF InstallRecords, Pcs
    <3>2. ins'[i] = r
      BY <1>1, <2>3
    <3> HIDE DEF r
    <3>3. Sound(r)
      BY <3>1 DEF Sound
    <3> QED
      BY <3>1, <3>2, <3>3
  <2> QED
    BY <2>2, <2>3
<1>3. ins' \in [Installs -> InstallRecords]
  BY <1>2 DEF Crash
<1>4. UNCHANGED <<published, hashed, cacheable, cache, rows, overwritten>>
  BY DEF Crash
<1>5. InstallTypes' /\ Holds'
  BY <1>2, <1>3, <1>4 DEF InstallTypes, Holds, Sound
<1>6. Places'
  BY <1>2, <1>4 DEF Places, Placed, Chosen
<1>7. Whole'
  <2>1. \A k \in Keys : Savers(k)' = {}
    BY <1>2 DEF Savers
  <2>2. \A k \in Keys : \A i \in Installs : ~Copies(i, k)'
    BY <1>2 DEF Copies
  <2> QED
    BY <1>4, <2>1, <2>2 DEF Whole, Entry, Lone
<1> QED
  BY <1>5, <1>6, <1>7

(* Every step keeps the invariant.                                         *)
LEMMA InstallInvStep == InstallInv /\ [InstallNext]_installVars => InstallInv'
<1> SUFFICES ASSUME InstallInv, [InstallNext]_installVars
             PROVE  InstallInv'
  OBVIOUS
<1> USE DEF InstallInv
<1>1. CASE Publish
  <2>1. published' \in Versions /\ UNCHANGED <<hashed, cacheable, cache, ins, rows, overwritten>>
    BY <1>1, VersionAssumption DEF Publish, InstallTypes, Versions
  <2> QED
    BY <2>1 DEF InstallTypes, Holds, Places, Placed, Chosen, Whole, Entry, Lone, Savers, Copies, CacheKeyFor
<1>2. CASE Crash
  BY <1>2, CrashKeeps
<1>3. ASSUME NEW i \in Installs, Aside(i)
      PROVE  InstallInv'
  <2>1. PICK r : Moves(i, r) /\ Lies(i, r)
    BY <1>3, AsideMoves
  <2>2. UNCHANGED rows \/ Adds(i)
    BY <1>3, AsideMoves
  <2>3. ins' \in [Installs -> InstallRecords] /\ Holds' /\ rows' \in [Installs -> RowRecords] /\ Places'
    BY <2>1, <2>2, MovesHold, MovesPlace
  <2>4. Whole' /\ UNCHANGED <<cache, overwritten>>
    BY <2>1, LiesWhole DEF Lies
  <2>5. UNCHANGED <<published, hashed, cacheable>>
    BY <1>3 DEF Aside, FetchManifest, RequestUrl, Download, VerifyArchive, FindCached, CopyOffline,
                VerifyOffline, Extract, ResolveBoot, InsertVm, Register, RegisterCached, KeepRest
  <2> QED
    BY <2>3, <2>4, <2>5 DEF InstallTypes
<1>4. ASSUME NEW i \in Installs, CheckCache(i) \/ CopyCached(i) \/ SaveStep(i)
      PROVE  InstallInv'
  <2>1. /\ \E r : Moves(i, r)
        /\ Whole' /\ cache' \in [Keys -> CacheEntries] /\ overwritten' \subseteq Keys
    BY <1>4, CheckMoves, CheckWhole, CopyStep, SaveStepWhole
  <2>2. UNCHANGED <<rows, published, hashed, cacheable>>
    BY <1>4 DEF CheckCache, CopyCached, SaveStep, KeepRest
  <2>3. ins' \in [Installs -> InstallRecords] /\ Holds' /\ rows' \in [Installs -> RowRecords] /\ Places'
    BY <2>1, <2>2, MovesHold, MovesPlace
  <2> QED
    BY <2>1, <2>2, <2>3 DEF InstallTypes
<1>5. CASE UNCHANGED installVars
  BY <1>5 DEF installVars, InstallTypes, Holds, Places, Placed, Chosen, Whole, Entry, Lone, Savers, Copies, CacheKeyFor
<1> QED
  BY <1>1, <1>2, <1>3, <1>4, <1>5 DEF InstallNext, Aside

(* What the invariant says of rows, cache entries and names.               *)
LEMMA InstallInvSafe == InstallInv => InstallSafe
<1> SUFFICES ASSUME InstallInv
             PROVE  InstallSafe
  OBVIOUS
<1> USE DEF InstallInv
<1>1. InstallTypeOK
  <2>1. \A i \in Installs : ins[i] \in InstallRecords
    BY DEF InstallTypes
  <2>2. rows \in [Installs -> [name : 0 .. Cardinality(Installs), disk : Content \cup {None},
                              hash : Versions \cup {None}, there : BOOLEAN]]
    BY DEF InstallTypes, RowRecords, Known
  <2>3. cache \in [Keys -> [zip : File, manifest : Versions \cup {None}, full : Versions \cup {None},
                           app : BOOLEAN, sha : Versions \cup {None}, there : BOOLEAN]]
    BY DEF InstallTypes, CacheEntries, Known
  <2>4. \A i \in Installs :
          /\ ins[i].archive \in File /\ ins[i].disk \in Content \cup {None}
          /\ ins[i].expected \in Versions \cup {None} /\ ins[i].hash \in Versions \cup {None}
          /\ ins[i].saved \in 0 .. Len(SaveOrder)
    BY <2>1, Writes DEF InstallRecords, Known
  <2> QED
    BY <2>2, <2>3, <2>4 DEF InstallTypeOK, InstallTypes
<1>2. InstalledVerified
  BY DEF InstalledVerified, Registered, Places, Placed
<1>3. CacheWhole
  <2> SUFFICES ASSUME NEW k \in Keys, k \notin overwritten, Listed(cache[k])
               PROVE  /\ cache[k].zip \in Content
                      /\ cache[k].sha # None => cache[k].zip = cache[k].sha
    BY DEF CacheWhole
  <2>1. Lone(k) /\ cache[k].zip \in File
    BY DEF Whole, Entry, InstallTypes, CacheEntries
  <2> QED
    BY <2>1 DEF Lone, Listed, File
<1>4. NamesClashOnlyAtOnce
  BY DEF NamesClashOnlyAtOnce, Registered, Places, Placed, Chosen
<1> QED
  BY <1>1, <1>2, <1>3, <1>4 DEF InstallSafe

(* Whatever installs overlap and wherever the process ends, rows have      *)
(* whole, verified disks, cache entries that only one install wrote at a   *)
(* time are whole, and names clash only between installs that chose before *)
(* each other's row was there: for any number of installs and versions.    *)
THEOREM InstallsAreSafe == InstallSpec => []InstallSafe
<1>1. InstallSpec => []InstallInv
  BY InstallInvInit, InstallInvStep, PTL DEF InstallSpec
<1> QED
  BY <1>1, InstallInvSafe, PTL

-----------------------------------------------------------------------------
(* StoreLogin                                                              *)

LoginTask == [kind : {"none", "background", "blocking", "refresh", "restore"},
              pc : {"idle", "poll", "send", "mem", "db", "refused", "clear"}, tok : Nat]

LoginTypes ==
  /\ issued \in Nat /\ valid \subseteq 1..issued /\ rotates \in BOOLEAN
  /\ access \in Nat /\ db \in 0..issued /\ legacy \in 0..issued
  /\ task \in [Tasks -> LoginTask]
  /\ \A t \in Tasks : /\ task[t].tok <= issued
                      /\ task[t].pc = "idle" => task[t] = Idle
                      /\ task[t].pc \in {"send", "mem", "db"} => task[t].tok # 0

(* What a logout leaves while nothing overlaps it.                         *)
LogoutOK ==
  /\ (leaving \/ out) /\ ~late => Busy = {} /\ legacy = 0 /\ access = 0
  /\ out /\ ~late => db = 0

(* While no answer, write or race has cost the session: one task renews it,*)
(* with a token the store takes, and what the store has taken back is in   *)
(* keys.db only until that task has written the new one.                   *)
Renews(t) == task[t].kind \in {"refresh", "restore"}
Brings(t) == task[t].pc \in {"mem", "db"}

SessionOK ==
  /\ \A t, u \in Tasks : Renews(t) /\ Renews(u) => t = u
  /\ \A t \in Tasks :
       /\ task[t].pc \notin {"refused", "clear"}
       /\ task[t].pc = "send" => Renews(t)
       /\ task[t].pc = "send" \/ Brings(t) => task[t].tok \in valid
       /\ task[t].tok # 0 => task[t].tok # legacy
       /\ \A u \in Tasks : task[t].pc = "send" /\ Brings(u) => task[t].tok # task[u].tok
  /\ legacy \in valid \cup {0} /\ (db # 0 => db # legacy)
  /\ db \in valid \cup {0} \/ \E t \in Tasks : Renews(t) /\ Brings(t)
  /\ access # 0 => db # 0 \/ \E t \in Tasks : task[t].pc = "db"

LoginInv == LoginTypes /\ LogoutOK /\ (lossy \/ SessionOK)

(* The session before the first use.                                       *)
LEMMA LoginInvInit == LoginInit => LoginInv
<1> SUFFICES ASSUME LoginInit
             PROVE  LoginInv
  OBVIOUS
<1>1. \A t \in Tasks : task[t] = Idle
  BY DEF LoginInit
<1>2. LoginTypes
  BY <1>1 DEF LoginInit, LoginTypes, LoginTask, Idle
<1>3. LogoutOK /\ SessionOK
  BY <1>1 DEF LoginInit, LogoutOK, SessionOK, Busy, Renews, Brings, Idle
<1> QED
  BY <1>2, <1>3 DEF LoginInv

(* What a step does to the tasks: none changes, all end, or one becomes    *)
(* another.                                                                *)
TaskTurns(t, r) ==
  /\ r \in LoginTask /\ task'[t] = r
  /\ task' \in [Tasks -> LoginTask] /\ \A u \in Tasks : u # t => task'[u] = task[u]

(* The records that the actions give a task.                               *)
LEMMA TaskBecomes ==
  ASSUME LoginTypes, NEW t \in Tasks
  PROVE  /\ \A k \in {"background", "blocking"} :
              task' = [task EXCEPT ![t] = [kind |-> k, pc |-> "poll", tok |-> 0]]
                => TaskTurns(t, [kind |-> k, pc |-> "poll", tok |-> 0])
         /\ \A k \in {"refresh", "restore"}, n \in Nat :
              task' = [task EXCEPT ![t] = [kind |-> k, pc |-> "send", tok |-> n]]
                => TaskTurns(t, [kind |-> k, pc |-> "send", tok |-> n])
         /\ End(t) => TaskTurns(t, Idle)
         /\ \A n \in Nat : task' = [task EXCEPT ![t].pc = "mem", ![t].tok = n]
                => TaskTurns(t, [kind |-> task[t].kind, pc |-> "mem", tok |-> n])
         /\ \A p \in {"db", "refused", "clear"} : Be(t, p)
                => TaskTurns(t, [kind |-> task[t].kind, pc |-> p, tok |-> task[t].tok])
<1>1. task \in [Tasks -> LoginTask]
  BY DEF LoginTypes
<1>2. Idle \in LoginTask
  BY DEF Idle, LoginTask
<1>3. ASSUME NEW n \in Nat, task' = [task EXCEPT ![t].pc = "mem", ![t].tok = n]
      PROVE  TaskTurns(t, [kind |-> task[t].kind, pc |-> "mem", tok |-> n])
  <2> DEFINE r == [kind |-> task[t].kind, pc |-> "mem", tok |-> n]
             q == [task[t] EXCEPT !.pc = "mem"]
             s == [q EXCEPT !.tok = n]
  <2>1. r \in LoginTask /\ s = r
    <3>1. q = [kind |-> task[t].kind, pc |-> "mem", tok |-> task[t].tok]
      BY <1>1 DEF LoginTask
    <3> HIDE DEF q
    <3>2. s = r
      BY <3>1
    <3>3. r \in LoginTask
      BY <1>1 DEF LoginTask
    <3> QED
      BY <3>2, <3>3
  <2>2. task' = [task EXCEPT ![t] = s]
    BY <1>1, <1>3
  <2> HIDE DEF r, s
  <2>3. TaskTurns(t, r)
    BY <1>1, <2>1, <2>2 DEF TaskTurns
  <2> QED
    BY <2>3 DEF r
<1>4. ASSUME NEW p \in {"db", "refused", "clear"}, Be(t, p)
      PROVE  TaskTurns(t, [kind |-> task[t].kind, pc |-> p, tok |-> task[t].tok])
  <2> DEFINE r == [kind |-> task[t].kind, pc |-> p, tok |-> task[t].tok]
             s == [task[t] EXCEPT !.pc = p]
  <2>1. r \in LoginTask /\ s = r
    BY <1>1 DEF LoginTask
  <2>2. task' = [task EXCEPT ![t] = s]
    BY <1>1, <1>4 DEF Be
  <2> HIDE DEF r, s
  <2>3. TaskTurns(t, r)
    BY <1>1, <2>1, <2>2 DEF TaskTurns
  <2> QED
    BY <2>3 DEF r
<1>5. ASSUME NEW k \in {"background", "blocking"},
             task' = [task EXCEPT ![t] = [kind |-> k, pc |-> "poll", tok |-> 0]]
      PROVE  TaskTurns(t, [kind |-> k, pc |-> "poll", tok |-> 0])
  BY <1>1, <1>5 DEF TaskTurns, LoginTask
<1>6. ASSUME NEW k \in {"refresh", "restore"}, NEW n \in Nat,
             task' = [task EXCEPT ![t] = [kind |-> k, pc |-> "send", tok |-> n]]
      PROVE  TaskTurns(t, [kind |-> k, pc |-> "send", tok |-> n])
  BY <1>1, <1>6 DEF TaskTurns, LoginTask
<1>7. ASSUME End(t)
      PROVE  TaskTurns(t, Idle)
  BY <1>1, <1>2, <1>7 DEF TaskTurns, End
<1> QED
  BY <1>3, <1>4, <1>5, <1>6, <1>7

(* A step of the session: what it changes, told once for each action.      *)
Begins(t) == \E k \in {"background", "blocking"} :
  /\ task[t].pc = "idle"
  /\ TaskTurns(t, [kind |-> k, pc |-> "poll", tok |-> 0])
  /\ ~out' /\ late' = (late \/ leaving)
  /\ UNCHANGED <<valid, issued, access, db, legacy, leaving, lossy, rotates>>

Gets(t) ==
  /\ TaskTurns(t, [kind |-> task[t].kind, pc |-> "mem", tok |-> issued + 1])
  /\ issued' = issued + 1
  /\ UNCHANGED <<access, db, legacy, leaving, late, out, rotates>>

Authorizes(t) == task[t].pc = "poll" /\ Gets(t) /\ valid' = valid \cup {issued + 1} /\ UNCHANGED lossy

TaskAsks(t) == \E k \in {"refresh", "restore"}, n \in Nat :
  /\ task[t].pc = "idle" /\ n # 0
  /\ TaskTurns(t, [kind |-> k, pc |-> "send", tok |-> n])
  /\ lossy' = (lossy \/ Busy # {}) /\ late' = (late \/ leaving)
  /\ \/ n = db /\ UNCHANGED <<db, legacy>>
     \/ db = 0 /\ n = legacy /\ db' \in {legacy, 0} /\ legacy' = 0
  /\ UNCHANGED <<valid, issued, access, leaving, out, rotates>>

Renewed(t) ==
  /\ task[t].pc = "send" /\ Gets(t) /\ task[t].tok \in valid /\ UNCHANGED lossy
  /\ valid' = (IF rotates THEN valid \ {task[t].tok} ELSE valid) \cup {issued + 1}

AnswerLost(t) ==
  /\ task[t].pc = "send" /\ TaskTurns(t, Idle) /\ lossy' /\ issued' = issued + 1
  /\ valid' = (IF rotates THEN valid \ {task[t].tok} ELSE valid) \cup {issued + 1}
  /\ UNCHANGED <<access, db, legacy, leaving, late, out, rotates>>

GivesUp(t) ==
  /\ task[t].pc \in {"poll", "send", "refused"} /\ TaskTurns(t, Idle)
  /\ UNCHANGED <<valid, issued, access, db, legacy, leaving, late, out, lossy, rotates>>

IsRefused(t) ==
  /\ \/ /\ task[t].pc = "send" /\ task[t].tok \notin valid /\ UNCHANGED access
        /\ TaskTurns(t, [kind |-> task[t].kind, pc |-> "refused", tok |-> task[t].tok])
     \/ /\ task[t].pc = "refused" /\ access' = 0
        /\ TaskTurns(t, [kind |-> task[t].kind, pc |-> "clear", tok |-> task[t].tok])
  /\ UNCHANGED <<valid, issued, db, legacy, leaving, late, out, lossy, rotates>>

KeepsInMemory(t) ==
  /\ task[t].pc = "mem" /\ access' = task[t].tok
  /\ TaskTurns(t, [kind |-> task[t].kind, pc |-> "db", tok |-> task[t].tok])
  /\ UNCHANGED <<valid, issued, db, legacy, leaving, late, out, lossy, rotates>>

KeepsInDb(t) ==
  /\ TaskTurns(t, Idle)
  /\ \/ task[t].pc = "db" /\ db' = task[t].tok /\ UNCHANGED lossy
     \/ task[t].pc = "db" /\ db' = db /\ lossy'
     \/ task[t].pc = "clear" /\ db' = 0 /\ UNCHANGED lossy
  /\ UNCHANGED <<valid, issued, access, legacy, leaving, late, out, rotates>>

OfTask(t) ==
  \/ Begins(t) \/ Authorizes(t) \/ TaskAsks(t) \/ Renewed(t) \/ AnswerLost(t) \/ GivesUp(t)
  \/ IsRefused(t) \/ KeepsInMemory(t) \/ KeepsInDb(t)

OfNone == UNCHANGED <<valid, issued, access, db, legacy, task, leaving, late, out, lossy, rotates>>

(* Every action of a task is one of these effects.                         *)
LEMMA LoginEffect ==
  ASSUME LoginTypes, LoginNext
  PROVE  OfNone \/ Logout \/ LogoutDb \/ Restart \/ \E t \in Tasks : OfTask(t)
<1> USE DEF Store, Notes
<1>1. task \in [Tasks -> LoginTask] /\ issued \in Nat /\ db \in Nat /\ legacy \in Nat
  BY DEF LoginTypes
<1>2. CASE CancelLogin
  BY <1>2 DEF CancelLogin, OfNone
<1>3. ASSUME NEW t \in Tasks, NEW kind \in {"background", "blocking"}, BeginLogin(t, kind)
      PROVE  Begins(t)
  BY <1>3, TaskBecomes DEF BeginLogin, Begins
<1>4. ASSUME NEW t \in Tasks, PollBackground(t) \/ PollBlocking(t)
      PROVE  Authorizes(t) \/ GivesUp(t)
  <2>1. /\ task[t].pc = "poll" /\ UNCHANGED <<access, db, legacy, leaving, late, out, lossy>>
        /\ \/ End(t) /\ UNCHANGED <<valid, issued, rotates>>
           \/ Authorized(t)
    BY <1>4 DEF PollBackground, PollBlocking
  <2>2. CASE End(t) /\ UNCHANGED <<valid, issued, rotates>>
    BY <2>1, <2>2, TaskBecomes DEF GivesUp
  <2>3. CASE Authorized(t)
    <3>1. issued + 1 \in Nat
      BY <1>1
    <3> QED
      BY <2>1, <2>3, <3>1, TaskBecomes DEF Authorized, Authorizes, Gets
  <2> QED
    BY <2>1, <2>2, <2>3
<1>5. ASSUME NEW t \in Tasks, RefreshNearExpiry(t) \/ RefreshUnauthorized(t)
      PROVE  TaskAsks(t)
  <2>1. BeginRefresh(t)
    BY <1>5 DEF RefreshNearExpiry, RefreshUnauthorized
  <2>2. TaskTurns(t, [kind |-> "refresh", pc |-> "send", tok |-> db])
    BY <1>1, <2>1, TaskBecomes DEF BeginRefresh
  <2> QED
    BY <1>1, <2>1, <2>2 DEF BeginRefresh, TaskAsks
<1>6. ASSUME NEW t \in Tasks, BeginRestore(t)
      PROVE  TaskAsks(t) \/ OfNone
  <2>1. CASE db = 0 /\ legacy = 0 /\ UNCHANGED <<db, legacy, task, late, lossy>>
    BY <1>6, <2>1 DEF BeginRestore, OfNone
  <2>2. CASE /\ db # 0
             /\ task' = [task EXCEPT ![t] = [kind |-> "restore", pc |-> "send", tok |-> db]]
             /\ lossy' = (lossy \/ Busy # {}) /\ late' = (late \/ leaving)
             /\ UNCHANGED <<db, legacy>>
    <3>1. TaskTurns(t, [kind |-> "restore", pc |-> "send", tok |-> db])
      BY <1>1, <2>2, TaskBecomes
    <3> QED
      BY <1>1, <1>6, <2>2, <3>1 DEF BeginRestore, TaskAsks
  <2>3. CASE /\ db = 0 /\ legacy # 0
             /\ db' \in {legacy, 0} /\ legacy' = 0
             /\ task' = [task EXCEPT ![t] = [kind |-> "restore", pc |-> "send", tok |-> legacy]]
             /\ lossy' = (lossy \/ Busy # {}) /\ late' = (late \/ leaving)
    <3>1. TaskTurns(t, [kind |-> "restore", pc |-> "send", tok |-> legacy])
      BY <1>1, <2>3, TaskBecomes
    <3> QED
      BY <1>1, <1>6, <2>3, <3>1 DEF BeginRestore, TaskAsks
  <2> QED
    BY <1>6, <2>1, <2>2, <2>3 DEF BeginRestore
<1>7. ASSUME NEW t \in Tasks, Answer(t)
      PROVE  Renewed(t) \/ AnswerLost(t) \/ GivesUp(t) \/ IsRefused(t)
  <2>1. task[t].pc = "send" /\ UNCHANGED <<access, db, legacy, leaving, late, out>>
    BY <1>7 DEF Answer
  <2>2. CASE /\ task[t].tok \in valid /\ issued' = issued + 1 /\ UNCHANGED rotates
             /\ valid' = (IF rotates THEN valid \ {task[t].tok} ELSE valid) \cup {issued + 1}
             /\ \/ task' = [task EXCEPT ![t].pc = "mem", ![t].tok = issued + 1] /\ UNCHANGED lossy
                \/ End(t) /\ lossy' = TRUE
    <3>1. issued + 1 \in Nat
      BY <1>1
    <3>2. CASE task' = [task EXCEPT ![t].pc = "mem", ![t].tok = issued + 1] /\ UNCHANGED lossy
      BY <2>1, <2>2, <3>1, <3>2, TaskBecomes DEF Renewed, Gets
    <3>3. CASE End(t) /\ lossy' = TRUE
      BY <2>1, <2>2, <3>3, TaskBecomes DEF AnswerLost
    <3> QED
      BY <2>2, <3>2, <3>3
  <2>3. CASE task[t].tok \notin valid /\ Be(t, "refused") /\ UNCHANGED <<valid, issued, rotates, lossy>>
    BY <2>1, <2>3, TaskBecomes DEF IsRefused
  <2>4. CASE End(t) /\ UNCHANGED <<valid, issued, rotates, lossy>>
    BY <2>1, <2>4, TaskBecomes DEF GivesUp
  <2> QED
    BY <1>7, <2>2, <2>3, <2>4 DEF Answer
<1>8. ASSUME NEW t \in Tasks, StoreMem(t)
      PROVE  KeepsInMemory(t)
  BY <1>8, TaskBecomes DEF StoreMem, KeepsInMemory
<1>9. ASSUME NEW t \in Tasks, StoreDb(t) \/ RefusedClears(t)
      PROVE  KeepsInDb(t)
  BY <1>9, TaskBecomes DEF StoreDb, RefusedClears, KeepsInDb, Saves
<1>10. ASSUME NEW t \in Tasks, Refused(t)
       PROVE  GivesUp(t) \/ IsRefused(t)
  <2>1. task[t].pc = "refused" /\ UNCHANGED <<valid, issued, rotates, db, legacy, leaving, late, out, lossy>>
    BY <1>10 DEF Refused
  <2>2. CASE End(t) /\ UNCHANGED access
    BY <2>1, <2>2, TaskBecomes DEF GivesUp
  <2>3. CASE access' = 0 /\ Be(t, "clear")
    BY <2>1, <2>3, TaskBecomes DEF IsRefused
  <2> QED
    BY <1>10, <2>2, <2>3 DEF Refused
<1> QED
  BY <1>2, <1>3, <1>4, <1>5, <1>6, <1>7, <1>8, <1>9, <1>10 DEF LoginNext, OfTask

(* The types.                                                              *)
LEMMA LoginTypesStep ==
  ASSUME LoginTypes, OfNone \/ Logout \/ LogoutDb \/ Restart \/ \E t \in Tasks : OfTask(t)
  PROVE  LoginTypes'
<1> USE DEF Store, Notes
<1>1. /\ issued \in Nat /\ valid \subseteq 1..issued /\ rotates \in BOOLEAN
      /\ access \in Nat /\ db \in 0..issued /\ legacy \in 0..issued
      /\ task \in [Tasks -> LoginTask]
      /\ \A t \in Tasks : /\ task[t].tok <= issued /\ task[t].tok \in Nat
                          /\ task[t].pc = "idle" => task[t] = Idle
                          /\ task[t].pc \in {"send", "mem", "db"} => task[t].tok # 0
  BY DEF LoginTypes, LoginTask
<1>2. CASE OfNone
  BY <1>1, <1>2 DEF OfNone, LoginTypes
<1>3. CASE Logout
  BY <1>1, <1>3 DEF Logout, LoginTypes
<1>4. CASE LogoutDb
  BY <1>1, <1>4 DEF LogoutDb, CleansDb, LoginTypes
<1>5. CASE Restart
  <2>1. Idle \in LoginTask /\ Idle.tok = 0 /\ Idle.pc = "idle"
    BY DEF Idle, LoginTask
  <2>2. task' \in [Tasks -> LoginTask] /\ \A t \in Tasks : task'[t] = Idle
    BY <1>5, <2>1 DEF Restart
  <2>3. access' = 0 /\ UNCHANGED <<valid, issued, rotates, db, legacy>>
    BY <1>5 DEF Restart
  <2> QED
    BY <1>1, <2>1, <2>2, <2>3 DEF LoginTypes
<1>6. ASSUME NEW t \in Tasks, NEW r, TaskTurns(t, r), r.tok \in Nat, r.tok <= issued',
             r.pc = "idle" => r = Idle, r.pc \in {"send", "mem", "db"} => r.tok # 0,
             issued' \in {issued, issued + 1}, valid' \subseteq valid \cup 1..issued',
             access' \in Nat, db' \in 0..issued', legacy' \in 0..issued', rotates' = rotates
      PROVE  LoginTypes'
  <2>1. task' \in [Tasks -> LoginTask] /\ task'[t] = r /\ \A u \in Tasks : u # t => task'[u] = task[u]
    BY <1>6 DEF TaskTurns
  <2>2. issued' \in Nat /\ issued' >= issued
    BY <1>1, <1>6
  <2>3. valid' \subseteq 1..issued'
    BY <1>1, <1>6, <2>2
  <2>4. \A u \in Tasks : /\ task'[u].tok <= issued'
                         /\ task'[u].pc = "idle" => task'[u] = Idle
                         /\ task'[u].pc \in {"send", "mem", "db"} => task'[u].tok # 0
    BY <1>1, <1>6, <2>1, <2>2
  <2> QED
    BY <1>1, <1>6, <2>1, <2>2, <2>3, <2>4 DEF LoginTypes
<1>7. Idle.tok = 0 /\ Idle.pc = "idle"
  BY DEF Idle
<1>8. ASSUME NEW t \in Tasks, OfTask(t)
      PROVE  LoginTypes'
  <2>1. CASE Begins(t)
    <3>1. PICK k \in {"background", "blocking"} : TaskTurns(t, [kind |-> k, pc |-> "poll", tok |-> 0])
      BY <2>1 DEF Begins
    <3> QED
      BY <1>1, <1>6, <2>1, <3>1 DEF Begins
  <2>2. CASE Authorizes(t) \/ Renewed(t)
    <3>1. Gets(t) /\ valid' \subseteq valid \cup {issued + 1}
      BY <2>2 DEF Authorizes, Renewed
    <3> QED
      BY <1>1, <1>6, <3>1 DEF Gets
  <2>3. CASE TaskAsks(t)
    <3>1. PICK k \in {"refresh", "restore"}, n \in Nat :
            /\ n # 0 /\ TaskTurns(t, [kind |-> k, pc |-> "send", tok |-> n])
            /\ \/ n = db /\ UNCHANGED <<db, legacy>>
               \/ db = 0 /\ n = legacy /\ db' \in {legacy, 0} /\ legacy' = 0
      BY <2>3 DEF TaskAsks
    <3>2. UNCHANGED <<valid, issued, access, rotates>>
      BY <2>3 DEF TaskAsks
    <3> QED
      BY <1>1, <1>6, <3>1, <3>2
  <2>4. CASE AnswerLost(t)
    BY <1>1, <1>6, <1>7, <2>4 DEF AnswerLost
  <2>5. CASE GivesUp(t)
    BY <1>1, <1>6, <1>7, <2>5 DEF GivesUp
  <2>6. CASE IsRefused(t)
    BY <1>1, <1>6, <2>6 DEF IsRefused
  <2>7. CASE KeepsInMemory(t)
    BY <1>1, <1>6, <2>7 DEF KeepsInMemory
  <2>8. CASE KeepsInDb(t)
    BY <1>1, <1>6, <1>7, <2>8 DEF KeepsInDb
  <2> QED
    BY <1>8, <2>1, <2>2, <2>3, <2>4, <2>5, <2>6, <2>7, <2>8 DEF OfTask
<1> QED
  BY <1>2, <1>3, <1>4, <1>5, <1>8

(* A logout that nothing overlapped.                                       *)
LEMMA LogoutStep ==
  ASSUME LoginTypes, LogoutOK, OfNone \/ Logout \/ LogoutDb \/ Restart \/ \E t \in Tasks : OfTask(t)
  PROVE  LogoutOK'
<1> USE DEF Store, Notes
<1>1. CASE OfNone
  BY <1>1 DEF OfNone, LogoutOK, Busy
<1>2. CASE Logout
  <2>1. late' = (Busy # {} \/ legacy # 0) /\ access' = 0 /\ UNCHANGED <<legacy, task, out>> /\ ~out
    BY <1>2 DEF Logout
  <2>2. Busy' = Busy
    BY <2>1 DEF Busy
  <2>3. CASE late'
    BY <2>3 DEF LogoutOK
  <2>4. CASE ~late'
    <3>1. Busy = {} /\ legacy = 0
      BY <2>1, <2>4
    <3> QED
      BY <2>1, <2>2, <3>1 DEF LogoutOK
  <2> QED
    BY <2>3, <2>4
<1>3. CASE LogoutDb
  <2>1. /\ late' = (late \/ Busy # {}) /\ db' = 0 /\ leaving
        /\ UNCHANGED <<access, legacy, task>>
    BY <1>3 DEF LogoutDb, CleansDb
  <2>2. Busy' = Busy
    BY <2>1 DEF Busy
  <2> QED
    BY <2>1, <2>2 DEF LogoutOK
<1>4. CASE Restart
  <2>1. /\ access' = 0 /\ ~leaving' /\ UNCHANGED <<db, legacy, out, late>>
        /\ task' = [t \in Tasks |-> Idle]
    BY <1>4 DEF Restart
  <2>2. Busy' = {}
    BY <2>1 DEF Busy, Idle
  <2> QED
    BY <2>1, <2>2 DEF LogoutOK
<1>5. ASSUME NEW t \in Tasks, OfTask(t)
      PROVE  LogoutOK'
  <2>1. CASE Begins(t)
    <3>1. ~out' /\ (late' <=> late \/ leaving) /\ leaving' = leaving
      BY <2>1 DEF Begins
    <3> QED
      BY <3>1 DEF LogoutOK
  <2>2. CASE TaskAsks(t)
    <3>1. /\ (late' <=> late \/ leaving) /\ UNCHANGED <<leaving, out>>
          /\ db # 0 \/ legacy # 0
      BY <2>2 DEF TaskAsks
    <3>2. out => late
      BY <3>1 DEF LogoutOK
    <3> QED
      BY <3>1, <3>2 DEF LogoutOK
  <2>3. CASE ~Begins(t) /\ ~TaskAsks(t)
    <3>1. task[t].pc # "idle" /\ UNCHANGED <<late, leaving, out>>
      BY <1>5, <2>3 DEF OfTask, Authorizes, Gets, Renewed, AnswerLost, GivesUp, IsRefused, KeepsInMemory, KeepsInDb
    <3>2. Busy # {}
      BY <3>1 DEF Busy
    <3> QED
      BY <3>1, <3>2 DEF LogoutOK
  <2> QED
    BY <2>1, <2>2, <2>3
<1> QED
  BY <1>1, <1>2, <1>3, <1>4, <1>5

(* The session that nothing has cost.                                      *)
LEMMA SessionStep ==
  ASSUME LoginTypes, lossy \/ SessionOK, LogoutOK,
         OfNone \/ Logout \/ LogoutDb \/ Restart \/ \E t \in Tasks : OfTask(t)
  PROVE  lossy' \/ SessionOK'
<1> SUFFICES ASSUME ~lossy'
             PROVE  SessionOK'
  OBVIOUS
<1> USE DEF Store, Notes, Renews, Brings
<1>1. /\ issued \in Nat /\ valid \subseteq 1..issued /\ db \in 0..issued /\ legacy \in 0..issued
      /\ \A t \in Tasks : /\ task[t].tok <= issued /\ task[t].tok \in Nat
                          /\ task[t].pc = "idle" => task[t] = Idle
                          /\ task[t].pc \in {"send", "mem", "db"} => task[t].tok # 0
  BY DEF LoginTypes, LoginTask
<1>2. SessionOK
  <2>1. lossy => lossy'
    BY DEF OfNone, Logout, LogoutDb, Restart, OfTask, Begins, Authorizes, Gets, TaskAsks, Renewed, AnswerLost,
       GivesUp, IsRefused, KeepsInMemory, KeepsInDb
  <2> QED
    BY <2>1
<1>3. CASE OfNone
  BY <1>2, <1>3 DEF OfNone, SessionOK
<1>4. CASE Logout
  <2>1. access' = 0 /\ UNCHANGED <<valid, db, legacy, task>>
    BY <1>4 DEF Logout
  <2> QED
    BY <1>2, <2>1 DEF SessionOK
<1>5. CASE LogoutDb
  <2>1. ~late' /\ (late' <=> late \/ Busy # {}) /\ leaving /\ db' = 0 /\ UNCHANGED <<valid, access, legacy, task>>
    BY <1>5 DEF LogoutDb, CleansDb
  <2>2. access = 0
    BY <2>1 DEF LogoutOK
  <2> QED
    BY <1>2, <2>1, <2>2 DEF SessionOK
<1>6. CASE Restart
  <2>1. /\ access' = 0 /\ Busy = {} /\ UNCHANGED <<valid, db, legacy>>
        /\ task' = [t \in Tasks |-> Idle]
    BY <1>6 DEF Restart
  <2>2. \A t \in Tasks : task'[t] = Idle /\ task[t] = Idle
    BY <1>1, <2>1 DEF Busy
  <2>3. Idle.tok = 0 /\ Idle.kind = "none" /\ Idle.pc = "idle"
    BY DEF Idle
  <2> QED
    BY <1>2, <2>1, <2>2, <2>3 DEF SessionOK
<1>7. ASSUME NEW t \in Tasks, OfTask(t)
      PROVE  SessionOK'
  <2>1. CASE Begins(t)
    <3>1. PICK k \in {"background", "blocking"} : TaskTurns(t, [kind |-> k, pc |-> "poll", tok |-> 0])
      BY <2>1 DEF Begins
    <3>2. /\ task'[t].kind = k /\ task'[t].pc = "poll" /\ task'[t].tok = 0
          /\ \A u \in Tasks : u # t => task'[u] = task[u]
      BY <3>1 DEF TaskTurns
    <3>3. task[t].pc = "idle" /\ UNCHANGED <<valid, db, legacy, access>>
      BY <2>1 DEF Begins
    <3> QED
      BY <1>2, <3>2, <3>3 DEF SessionOK
  <2>2. CASE Authorizes(t)
    <3>1. /\ task[t].pc = "poll" /\ valid' = valid \cup {issued + 1} /\ UNCHANGED <<db, legacy, access>>
          /\ TaskTurns(t, [kind |-> task[t].kind, pc |-> "mem", tok |-> issued + 1])
      BY <2>2 DEF Authorizes, Gets
    <3>2. /\ task'[t].kind = task[t].kind /\ task'[t].pc = "mem" /\ task'[t].tok = issued + 1
          /\ \A u \in Tasks : u # t => task'[u] = task[u]
      BY <3>1 DEF TaskTurns
    <3>3. issued + 1 # legacy /\ \A u \in Tasks : task[u].tok # issued + 1
      BY <1>1
    <3> QED
      BY <1>2, <3>1, <3>2, <3>3 DEF SessionOK
  <2>3. CASE TaskAsks(t)
    <3>1. PICK k \in {"refresh", "restore"}, n \in Nat :
            /\ task[t].pc = "idle" /\ n # 0 /\ TaskTurns(t, [kind |-> k, pc |-> "send", tok |-> n])
            /\ \/ n = db /\ UNCHANGED <<db, legacy>>
               \/ db = 0 /\ n = legacy /\ db' \in {legacy, 0} /\ legacy' = 0
      BY <2>3 DEF TaskAsks
    <3>2. /\ task'[t].kind = k /\ task'[t].pc = "send" /\ task'[t].tok = n
          /\ \A u \in Tasks : u # t => task'[u] = task[u]
      BY <3>1 DEF TaskTurns
    <3>3. Busy = {} /\ UNCHANGED <<valid, access>>
      BY <2>3 DEF TaskAsks
    <3>4. \A u \in Tasks : task[u].pc = "idle" /\ task[u].kind = "none" /\ task[u].tok = 0
      BY <1>1, <3>3 DEF Busy, Idle
    <3>5. db \in valid \cup {0} /\ (access # 0 => db # 0)
      BY <1>2, <3>4 DEF SessionOK
    <3>6. n \in valid /\ n # legacy' /\ db' \in valid \cup {0} /\ (access # 0 => db' # 0)
          /\ (db' # 0 => db' # legacy') /\ legacy' \in valid \cup {0}
      BY <1>2, <3>1, <3>5 DEF SessionOK
    <3>7. \A u \in Tasks : u # t => task'[u].pc = "idle" /\ task'[u].kind = "none" /\ task'[u].tok = 0
      BY <3>2, <3>4
    <3> QED
      BY <3>2, <3>3, <3>6, <3>7 DEF SessionOK
  <2>4. CASE Renewed(t)
    <3>1. /\ task[t].pc = "send" /\ UNCHANGED <<db, legacy, access>>
          /\ TaskTurns(t, [kind |-> task[t].kind, pc |-> "mem", tok |-> issued + 1])
          /\ valid' = (IF rotates THEN valid \ {task[t].tok} ELSE valid) \cup {issued + 1}
      BY <2>4 DEF Renewed, Gets
    <3>2. /\ task'[t].kind = task[t].kind /\ task'[t].pc = "mem" /\ task'[t].tok = issued + 1
          /\ \A u \in Tasks : u # t => task'[u] = task[u]
      BY <3>1 DEF TaskTurns
    <3>3. issued + 1 # legacy /\ \A u \in Tasks : task[u].tok # issued + 1
      BY <1>1
    <3>4. \A x \in valid : x # task[t].tok => x \in valid'
      BY <3>1
    <3>5. task[t].tok # 0 /\ Renews(t)
      BY <1>1, <1>2, <3>1 DEF SessionOK
    <3>6. \A u \in Tasks : u # t => /\ task[u].pc # "send"
                                    /\ Brings(u) => task[u].tok \in valid'
      BY <1>2, <3>1, <3>4, <3>5 DEF SessionOK
    <3>7. legacy \in valid' \cup {0}
      BY <1>2, <3>4, <3>5 DEF SessionOK
    <3>8. issued + 1 \in valid'
      BY <3>1
    <3>9. access # 0 => db # 0 \/ \E u \in Tasks : task'[u].pc = "db"
      BY <1>2, <3>1, <3>2 DEF SessionOK
    <3> QED
      BY <1>2, <3>1, <3>2, <3>3, <3>5, <3>6, <3>7, <3>8, <3>9 DEF SessionOK
  <2>5. CASE AnswerLost(t)
    BY <2>5 DEF AnswerLost
  <2>6. CASE GivesUp(t)
    <3>1. task[t].pc \in {"poll", "send", "refused"} /\ TaskTurns(t, Idle) /\ UNCHANGED <<valid, db, legacy, access>>
      BY <2>6 DEF GivesUp
    <3>2. /\ task'[t].kind = "none" /\ task'[t].pc = "idle" /\ task'[t].tok = 0
          /\ \A u \in Tasks : u # t => task'[u] = task[u]
      BY <3>1 DEF TaskTurns, Idle
    <3> QED
      BY <1>2, <3>1, <3>2 DEF SessionOK
  <2>7. CASE IsRefused(t)
    BY <1>2, <2>7 DEF SessionOK, IsRefused
  <2>8. CASE KeepsInMemory(t)
    <3>1. /\ task[t].pc = "mem" /\ UNCHANGED <<valid, db, legacy>>
          /\ TaskTurns(t, [kind |-> task[t].kind, pc |-> "db", tok |-> task[t].tok])
      BY <2>8 DEF KeepsInMemory
    <3>2. /\ task'[t].kind = task[t].kind /\ task'[t].pc = "db" /\ task'[t].tok = task[t].tok
          /\ \A u \in Tasks : u # t => task'[u] = task[u]
      BY <3>1 DEF TaskTurns
    <3> QED
      BY <1>2, <3>1, <3>2 DEF SessionOK
  <2>9. CASE KeepsInDb(t)
    <3>1. /\ task[t].pc = "db" /\ db' = task[t].tok /\ TaskTurns(t, Idle) /\ UNCHANGED <<valid, legacy, access>>
      BY <1>2, <2>9 DEF KeepsInDb, SessionOK
    <3>2. /\ task'[t].kind = "none" /\ task'[t].pc = "idle" /\ task'[t].tok = 0
          /\ \A u \in Tasks : u # t => task'[u] = task[u]
      BY <3>1 DEF TaskTurns, Idle
    <3>3. db' \in valid /\ db' # 0 /\ db' # legacy
      BY <1>1, <1>2, <3>1 DEF SessionOK
    <3> QED
      BY <1>2, <3>1, <3>2, <3>3 DEF SessionOK
  <2> QED
    BY <1>7, <2>1, <2>2, <2>3, <2>4, <2>5, <2>6, <2>7, <2>8, <2>9 DEF OfTask
<1> QED
  BY <1>3, <1>4, <1>5, <1>6, <1>7

(* Every step of logins, refreshes, restores, logouts and restarts.        *)
LEMMA LoginInvStep == LoginInv /\ [LoginNext]_loginVars => LoginInv'
<1> SUFFICES ASSUME LoginInv, [LoginNext]_loginVars
             PROVE  LoginInv'
  OBVIOUS
<1>1. CASE LoginNext
  BY <1>1, LoginEffect, LoginTypesStep, LogoutStep, SessionStep DEF LoginInv
<1>2. CASE UNCHANGED loginVars
  BY <1>2 DEF loginVars, LoginInv, LoginTypes, LogoutOK, SessionOK, Busy, Renews, Brings
<1> QED
  BY <1>1, <1>2

(* The store session, for any tasks, tokens and restarts: a logout ends it,*)
(* and what keys.db holds renews it as long as nothing was lost or raced.  *)
THEOREM SessionIsSafe == LoginInit /\ [][LoginNext]_loginVars => []LoginSafe
<1>1. LoginInv => LoginSafe
  <2> SUFFICES ASSUME LoginInv
               PROVE  LoginSafe
    OBVIOUS
  <2>1. LogoutHolds
    BY DEF LoginInv, LogoutOK, LogoutHolds
  <2>2. SessionRestorable
    <3> SUFFICES ASSUME access # 0, Busy = {}, ~lossy
                 PROVE  db \in valid
      BY DEF SessionRestorable
    <3>1. \A t \in Tasks : task[t].pc = "idle"
      BY DEF Busy
    <3> QED
      BY <3>1 DEF LoginInv, SessionOK, Brings
  <2> QED
    BY <2>1, <2>2 DEF LoginSafe
<1> QED
  BY <1>1, LoginInvInit, LoginInvStep, PTL

-----------------------------------------------------------------------------
(* McpProxy                                                                *)

McpConn == [pc : {"none", "run", "term", "closed"}, port : McpPorts \cup {NoEntry}, gen : Nat,
            input : {"open", "ended", "gone"}]
McpEntry == Entries \cup {NoEntry}

McpTypes ==
  /\ conn \in [Clients -> McpConn] /\ gen \in [McpPorts -> Nat]
  /\ listening \in [McpPorts -> McpEntry] /\ wanted \in [McpPorts -> McpEntry]
  /\ conf.entry \in [McpPorts -> McpEntry]

(* Each listener is the file's, or about to be, or could not be bound.     *)
Follows ==
  up /\ ~changed => \A p \in McpPorts :
    /\ wanted[p] # NoEntry => wanted[p] = Desired[p]
    /\ \/ listening[p] = Desired[p] \/ p \in unbound
       \/ listening[p] = NoEntry /\ wanted[p] = Desired[p]

McpInv == McpTypes /\ Follows /\ OneCommand

(* The daemon as it starts.                                                *)
LEMMA McpInvInit == McpInit => McpInv
<1> SUFFICES ASSUME McpInit
             PROVE  McpInv
  OBVIOUS
<1>1. McpTypes
  BY DEF McpInit, McpTypes, NoEntries, NoSession, McpConn, McpEntry
<1>2. Follows /\ OneCommand
  BY DEF McpInit, Follows, OneCommand, Running, NoSession
<1> QED
  BY <1>1, <1>2 DEF McpInv

(* The types.                                                              *)
LEMMA McpTypesStep == McpTypes /\ McpNext => McpTypes'
<1> SUFFICES ASSUME McpTypes, McpNext
             PROVE  McpTypes'
  OBVIOUS
<1>1. /\ conn \in [Clients -> McpConn] /\ gen \in [McpPorts -> Nat]
      /\ listening \in [McpPorts -> McpEntry] /\ wanted \in [McpPorts -> McpEntry]
      /\ conf.entry \in [McpPorts -> McpEntry]
  BY DEF McpTypes
<1>2. NoEntries \in [McpPorts -> McpEntry] /\ NoSession \in McpConn
      /\ [NoSession EXCEPT !.pc = "closed"] \in McpConn
  BY DEF NoEntries, McpEntry, NoSession, McpConn
<1>3. Desired \in [McpPorts -> McpEntry]
  BY <1>1, <1>2 DEF Desired
<1>4. CASE Reload
  <2>1. UNCHANGED <<conn, gen, conf>> /\ listening' \in [McpPorts -> McpEntry]
    BY <1>1, <1>4 DEF Reload, McpEntry
  <2>2. wanted' \in [McpPorts -> McpEntry]
    BY <1>3, <1>4 DEF Reload, McpEntry
  <2> QED
    BY <1>1, <2>1, <2>2 DEF McpTypes
<1>5. CASE Shutdown
  <2>1. UNCHANGED <<conf, wanted>> /\ listening' = NoEntries /\ gen' \in [McpPorts -> Nat]
        /\ conn' \in [Clients -> McpConn]
    BY <1>2, <1>5 DEF Shutdown
  <2> QED
    BY <1>1, <1>2, <2>1 DEF McpTypes
<1>6. CASE Startup
  BY <1>1, <1>6 DEF Startup, McpTypes
<1>7. ASSUME NEW e \in [McpPorts -> Entries \cup {NoEntry}], NEW ok \in BOOLEAN, WriteConf(e, ok)
      PROVE  McpTypes'
  <2>1. conf'.entry = (IF ok THEN e ELSE NoEntries) /\ UNCHANGED <<conn, gen, listening, wanted>>
    BY <1>7 DEF WriteConf
  <2> QED
    BY <1>1, <1>2, <2>1 DEF McpTypes, McpEntry
<1>8. ASSUME NEW p \in McpPorts, StartServer(p)
      PROVE  McpTypes'
  <2>1. wanted' \in [McpPorts -> McpEntry] /\ UNCHANGED <<conf, conn>>
    BY <1>1, <1>8 DEF StartServer, McpEntry
  <2>2. listening' \in [McpPorts -> McpEntry] /\ gen' \in [McpPorts -> Nat]
    BY <1>1, <1>8 DEF StartServer
  <2> QED
    BY <1>1, <2>1, <2>2 DEF McpTypes
<1>9. ASSUME NEW p \in McpPorts, DropOld(p)
      PROVE  McpTypes'
  BY <1>1, <1>9 DEF DropOld, McpTypes
<1>10. ASSUME NEW c \in Clients, NEW r \in McpConn, conn' = [conn EXCEPT ![c] = r],
              UNCHANGED <<conf, wanted, listening, gen>>
       PROVE  McpTypes'
  BY <1>1, <1>10 DEF McpTypes
<1>11. ASSUME NEW p \in McpPorts, NEW c \in Clients, AcceptConn(c, p)
       PROVE  McpTypes'
  <2> DEFINE r == [NoSession EXCEPT !.pc = IF LockFree(p) THEN "run" ELSE "closed", !.port = p, !.gen = gen[p]]
  <2>1. conn' = [conn EXCEPT ![c] = r] /\ UNCHANGED <<conf, wanted, listening, gen>>
    BY <1>11 DEF AcceptConn
  <2>2. r \in McpConn
    BY <1>1 DEF NoSession, McpConn
  <2> HIDE DEF r
  <2> QED
    BY <1>10, <2>1, <2>2
<1>12. ASSUME NEW c \in Clients, BridgeInputEnds(c) \/ BridgeGoes(c) \/ Terminate(c) \/ Closed(c)
                                 \/ \E server \in BOOLEAN : Ends(c, server)
       PROVE  McpTypes'
  <2>1. UNCHANGED <<conf, wanted, listening, gen>>
    BY <1>12 DEF BridgeInputEnds, BridgeGoes, Terminate, Closed, Ends
  <2>2. /\ [conn[c] EXCEPT !.input = "ended"] \in McpConn /\ [conn[c] EXCEPT !.input = "gone"] \in McpConn
        /\ [conn[c] EXCEPT !.pc = "term"] \in McpConn
    BY <1>1 DEF McpConn
  <2>3. \E r \in McpConn : conn' = [conn EXCEPT ![c] = r]
    <3>1. CASE BridgeInputEnds(c)
      BY <2>2, <3>1 DEF BridgeInputEnds
    <3>2. CASE BridgeGoes(c)
      BY <2>2, <3>2 DEF BridgeGoes
    <3>3. CASE Terminate(c) \/ Closed(c)
      BY <1>2, <3>3 DEF Terminate, Closed
    <3>4. CASE \E server \in BOOLEAN : Ends(c, server)
      BY <2>2, <3>4 DEF Ends
    <3> QED
      BY <1>12, <3>1, <3>2, <3>3, <3>4
  <2> QED
    BY <1>10, <2>1, <2>3
<1> QED
  BY <1>4, <1>5, <1>6, <1>7, <1>8, <1>9, <1>11, <1>12 DEF McpNext

(* The listeners, through writes of the file and reloads.                  *)
LEMMA FollowsStep == McpTypes /\ Follows /\ McpNext => Follows'
<1> SUFFICES ASSUME McpTypes, Follows, McpNext, up', ~changed'
             PROVE  \A p \in McpPorts :
                      /\ wanted'[p] # NoEntry => wanted'[p] = Desired'[p]
                      /\ \/ listening'[p] = Desired'[p] \/ p \in unbound'
                         \/ listening'[p] = NoEntry /\ wanted'[p] = Desired'[p]
  BY DEF Follows
<1>1. listening \in [McpPorts -> McpEntry] /\ wanted \in [McpPorts -> McpEntry]
  BY DEF McpTypes
<1>2. CASE Reload
  <2>1. conf' = conf
    BY <1>2 DEF Reload
  <2>2. Desired' = Desired
    BY <2>1 DEF Desired
  <2>3. \A p \in McpPorts :
          /\ listening'[p] = IF listening[p] # NoEntry /\ ~Keeps(p) THEN NoEntry ELSE listening[p]
          /\ wanted'[p] = IF listening'[p] = NoEntry THEN Desired[p] ELSE NoEntry
    BY <1>2 DEF Reload
  <2> QED
    BY <2>2, <2>3 DEF Keeps
<1>3. ASSUME NEW q \in McpPorts, StartServer(q)
      PROVE  \A p \in McpPorts :
                      /\ wanted'[p] # NoEntry => wanted'[p] = Desired'[p]
                      /\ \/ listening'[p] = Desired'[p] \/ p \in unbound'
                         \/ listening'[p] = NoEntry /\ wanted'[p] = Desired'[p]
  <2>1. UNCHANGED <<conf, changed, up>> /\ wanted[q] # NoEntry /\ wanted' = [wanted EXCEPT ![q] = NoEntry]
        /\ \/ unbound' = unbound \cup {q} /\ listening' = listening
           \/ unbound' = unbound /\ listening' = [listening EXCEPT ![q] = wanted[q]]
    BY <1>3 DEF StartServer
  <2>2. Desired' = Desired
    BY <2>1 DEF Desired
  <2> QED
    BY <1>1, <2>1, <2>2 DEF Follows
<1>4. CASE ~Reload /\ ~\E q \in McpPorts : StartServer(q)
  <2>1. UNCHANGED <<conf, wanted, listening, unbound, up, changed>>
    BY <1>4 DEF McpNext, Shutdown, Startup, WriteConf, DropOld, AcceptConn, BridgeInputEnds, BridgeGoes,
       Terminate, Closed, Ends
  <2> QED
    BY <2>1 DEF Follows, Desired
<1> QED
  BY <1>2, <1>3, <1>4

(* The commands, through connections that come and go.                     *)
LEMMA OneCommandStep == McpTypes /\ OneCommand /\ McpNext => OneCommand'
<1> SUFFICES ASSUME McpTypes, OneCommand, McpNext
             PROVE  OneCommand'
  OBVIOUS
<1>1. conn \in [Clients -> McpConn]
  BY DEF McpTypes
<1>2. ASSUME NEW p \in McpPorts, NEW c \in Clients, AcceptConn(c, p)
      PROVE  OneCommand'
  <2> DEFINE r == [NoSession EXCEPT !.pc = IF LockFree(p) THEN "run" ELSE "closed", !.port = p, !.gen = gen[p]]
  <2>1. conn' = [conn EXCEPT ![c] = r]
    BY <1>2 DEF AcceptConn
  <2>2. r.pc = (IF LockFree(p) THEN "run" ELSE "closed") /\ r.port = p /\ r.gen = gen[p]
    BY DEF NoSession
  <2> HIDE DEF r
  <2>3. conn'[c] = r /\ \A d \in Clients : d # c => conn'[d] = conn[d]
    BY <1>1, <2>1
  <2>4. LockFree(p) => \A d \in Clients : Running(d) /\ conn[d].port = p => conn[d].gen # gen[p]
    BY DEF LockFree, Running
  <2> QED
    BY <2>2, <2>3, <2>4 DEF OneCommand, Running
<1>3. CASE Shutdown
  BY <1>3 DEF Shutdown, OneCommand, Running, NoSession
<1>4. CASE ~Shutdown /\ ~\E p \in McpPorts, c \in Clients : AcceptConn(c, p)
  <2>1. \A d \in Clients : Running(d)' => Running(d) /\ conn'[d].port = conn[d].port /\ conn'[d].gen = conn[d].gen
    <3>1. CASE UNCHANGED conn
      BY <3>1 DEF Running
    <3>2. ASSUME NEW c \in Clients, BridgeInputEnds(c) \/ BridgeGoes(c) \/ \E server \in BOOLEAN : Ends(c, server)
          PROVE  \A d \in Clients : Running(d)' => Running(d) /\ conn'[d].port = conn[d].port /\ conn'[d].gen = conn[d].gen
      <4>1. CASE BridgeInputEnds(c)
        BY <1>1, <4>1 DEF BridgeInputEnds, Running, McpConn
      <4>2. CASE BridgeGoes(c)
        BY <1>1, <4>2 DEF BridgeGoes, Running, McpConn
      <4>3. CASE \E server \in BOOLEAN : Ends(c, server)
        BY <1>1, <4>3 DEF Ends, Running, McpConn
      <4> QED
        BY <3>2, <4>1, <4>2, <4>3
    <3>3. ASSUME NEW c \in Clients, Terminate(c) \/ Closed(c)
          PROVE  \A d \in Clients : Running(d)' => Running(d) /\ conn'[d].port = conn[d].port /\ conn'[d].gen = conn[d].gen
      <4>1. \A d \in Clients : conn'[d] = IF d = c THEN (IF Terminate(c) THEN [NoSession EXCEPT !.pc = "closed"]
                                                         ELSE NoSession) ELSE conn[d]
        BY <1>1, <3>3 DEF Terminate, Closed
      <4>2. conn'[c].pc \in {"closed", "none"}
        BY <4>1 DEF NoSession
      <4> QED
        BY <4>1, <4>2 DEF Running
    <3> QED
      BY <1>4, <3>1, <3>2, <3>3 DEF McpNext, Reload, Startup, WriteConf, StartServer, DropOld
  <2> QED
    BY <2>1 DEF OneCommand
<1> QED
  BY <1>2, <1>3, <1>4

(* The MCP servers of a VM, for any ports, clients and writes of the file: *)
(* the listeners are the configuration's, and each runs one command.       *)
THEOREM ServersAreSafe == McpInit /\ [][McpNext]_mcpVars => []McpSafe
<1>1. McpInv => McpSafe
  <2> SUFFICES ASSUME McpInv
               PROVE  McpSafe
    OBVIOUS
  <2>1. ~Reloading => \A p \in McpPorts : wanted[p] = NoEntry
    BY DEF Reloading, NoEntries
  <2>2. ServesConf
    BY <2>1 DEF McpInv, Follows, ServesConf
  <2> QED
    BY <2>2 DEF McpInv, McpSafe
<1>2. McpInv /\ [McpNext]_mcpVars => McpInv'
  <2> SUFFICES ASSUME McpInv, [McpNext]_mcpVars
               PROVE  McpInv'
    OBVIOUS
  <2>1. CASE McpNext
    BY <2>1, McpTypesStep, FollowsStep, OneCommandStep DEF McpInv
  <2>2. CASE UNCHANGED mcpVars
    BY <2>2 DEF mcpVars, McpInv, McpTypes, Follows, Desired, OneCommand, Running
  <2> QED
    BY <2>1, <2>2
<1> QED
  BY <1>1, <1>2, McpInvInit, PTL

-----------------------------------------------------------------------------
(* VmSettings                                                              *)

OfField(f, v) == IF f = "description" THEN v \subseteq Tags ELSE v \in 0 .. MaxValue

(* A row with one field replaced.                                          *)
LEMMA RowWith ==
  ASSUME NEW r \in Rows, NEW f \in Fields, NEW v, OfField(f, v)
  PROVE  LET q == [r EXCEPT ![f] = v] IN
         /\ q \in Rows /\ q.default = r.default
         /\ q[f] = v /\ \A g \in Fields : g # f => q[g] = r[g]
<1> DEFINE q == [r EXCEPT ![f] = v]
<1>1. CASE f = "memory"
  <2>1. q = [r EXCEPT !.memory = v] /\ v \in 0 .. MaxValue
    BY <1>1 DEF OfField
  <2> QED
    BY <1>1, <2>1 DEF Rows, Fields, Config
<1>2. CASE f = "cpus"
  <2>1. q = [r EXCEPT !.cpus = v] /\ v \in 0 .. MaxValue
    BY <1>2 DEF OfField
  <2> QED
    BY <1>2, <2>1 DEF Rows, Fields, Config
<1>3. CASE f = "name"
  <2>1. q = [r EXCEPT !.name = v] /\ v \in 0 .. MaxValue
    BY <1>3 DEF OfField
  <2> QED
    BY <1>3, <2>1 DEF Rows, Fields, Config
<1>4. CASE f = "description"
  <2>1. q = [r EXCEPT !.description = v] /\ v \subseteq Tags
    BY <1>4 DEF OfField
  <2> QED
    BY <1>4, <2>1 DEF Rows, Fields, Config
<1> QED
  BY <1>1, <1>2, <1>3, <1>4 DEF Fields, Config

(* The fields of a row.                                                    *)
LEMMA RowFields ==
  ASSUME NEW r \in Rows
  PROVE  /\ \A f \in Fields : OfField(f, r[f])
         /\ r["description"] = r.description /\ r.default \in BOOLEAN
BY DEF Rows, Fields, Config, OfField

Values == 0 .. MaxValue \cup SUBSET Tags
Begun == [pc : {"get"}, field : Fields, value : Values]
Read == [pc : {"update", "show", "create"}, field : Fields, value : Values, read : Rows]

SettingsTypes ==
  /\ row \in Rows
  /\ shown = [f \in Fields |-> shown[f]] /\ \A f \in Fields : OfField(f, shown[f])
  /\ platform \in [Config -> 0 .. MaxValue]
  /\ booted = NotBooted \/ booted \in [Config -> 0 .. MaxValue]
  /\ editor \in [Editors -> {NoEditing} \cup Begun \cup Read]
  /\ \A e \in Editors : editor[e] # NoEditing => OfField(editor[e].field, editor[e].value)

ShownIs == \A g \in Fields : shown[g] = row[g]
PlatformIs == \A g \in Config : platform[g] = row[g]
BootedIs == booted = NotBooted \/ \A g \in Config : booted[g] = row[g]

(* How far the one edit has come: what it read is the row, then the row is *)
(* what it wrote, then the field is shown too.                             *)
Along(r) ==
  /\ IF r.field \in Config THEN booted = NotBooted ELSE BootedIs
  /\ r.pc \in {"get", "update"} => ShownIs /\ PlatformIs
  /\ r.pc = "update" => \A g \in Fields : r.read[g] = row[g]
  /\ r.pc = "show" => /\ \A g \in Fields : g # r.field => shown[g] = row[g]
                      /\ \A g \in Config : g # r.field => platform[g] = row[g]
  /\ r.pc \in {"show", "create"} => /\ row[r.field] = r.value
                                    /\ \A g \in Fields : g # r.field => r.read[g] = row[g]
  /\ r.pc = "create" => ShownIs /\ r.field \in Config

OneEdit ==
  /\ \A e, f \in ActiveEdits : e = f
  /\ ActiveEdits = {} => ShownIs /\ PlatformIs /\ BootedIs
  /\ \A e \in ActiveEdits : Along(editor[e])

DefaultKept ==
  moved => ~row.default /\ \A e \in Editors : editor[e] \in Read => ~editor[e].read.default

SettingsInv == SettingsTypes /\ (overlap \/ OneEdit) /\ DefaultKept

(* The three kinds of an editor.                                           *)
LEMMA EditorKinds ==
  ASSUME SettingsTypes, NEW e \in Editors
  PROVE  /\ editor[e] = NoEditing \/ editor[e] \in Begun \/ editor[e] \in Read
         /\ editor[e] = NoEditing <=> editor[e].pc = "idle"
         /\ editor[e] \in Begun <=> editor[e].pc = "get"
         /\ editor[e] \in Read <=> editor[e].pc \in {"update", "show", "create"}
         /\ e \in ActiveEdits <=> editor[e] # NoEditing
<1>1. editor[e] = NoEditing \/ editor[e] \in Begun \/ editor[e] \in Read
  BY DEF SettingsTypes
<1>2. editor[e] = NoEditing => editor[e].pc = "idle"
  BY DEF NoEditing
<1>3. editor[e] \in Begun => editor[e].pc = "get"
  BY DEF Begun
<1>4. editor[e] \in Read => editor[e].pc \in {"update", "show", "create"}
  BY DEF Read
<1> QED
  BY <1>1, <1>2, <1>3, <1>4 DEF ActiveEdits

(* A VM as it is created.                                                  *)
LEMMA SettingsInvInit == SettingsInit => SettingsInv
<1> SUFFICES ASSUME SettingsInit
             PROVE  SettingsInv
  OBVIOUS
<1>1. row \in Rows
  BY SettingsAssumption DEF SettingsInit, Rows
<1>2. \A f \in Fields : OfField(f, row[f])
  BY <1>1, RowFields
<1>3. shown = [f \in Fields |-> row[f]] /\ platform = [f \in Config |-> row[f]]
  BY DEF SettingsInit, ShownOf, ConfigOf
<1>4. shown = [f \in Fields |-> shown[f]] /\ ShownIs /\ PlatformIs
  BY <1>3 DEF ShownIs, PlatformIs
<1>5. platform \in [Config -> 0 .. MaxValue]
  BY <1>2, <1>3 DEF Config, Fields, OfField
<1>6. booted = NotBooted /\ \A e \in Editors : editor[e] = NoEditing
  BY DEF SettingsInit
<1>7. editor \in [Editors -> {NoEditing} \cup Begun \cup Read]
  BY DEF SettingsInit
<1>8. SettingsTypes
  BY <1>1, <1>2, <1>4, <1>5, <1>6, <1>7 DEF SettingsTypes, ShownIs
<1>9. ActiveEdits = {}
  BY <1>6 DEF ActiveEdits, NoEditing
<1> QED
  BY <1>4, <1>6, <1>8, <1>9 DEF SettingsInv, OneEdit, BootedIs, DefaultKept, SettingsInit

(* One editor's record becomes another.                                    *)
Turns(e, q) ==
  /\ editor' = [editor EXCEPT ![e] = q]
  /\ q = NoEditing \/ (q \in Begun \cup Read /\ OfField(q.field, q.value))

(* The other editors stay, and the set of active ones follows.             *)
LEMMA TurnsTypes ==
  ASSUME SettingsTypes, NEW e \in Editors, NEW q, Turns(e, q)
  PROVE  /\ editor' \in [Editors -> {NoEditing} \cup Begun \cup Read]
         /\ \A f \in Editors : editor'[f] # NoEditing => OfField(editor'[f].field, editor'[f].value)
         /\ editor'[e] = q /\ \A f \in Editors : f # e => editor'[f] = editor[f]
         /\ ActiveEdits' = IF q = NoEditing THEN ActiveEdits \ {e} ELSE ActiveEdits \cup {e}
<1>1. editor' \in [Editors -> {NoEditing} \cup Begun \cup Read]
  BY DEF SettingsTypes, Turns
<1>2. editor'[e] = q /\ \A f \in Editors : f # e => editor'[f] = editor[f]
  BY DEF SettingsTypes, Turns
<1>3. q = NoEditing <=> q.pc = "idle"
  BY DEF Turns, NoEditing, Begun, Read
<1>4. ActiveEdits' = IF q = NoEditing THEN ActiveEdits \ {e} ELSE ActiveEdits \cup {e}
  BY <1>2, <1>3 DEF ActiveEdits
<1> QED
  BY <1>1, <1>2, <1>4 DEF SettingsTypes, Turns

(* An edit begins.                                                         *)
LEMMA BeginKeeps ==
  ASSUME SettingsInv, NEW e \in Editors, NEW f \in Fields, NEW v, OfField(f, v), BeginEdit(e, f, v)
  PROVE  SettingsInv'
<1> DEFINE q == [pc |-> "get", field |-> f, value |-> v]
<1>1. q \in Begun /\ q.field = f /\ q.value = v /\ q.pc = "get" /\ q \notin Read
  BY DEF Begun, Read, OfField, Values
<1>2. editor' = [editor EXCEPT ![e] = q]
  BY DEF BeginEdit
<1> HIDE DEF q
<1>3. q # NoEditing
  BY <1>1 DEF NoEditing, Begun
<1>4. SettingsTypes /\ Turns(e, q)
  BY <1>1, <1>2 DEF Turns, SettingsInv
<1>5. /\ editor' \in [Editors -> {NoEditing} \cup Begun \cup Read]
      /\ \A g \in Editors : editor'[g] # NoEditing => OfField(editor'[g].field, editor'[g].value)
      /\ editor'[e] = q /\ \A g \in Editors : g # e => editor'[g] = editor[g]
      /\ ActiveEdits' = ActiveEdits \cup {e}
  BY <1>3, <1>4, TurnsTypes
<1>6. UNCHANGED <<row, shown, platform, booted, moved>>
  BY DEF BeginEdit
<1>7. SettingsTypes'
  BY <1>4, <1>5, <1>6 DEF SettingsTypes
<1>8. DefaultKept'
  BY <1>1, <1>5, <1>6 DEF SettingsInv, DefaultKept
<1>9. overlap' \/ OneEdit'
  <2> SUFFICES ASSUME ~overlap'
               PROVE  OneEdit'
    OBVIOUS
  <2>1. ActiveEdits = {} /\ OneEdit
    BY DEF BeginEdit, SettingsInv
  <2>2. ShownIs /\ PlatformIs /\ BootedIs /\ (f \in Config => booted = NotBooted)
    BY <2>1 DEF OneEdit, BeginEdit
  <2>3. ActiveEdits' = {e}
    BY <1>5, <2>1
  <2>4. Along(q)'
    BY <1>1, <1>6, <2>2 DEF Along, ShownIs, PlatformIs, BootedIs, q
  <2> QED
    BY <1>5, <2>3, <2>4 DEF OneEdit, Along
<1> QED
  BY <1>7, <1>8, <1>9 DEF SettingsInv

(* The whole row is read.                                                  *)
LEMMA GetKeeps ==
  ASSUME SettingsInv, NEW e \in Editors, GetRow(e)
  PROVE  SettingsInv'
<1>0. SettingsTypes /\ editor[e] \in Begun /\ e \in ActiveEdits /\ row \in Rows
      /\ editor[e] # NoEditing
  BY EditorKinds DEF SettingsInv, GetRow, SettingsTypes, NoEditing
<1> DEFINE q == [pc |-> "update", field |-> editor[e].field, value |-> editor[e].value, read |-> row]
<1>1. q \in Read /\ q.pc = "update" /\ q.field = editor[e].field /\ q.value = editor[e].value /\ q.read = row
  BY <1>0 DEF Begun, Read
<1>2. editor' = [editor EXCEPT ![e] = q]
  BY DEF GetRow
<1> HIDE DEF q
<1>3. q # NoEditing
  BY <1>1 DEF NoEditing
<1>4. OfField(q.field, q.value)
  BY <1>0, <1>1 DEF SettingsTypes
<1>5. /\ editor' \in [Editors -> {NoEditing} \cup Begun \cup Read]
      /\ \A g \in Editors : editor'[g] # NoEditing => OfField(editor'[g].field, editor'[g].value)
      /\ editor'[e] = q /\ \A g \in Editors : g # e => editor'[g] = editor[g]
      /\ ActiveEdits' = ActiveEdits \cup {e}
  BY <1>0, <1>1, <1>2, <1>3, <1>4, TurnsTypes DEF Turns
<1>6. UNCHANGED <<row, shown, platform, booted, overlap, moved>>
  BY DEF GetRow
<1>7. SettingsTypes'
  BY <1>0, <1>5, <1>6 DEF SettingsTypes
<1>8. DefaultKept'
  BY <1>1, <1>5, <1>6 DEF SettingsInv, DefaultKept
<1>9. ASSUME ~overlap
      PROVE  OneEdit'
  <2>1. ActiveEdits = {e} /\ Along(editor[e])
    BY <1>0, <1>9 DEF SettingsInv, OneEdit
  <2>2. editor[e].pc = "get"
    BY DEF GetRow
  <2>3. Along(editor[e])'
    BY <1>1, <1>5, <1>6, <2>1, <2>2 DEF Along, ShownIs, PlatformIs, BootedIs
  <2> QED
    BY <1>5, <2>1, <2>3 DEF OneEdit
<1> QED
  BY <1>6, <1>7, <1>8, <1>9 DEF SettingsInv

(* What an edit writes.                                                    *)
LEMMA EditedIs ==
  ASSUME SettingsTypes, NEW e \in Editors, editor[e] \in Read
  PROVE  /\ Edited(e) \in Rows /\ Edited(e).default = editor[e].read.default
         /\ Edited(e)[editor[e].field] = editor[e].value
         /\ \A g \in Fields : g # editor[e].field => Edited(e)[g] = editor[e].read[g]
<1>1. editor[e] # NoEditing /\ editor[e].read \in Rows /\ editor[e].field \in Fields
  BY DEF Read, NoEditing
<1>2. OfField(editor[e].field, editor[e].value)
  BY <1>1 DEF SettingsTypes
<1> QED
  BY <1>1, <1>2, RowWith DEF Edited

(* The row is written.                                                     *)
LEMMA UpdateKeeps ==
  ASSUME SettingsInv, NEW e \in Editors, UpdateRow(e)
  PROVE  SettingsInv'
<1>0. SettingsTypes /\ editor[e] \in Read /\ e \in ActiveEdits /\ editor[e] # NoEditing
  BY EditorKinds DEF SettingsInv, UpdateRow, NoEditing
<1> DEFINE q == [editor[e] EXCEPT !.pc = "show"]
<1>1. /\ q \in Read /\ q.pc = "show" /\ q.field = editor[e].field /\ q.value = editor[e].value
      /\ q.read = editor[e].read
  BY <1>0 DEF Read
<1>2. editor' = [editor EXCEPT ![e] = q]
  BY DEF UpdateRow
<1> HIDE DEF q
<1>3. q # NoEditing
  BY <1>1 DEF NoEditing
<1>4. OfField(q.field, q.value)
  BY <1>0, <1>1 DEF SettingsTypes
<1>5. /\ editor' \in [Editors -> {NoEditing} \cup Begun \cup Read]
      /\ \A g \in Editors : editor'[g] # NoEditing => OfField(editor'[g].field, editor'[g].value)
      /\ editor'[e] = q /\ \A g \in Editors : g # e => editor'[g] = editor[g]
      /\ ActiveEdits' = ActiveEdits \cup {e}
  BY <1>0, <1>1, <1>2, <1>3, <1>4, TurnsTypes DEF Turns
<1>6. UNCHANGED <<shown, platform, booted, overlap, moved>> /\ row' = Edited(e)
  BY DEF UpdateRow, RowWritten
<1>7. SettingsTypes'
  BY <1>0, <1>5, <1>6, EditedIs DEF SettingsTypes
<1>8. DefaultKept'
  BY <1>0, <1>1, <1>5, <1>6, EditedIs DEF SettingsInv, DefaultKept
<1>9. ASSUME ~overlap
      PROVE  OneEdit'
  <2>1. ActiveEdits = {e} /\ Along(editor[e])
    BY <1>0, <1>9 DEF SettingsInv, OneEdit
  <2>2. editor[e].pc = "update" /\ editor[e].field \in Fields
    BY <1>0 DEF UpdateRow, Read
  <2>3. \A g \in Fields : g # q.field => row'[g] = row[g]
    BY <1>0, <1>1, <1>6, <2>1, <2>2, EditedIs DEF Along
  <2>4. row'[q.field] = q.value
    BY <1>0, <1>1, <1>6, EditedIs
  <2>5. IF q.field \in Config THEN booted = NotBooted ELSE BootedIs'
    <3>1. Config \subseteq Fields
      BY DEF Fields
    <3> QED
      BY <1>1, <1>6, <2>1, <2>3, <3>1 DEF Along, BootedIs
  <2>6. \A g \in Fields : g # q.field => shown[g] = row'[g]
    BY <1>1, <2>1, <2>2, <2>3 DEF Along, ShownIs
  <2>7. \A g \in Config : g # q.field => platform[g] = row'[g]
    BY <1>1, <2>1, <2>2, <2>3 DEF Along, PlatformIs, Fields
  <2>8. \A g \in Fields : g # q.field => q.read[g] = row'[g]
    BY <1>0, <1>1, <1>6, EditedIs
  <2>9. Along(editor[e])'
    BY <1>1, <1>5, <1>6, <2>4, <2>5, <2>6, <2>7, <2>8 DEF Along
  <2> QED
    BY <1>5, <2>1, <2>9 DEF OneEdit
<1> QED
  BY <1>6, <1>7, <1>8, <1>9 DEF SettingsInv

(* The field is shown.                                                     *)
LEMMA ShowKeeps ==
  ASSUME SettingsInv, NEW e \in Editors, ShowField(e)
  PROVE  SettingsInv'
<1>0. SettingsTypes /\ editor[e] \in Read /\ e \in ActiveEdits /\ editor[e] # NoEditing
  BY EditorKinds DEF SettingsInv, ShowField, NoEditing
<1> DEFINE q == IF editor[e].field \in Config THEN [editor[e] EXCEPT !.pc = "create"] ELSE NoEditing
<1>1. IF editor[e].field \in Config
        THEN /\ q \in Read /\ q.pc = "create" /\ q.field = editor[e].field /\ q.value = editor[e].value
             /\ q.read = editor[e].read /\ q # NoEditing
        ELSE q = NoEditing
  BY <1>0 DEF Read, NoEditing
<1>2. editor' = [editor EXCEPT ![e] = q]
  BY DEF ShowField
<1> HIDE DEF q
<1>3. q = NoEditing \/ (q \in Begun \cup Read /\ OfField(q.field, q.value))
  BY <1>0, <1>1 DEF SettingsTypes
<1>5. /\ editor' \in [Editors -> {NoEditing} \cup Begun \cup Read]
      /\ \A g \in Editors : editor'[g] # NoEditing => OfField(editor'[g].field, editor'[g].value)
      /\ editor'[e] = q /\ \A g \in Editors : g # e => editor'[g] = editor[g]
      /\ ActiveEdits' = IF q = NoEditing THEN ActiveEdits \ {e} ELSE ActiveEdits \cup {e}
  BY <1>0, <1>2, <1>3, TurnsTypes DEF Turns
<1>6. /\ UNCHANGED <<row, platform, booted, overlap, moved>>
      /\ shown' = [shown EXCEPT ![editor[e].field] = editor[e].value]
  BY DEF ShowField
<1>7. editor[e].field \in Fields /\ OfField(editor[e].field, editor[e].value)
  BY <1>0 DEF SettingsTypes, Read
<1>8. /\ shown' = [f \in Fields |-> shown'[f]] /\ \A f \in Fields : OfField(f, shown'[f])
      /\ shown'[editor[e].field] = editor[e].value
      /\ \A g \in Fields : g # editor[e].field => shown'[g] = shown[g]
  BY <1>0, <1>6, <1>7 DEF SettingsTypes
<1>9. SettingsTypes'
  BY <1>0, <1>5, <1>6, <1>8 DEF SettingsTypes
<1>10. DefaultKept'
  <2>1. q \notin Read \/ q.read = editor[e].read
    BY <1>1 DEF NoEditing, Read
  <2> QED
    BY <1>0, <1>5, <1>6, <2>1 DEF SettingsInv, DefaultKept
<1>11. ASSUME ~overlap
       PROVE  OneEdit'
  <2>1. ActiveEdits = {e} /\ Along(editor[e]) /\ editor[e].pc = "show"
    BY <1>0, <1>11 DEF SettingsInv, OneEdit, ShowField
  <2>2. ShownIs'
    BY <1>6, <1>8, <2>1 DEF Along, ShownIs
  <2>3. CASE editor[e].field \in Config
    <3>1. Along(editor[e])'
      BY <1>1, <1>5, <1>6, <2>1, <2>2, <2>3 DEF Along
    <3> QED
      BY <1>1, <1>5, <2>1, <2>3, <3>1 DEF OneEdit
  <2>4. CASE editor[e].field \notin Config
    <3>1. ActiveEdits' = {}
      BY <1>1, <1>5, <2>1, <2>4
    <3>2. PlatformIs' /\ BootedIs'
      BY <1>6, <2>1, <2>4 DEF Along, PlatformIs, BootedIs
    <3> QED
      BY <2>2, <3>1, <3>2 DEF OneEdit
  <2> QED
    BY <2>3, <2>4
<1> QED
  BY <1>6, <1>9, <1>10, <1>11 DEF SettingsInv

(* The platform gets what was written.                                     *)
LEMMA CreateKeeps ==
  ASSUME SettingsInv, NEW e \in Editors, CreatePlatform(e)
  PROVE  SettingsInv'
<1>0. SettingsTypes /\ editor[e] \in Read /\ e \in ActiveEdits
  BY EditorKinds DEF SettingsInv, CreatePlatform, NoEditing
<1>1. editor' = [editor EXCEPT ![e] = NoEditing]
  BY DEF CreatePlatform
<1>2. /\ editor' \in [Editors -> {NoEditing} \cup Begun \cup Read]
      /\ \A g \in Editors : editor'[g] # NoEditing => OfField(editor'[g].field, editor'[g].value)
      /\ editor'[e] = NoEditing /\ \A g \in Editors : g # e => editor'[g] = editor[g]
      /\ ActiveEdits' = ActiveEdits \ {e}
  BY <1>0, <1>1, TurnsTypes DEF Turns
<1>3. UNCHANGED <<row, shown, booted, overlap, moved>> /\ platform' = [g \in Config |-> Edited(e)[g]]
  BY DEF CreatePlatform, NewConfig, ConfigOf
<1>4. Edited(e) \in Rows
  BY <1>0, EditedIs
<1>5. platform' \in [Config -> 0 .. MaxValue]
  BY <1>3, <1>4, RowFields DEF Config, Fields, OfField
<1>6. SettingsTypes'
  BY <1>0, <1>2, <1>3, <1>5 DEF SettingsTypes
<1>7. DefaultKept'
  BY <1>2, <1>3 DEF SettingsInv, DefaultKept, NoEditing, Read
<1>8. ASSUME ~overlap
      PROVE  OneEdit'
  <2>1. ActiveEdits = {e} /\ Along(editor[e]) /\ editor[e].pc = "create"
    BY <1>0, <1>8 DEF SettingsInv, OneEdit, CreatePlatform
  <2>2. ShownIs' /\ BootedIs'
    BY <1>3, <2>1 DEF Along, ShownIs, BootedIs
  <2>3. \A g \in Fields : Edited(e)[g] = row[g]
    BY <1>0, <2>1, EditedIs DEF Along
  <2>4. PlatformIs'
    BY <1>3, <2>3 DEF PlatformIs, Fields
  <2> QED
    BY <1>2, <2>1, <2>2, <2>4 DEF OneEdit
<1> QED
  BY <1>3, <1>6, <1>7, <1>8 DEF SettingsInv

(* Another VM becomes the default; the VM starts, stops; the program is    *)
(* launched again.                                                         *)
LEMMA MachineKeeps ==
  ASSUME SettingsInv, DefaultMoves \/ Boot \/ PowerOff \/ Relaunch
  PROVE  SettingsInv'
<1>0. SettingsTypes /\ row \in Rows
  BY DEF SettingsInv, SettingsTypes
<1>1. CASE DefaultMoves
  <2>1. /\ row' \in Rows /\ ~row'.default /\ \A g \in Fields : row'[g] = row[g]
    BY <1>0, <1>1 DEF DefaultMoves, Rows, Fields, Config
  <2>2. UNCHANGED <<shown, platform, booted, editor, overlap>>
    BY <1>1 DEF DefaultMoves
  <2>3. SettingsTypes'
    BY <1>0, <2>1, <2>2 DEF SettingsTypes
  <2>4. DefaultKept'
    <3>1. moved' => moved \/ ActiveEdits = {}
      BY <1>1 DEF DefaultMoves
    <3>2. ActiveEdits = {} => \A e \in Editors : editor[e] \notin Read
      BY <1>0, EditorKinds DEF Read, ActiveEdits
    <3> QED
      BY <2>1, <2>2, <3>1, <3>2 DEF SettingsInv, DefaultKept
  <2>5. ASSUME OneEdit
        PROVE  OneEdit'
    <3>1. ActiveEdits' = ActiveEdits
      BY <2>2 DEF ActiveEdits
    <3>2. Config \subseteq Fields
      BY DEF Fields
    <3>3. (ShownIs => ShownIs') /\ (PlatformIs => PlatformIs') /\ (BootedIs => BootedIs')
      BY <2>1, <2>2, <3>2 DEF ShownIs, PlatformIs, BootedIs
    <3>4. ASSUME NEW e \in ActiveEdits
          PROVE  Along(editor[e])'
      <4>1. Along(editor[e]) /\ editor[e].field \in Fields
        BY <1>0, <2>5, EditorKinds DEF OneEdit, ActiveEdits, Begun, Read
      <4> QED
        BY <2>1, <2>2, <3>2, <3>3, <4>1 DEF Along
    <3> QED
      BY <2>5, <3>1, <3>3, <3>4 DEF OneEdit
  <2> QED
    BY <2>2, <2>3, <2>4, <2>5 DEF SettingsInv
<1>2. CASE Boot
  <2>1. UNCHANGED <<row, shown, platform, editor, moved>> /\ booted' = platform
    BY <1>2 DEF Boot
  <2>2. SettingsTypes' /\ DefaultKept'
    BY <1>0, <2>1 DEF SettingsTypes, SettingsInv, DefaultKept
  <2>3. ASSUME ~overlap'
        PROVE  OneEdit'
    <3>1. ActiveEdits = {} /\ OneEdit /\ ActiveEdits' = ActiveEdits
      BY <1>2, <2>1, <2>3 DEF Boot, SettingsInv, ActiveEdits
    <3>2. ShownIs' /\ PlatformIs' /\ BootedIs'
      BY <2>1, <3>1 DEF OneEdit, ShownIs, PlatformIs, BootedIs
    <3> QED
      BY <3>1, <3>2 DEF OneEdit
  <2> QED
    BY <2>2, <2>3 DEF SettingsInv
<1>3. CASE PowerOff
  <2>1. UNCHANGED <<row, shown, platform, editor, overlap, moved>> /\ booted' = NotBooted
    BY <1>3 DEF PowerOff
  <2>2. SettingsTypes' /\ DefaultKept'
    BY <1>0, <2>1 DEF SettingsTypes, SettingsInv, DefaultKept
  <2>3. OneEdit => OneEdit'
    BY <2>1 DEF OneEdit, ActiveEdits, Along, ShownIs, PlatformIs, BootedIs
  <2> QED
    BY <2>1, <2>2, <2>3 DEF SettingsInv
<1>4. CASE Relaunch
  <2>1. /\ UNCHANGED <<row, moved>> /\ booted' = NotBooted /\ editor' = [e \in Editors |-> NoEditing]
        /\ shown' = [f \in Fields |-> row[f]] /\ platform' = [f \in Config |-> row[f]]
    BY <1>4 DEF Relaunch, ShownOf, ConfigOf
  <2>2. ShownIs' /\ PlatformIs' /\ shown' = [f \in Fields |-> shown'[f]]
    BY <2>1 DEF ShownIs, PlatformIs
  <2>3. \A f \in Fields : OfField(f, row[f])
    BY <1>0, RowFields
  <2>4. platform' \in [Config -> 0 .. MaxValue]
    BY <2>1, <2>3 DEF Config, Fields, OfField
  <2>5. SettingsTypes'
    BY <1>0, <2>1, <2>2, <2>3, <2>4 DEF SettingsTypes
  <2>6. ActiveEdits' = {}
    BY <2>1 DEF ActiveEdits, NoEditing
  <2>7. DefaultKept'
    BY <2>1 DEF SettingsInv, DefaultKept, NoEditing, Read
  <2> QED
    BY <2>1, <2>2, <2>5, <2>6, <2>7 DEF SettingsInv, OneEdit, BootedIs
<1> QED
  BY <1>1, <1>2, <1>3, <1>4

(* Any step of the settings.                                               *)
LEMMA SettingsStep ==
  ASSUME SettingsInv,
         \/ \E e \in Editors, f \in Fields : \E v : OfField(f, v) /\ BeginEdit(e, f, v)
         \/ \E e \in Editors : EditSteps(e)
         \/ DefaultMoves \/ Boot \/ PowerOff \/ Relaunch
         \/ UNCHANGED settingsVars
  PROVE  SettingsInv'
<1>1. CASE \E e \in Editors, f \in Fields : \E v : OfField(f, v) /\ BeginEdit(e, f, v)
  BY <1>1, BeginKeeps
<1>2. CASE \E e \in Editors : EditSteps(e)
  BY <1>2, GetKeeps, UpdateKeeps, ShowKeeps, CreateKeeps DEF EditSteps
<1>3. CASE DefaultMoves \/ Boot \/ PowerOff \/ Relaunch
  BY <1>3, MachineKeeps
<1>4. CASE UNCHANGED settingsVars
  BY <1>4 DEF settingsVars, SettingsInv, SettingsTypes, OneEdit, ActiveEdits, Along, ShownIs, PlatformIs,
              BootedIs, DefaultKept
<1> QED
  BY <1>1, <1>2, <1>3, <1>4

(* The edits of the settings alone.                                        *)
LEMMA SettingsNextStep == SettingsInv /\ SettingsNext => SettingsInv'
<1> SUFFICES ASSUME SettingsInv, SettingsNext
             PROVE  SettingsInv'
  OBVIOUS
<1>1. shown.description \subseteq Tags
  BY DEF SettingsInv, SettingsTypes, OfField, Fields
<1>2. ASSUME NEW e \in Editors, \/ UpdateMemory(e) \/ UpdateCpus(e) \/ UpdateName(e)
                                \/ UpdateDescription(e) \/ \E t \in Tags : AppendTag(e, t)
      PROVE  \E f \in Fields : \E v : OfField(f, v) /\ BeginEdit(e, f, v)
  <2>1. {"memory", "cpus", "name", "description"} \subseteq Fields /\ 1 .. MaxValue \subseteq 0 .. MaxValue
    BY SettingsAssumption DEF Fields, Config
  <2>2. CASE UpdateMemory(e)
    BY <2>1, <2>2 DEF UpdateMemory, OfField
  <2>3. CASE UpdateCpus(e)
    BY <2>1, <2>3 DEF UpdateCpus, OfField
  <2>4. CASE UpdateName(e)
    BY <2>1, <2>4 DEF UpdateName, OfField
  <2>5. CASE UpdateDescription(e)
    BY <2>1, <2>5 DEF UpdateDescription, OfField
  <2>6. CASE \E t \in Tags : AppendTag(e, t)
    <3>1. PICK t \in Tags : BeginEdit(e, "description", WithTag(t))
      BY <2>6 DEF AppendTag
    <3>2. WithTag(t) \subseteq Tags
      BY <1>1 DEF WithTag
    <3> QED
      BY <2>1, <3>1, <3>2 DEF OfField
  <2> QED
    BY <1>2, <2>2, <2>3, <2>4, <2>5, <2>6
<1> QED
  BY <1>2, SettingsStep DEF SettingsNext

(* What the invariant says of the three copies.                            *)
LEMMA SettingsInvAgree == SettingsInv => SettingsTypeOK /\ SettingsAgree /\ DefaultStays
<1> SUFFICES ASSUME SettingsInv
             PROVE  SettingsTypeOK /\ SettingsAgree /\ DefaultStays
  OBVIOUS
<1>0. SettingsTypes
  BY DEF SettingsInv
<1>1. shown \in {ShownOf(r) : r \in Rows}
  <2> DEFINE r == [memory |-> shown["memory"], cpus |-> shown["cpus"], name |-> shown["name"],
                   description |-> shown["description"], default |-> TRUE]
  <2>1. r \in Rows
    BY <1>0 DEF SettingsTypes, OfField, Fields, Config, Rows
  <2>2. \A f \in Fields : r[f] = shown[f]
    BY DEF Fields, Config
  <2> HIDE DEF r
  <2>3. shown = ShownOf(r)
    BY <1>0, <2>2 DEF SettingsTypes, ShownOf
  <2> QED
    BY <2>1, <2>3
<1>2. \A e \in Editors :
        /\ editor[e].pc \in {"idle", "get", "update", "show", "create"}
        /\ editor[e].pc \in {"update", "show", "create"} => editor[e].read \in Rows
  BY <1>0, EditorKinds DEF Read
<1>3. SettingsTypeOK
  BY <1>0, <1>1, <1>2 DEF SettingsTypeOK, SettingsTypes
<1>4. SettingsAgree
  <2> SUFFICES ASSUME ShownIs, PlatformIs, BootedIs
               PROVE  /\ shown = ShownOf(row) /\ platform = ConfigOf(row)
                      /\ booted \in {NotBooted, ConfigOf(row)}
    BY DEF SettingsAgree, SettingsInv, OneEdit
  <2>1. shown = ShownOf(row)
    BY <1>0 DEF SettingsTypes, ShownIs, ShownOf
  <2>2. platform = ConfigOf(row)
    BY <1>0 DEF SettingsTypes, PlatformIs, ConfigOf
  <2>3. booted \in {NotBooted, ConfigOf(row)}
    BY <1>0 DEF SettingsTypes, BootedIs, ConfigOf
  <2> QED
    BY <2>1, <2>2, <2>3
<1>5. DefaultStays
  BY DEF DefaultStays, SettingsInv, DefaultKept
<1> QED
  BY <1>3, <1>4, <1>5

-----------------------------------------------------------------------------
(* The administration URLs: the list lags the table by the one edit of the *)
(* user that is under way, and an id is never used twice.                  *)
Urls == (1 .. urls) \X (Apps \cup {"user"})

UrlInv ==
  /\ urls \in 0 .. MaxUrls
  /\ urlRows \subseteq Urls /\ urlShown \subseteq Urls
  /\ urlTask = NoUrl => urlRows = urlShown
  /\ urlTask # NoUrl =>
       /\ urlTask.op \in {"add", "remove"} /\ urlTask.id \in Urls
       /\ urlTask.op = "add" => urlRows = urlShown \cup {urlTask.id} /\ urlTask.id[2] = "user"
       /\ urlTask.op = "remove" => urlRows = urlShown \ {urlTask.id}
  /\ \A u, w \in urlShown : u[2] = w[2] /\ u[2] \in Apps => u = w

(* An installation adds its URL to both.                                   *)
LEMMA RegisterUrlKeeps ==
  ASSUME UrlInv, NEW a \in Apps, UrlMissing(a), urls < MaxUrls, urls' = urls + 1,
         urlRows' = urlRows \cup {<<urls', a>>}, urlShown' = urlShown \cup {<<urls', a>>},
         UNCHANGED urlTask
  PROVE  UrlInv'
<1>1. urls' \in 1 .. MaxUrls /\ urls \in Nat /\ urls' > urls /\ urls' \in 1 .. urls'
  BY BoundAssumption DEF UrlInv
<1>2. Urls \subseteq Urls' /\ <<urls', a>> \in Urls'
  BY <1>1 DEF Urls
<1>3. <<urls', a>> \notin Urls
  BY <1>1 DEF Urls
<1>4. urlRows' \subseteq Urls' /\ urlShown' \subseteq Urls'
  BY <1>2 DEF UrlInv
<1>5. urlTask # NoUrl => urlTask.id # <<urls', a>>
  BY <1>3 DEF UrlInv
<1>6. urlTask # NoUrl =>
       /\ urlTask.id \in Urls'
       /\ urlTask.op = "add" => urlRows' = urlShown' \cup {urlTask.id} /\ urlTask.id[2] = "user"
       /\ urlTask.op = "remove" => urlRows' = urlShown' \ {urlTask.id}
  BY <1>2, <1>5 DEF UrlInv
<1>7. \A u, w \in urlShown' : u[2] = w[2] /\ u[2] \in Apps => u = w
  BY DEF UrlInv, UrlMissing
<1>8. urlTask = NoUrl => urlRows' = urlShown'
  BY DEF UrlInv
<1> QED
  BY <1>1, <1>4, <1>6, <1>7, <1>8 DEF UrlInv

(* The edits of the user.                                                  *)
LEMMA UrlEdits ==
  ASSUME UrlInv, AddUrl \/ RemoveUrl \/ UrlDone
  PROVE  UrlInv'
<1>1. CASE AddUrl
  <2>1. urls' \in 1 .. MaxUrls /\ urls \in Nat /\ urls' > urls /\ urls' \in 1 .. urls'
    BY <1>1, BoundAssumption DEF UrlInv, AddUrl
  <2> DEFINE new == <<urls', "user">>
  <2>2. Urls \subseteq Urls' /\ new \in Urls' /\ new[2] = "user"
    BY <2>1 DEF Urls
  <2>3. urlRows' = urlRows \cup {new} /\ urlTask' = [op |-> "add", id |-> new] /\ urlShown' = urlShown
    BY <1>1 DEF AddUrl
  <2>4. urlTask' # NoUrl /\ urlTask'.op = "add" /\ urlTask'.id = new
    BY <2>3 DEF NoUrl
  <2> HIDE DEF new
  <2>5. urlRows = urlShown
    BY <1>1 DEF AddUrl, UrlInv
  <2> QED
    BY <2>1, <2>2, <2>3, <2>4, <2>5 DEF UrlInv
<1>2. CASE RemoveUrl
  <2>1. PICK u \in urlShown : urlRows' = urlRows \ {u} /\ urlTask' = [op |-> "remove", id |-> u]
    BY <1>2 DEF RemoveUrl
  <2>2. UNCHANGED <<urls, urlShown>> /\ urlRows = urlShown
    BY <1>2 DEF RemoveUrl, UrlInv
  <2>3. urlTask' # NoUrl /\ urlTask'.op = "remove" /\ urlTask'.id = u
    BY <2>1 DEF NoUrl
  <2>4. Urls' = Urls
    BY <2>2 DEF Urls
  <2> QED
    BY <2>1, <2>2, <2>3, <2>4 DEF UrlInv
<1>3. CASE UrlDone
  <2>1. /\ UNCHANGED <<urls, urlRows>> /\ urlTask' = NoUrl /\ urlTask # NoUrl
        /\ urlShown' = IF urlTask.op = "add" THEN urlShown \cup {urlTask.id} ELSE urlShown \ {urlTask.id}
    BY <1>3 DEF UrlDone
  <2>2. Urls' = Urls
    BY <2>1 DEF Urls
  <2>3. urlShown' = urlRows
    BY <2>1 DEF UrlInv
  <2>4. \A u, w \in urlShown' : u[2] = w[2] /\ u[2] \in Apps => u = w
    BY <2>1, AppAssumption DEF UrlInv
  <2> QED
    BY <2>1, <2>2, <2>3, <2>4 DEF UrlInv
<1> QED
  BY <1>1, <1>2, <1>3

(* What AppNext does to the settings: the user begins an edit, or an       *)
(* installation one that adds its tag, or one goes on.                     *)
LEMMA AppSettings ==
  ASSUME SettingsTypes, AppNext, \A i \in AppInstalls : inst[i].pc # "new" => App(i) \in Apps
  PROVE  \/ \E e \in Editors, f \in Fields : \E v : OfField(f, v) /\ BeginEdit(e, f, v)
         \/ \E e \in Editors : EditSteps(e)
         \/ UNCHANGED settingsVars
<1>1. shown.description \subseteq Tags /\ "description" \in Fields
  BY DEF SettingsTypes, OfField, Fields
<1>2. ASSUME NEW i \in AppInstalls, TagApp(i), ~UNCHANGED settingsVars
      PROVE  \E e \in Editors, f \in Fields : \E v : OfField(f, v) /\ BeginEdit(e, f, v)
  <2>1. BeginEdit(i, "description", WithTag(App(i))) /\ inst[i].pc # "new"
    BY <1>2 DEF TagApp, AppendTag
  <2>2. i \in Editors /\ App(i) \in Tags
    BY <2>1, AppAssumption
  <2>3. OfField("description", WithTag(App(i)))
    BY <1>1, <2>2 DEF OfField, WithTag
  <2> QED
    BY <1>1, <2>1, <2>2, <2>3
<1>3. CASE UserEdits
  <2>1. PICK u \in Users : \E d \in SUBSET Tags : BeginEdit(u, "description", d)
    BY <1>3 DEF UserEdits, UpdateDescription
  <2> QED
    BY <1>1, <2>1, AppAssumption DEF OfField
<1>4. CASE \E e \in Editors : EditGoesOn(e)
  BY <1>4 DEF EditGoesOn
<1>5. CASE VmStops \/ VmStarts \/ AddUrl \/ RemoveUrl \/ UrlDone
  BY <1>5 DEF VmStops, VmStarts, AddUrl, RemoveUrl, UrlDone, UrlStep
<1>6. ASSUME NEW i \in AppInstalls, \/ Ask(i) \/ CloseTerminal(i) \/ DoInstall(i) \/ RunInstall(i)
                                   \/ TaskLine(i) \/ TaskEnds(i) \/ TaskEndsMarked(i)
      PROVE  UNCHANGED settingsVars
  BY <1>6 DEF Ask, CloseTerminal, DoInstall, RunInstall, TaskLine, TaskEnds, TaskEndsMarked, VmStep
<1>7. ASSUME NEW i \in AppInstalls, HostSteps(i), ~TagApp(i)
      PROVE  UNCHANGED settingsVars
  BY <1>7 DEF HostSteps, FetchTerminal, FetchControl, RegisterUrls, ClearKeys, InsertKey, StartTerminal,
              StartControl, ReadAccepted, ReadOutput, ReadDone, ReadMark, ReadEnd, RecordApp, Tagged,
              MapPorts, HostStep
<1> QED
  BY <1>2, <1>3, <1>4, <1>5, <1>6, <1>7 DEF AppNext

-----------------------------------------------------------------------------
(* The installations: one that was asked for reports its end once, the     *)
(* control stream's before the application is recorded, the terminal's     *)
(* after.                                                                  *)
Asked == [pc : Stages, path : {"control", "terminal"}, app : Apps, left : SUBSET Labels, done : 0 .. 1]

Reports(r) ==
  /\ r.path = "control" =>
       r.pc # "shell" /\ (r.done = 1 <=> r.pc \in {"record", "tag", "tagging", "port", "over"})
  /\ r.path = "terminal" =>
       r.pc # "accept" /\ (r.pc = "shell" => r.done = 1) /\ (r.pc \notin {"shell", "over"} => r.done = 0)

InstTypes ==
  /\ inst \in [AppInstalls -> {NotAsked} \cup Asked]
  /\ \A i \in AppInstalls : inst[i].pc # "new" => Reports(inst[i])

(* One that was not asked for, and one that was.                           *)
LEMMA InstKinds ==
  ASSUME InstTypes, NEW i \in AppInstalls
  PROVE  /\ inst[i].pc = "new" => inst[i] = NotAsked
         /\ inst[i].pc # "new" => inst[i] \in Asked /\ Reports(inst[i])
         /\ inst[i] \in Asked => inst[i].pc # "new"
BY DEF InstTypes, Asked, NotAsked, Stages

(* Installation i has become r, of the same path and application.          *)
Becomes(i, r) ==
  /\ inst' = [inst EXCEPT ![i] = r]
  /\ inst[i].pc # "new" /\ r \in Asked /\ r.path = inst[i].path /\ r.app = inst[i].app

(* It goes on to another stage.                                            *)
LEMMA Goes ==
  ASSUME InstTypes, NEW i \in AppInstalls, inst[i].pc # "new", NEW s \in Stages, Go(i, s)
  PROVE  \E r : Becomes(i, r) /\ r.pc = s /\ r.left = inst[i].left /\ r.done = inst[i].done
<1> DEFINE r == [inst[i] EXCEPT !.pc = s]
<1>1. inst[i] \in Asked
  BY InstKinds
<1>2. /\ r \in Asked /\ r.path = inst[i].path /\ r.app = inst[i].app /\ r.pc = s
      /\ r.left = inst[i].left /\ r.done = inst[i].done
  BY <1>1 DEF Asked
<1>3. inst' = [inst EXCEPT ![i] = r]
  BY DEF Go
<1> HIDE DEF r
<1> QED
  BY <1>2, <1>3 DEF Becomes

(* It reports its end.                                                     *)
LEMMA ReportsEnd ==
  ASSUME InstTypes, NEW i \in AppInstalls, inst[i].pc # "new", NEW s \in Stages, Report(i, s),
         inst[i].done = 0
  PROVE  \E r : Becomes(i, r) /\ r.pc = s /\ r.left = inst[i].left /\ r.done = 1
<1> DEFINE q == [inst[i] EXCEPT !.pc = s]
           r == [q EXCEPT !.done = 1]
<1>1. /\ inst[i] \in Asked
      /\ q \in Asked /\ q.path = inst[i].path /\ q.app = inst[i].app /\ q.pc = s /\ q.left = inst[i].left
  BY InstKinds DEF Asked
<1>2. /\ r \in Asked /\ r.path = inst[i].path /\ r.app = inst[i].app /\ r.pc = s
      /\ r.left = inst[i].left /\ r.done = 1
  <2> HIDE DEF q
  <2> QED
    BY <1>1 DEF Asked
<1>3. inst' = [inst EXCEPT ![i] = r]
  <2>1. inst' = [inst EXCEPT ![i] = [inst[i] EXCEPT !.pc = s, !.done = inst[i].done + 1]]
    BY DEF Report
  <2> QED
    BY <2>1
<1> HIDE DEF r
<1> QED
  BY <1>2, <1>3 DEF Becomes

(* The others stay, and the types hold.                                    *)
LEMMA BecomesTypes ==
  ASSUME InstTypes, NEW i \in AppInstalls, NEW r, Becomes(i, r), Reports(r)
  PROVE  /\ InstTypes'
         /\ inst'[i] = r /\ \A j \in AppInstalls : j # i => inst'[j] = inst[j]
<1>1. inst' \in [AppInstalls -> {NotAsked} \cup Asked]
  BY DEF InstTypes, Becomes
<1>2. inst'[i] = r /\ \A j \in AppInstalls : j # i => inst'[j] = inst[j]
  BY DEF InstTypes, Becomes
<1> QED
  BY <1>1, <1>2 DEF InstTypes, Reports

(* What the VM has told and what the host has heard: the end in the output *)
(* is that of the task file, the host goes on to record after success, and *)
(* nothing runs before it was asked for.                                   *)
Pieces == {"accepted", "line", "half", "ok", "failed"}
Guests == {"none", "fetch", "task", "ok", "failed", "unmarked", "killed"}

RunTypes ==
  /\ guest \in [AppInstalls -> Guests]
  /\ stdout \in [AppInstalls -> Seq(Pieces)] /\ \A i \in AppInstalls : Len(stdout[i]) <= MaxOut
  /\ ends \in [AppInstalls -> {"open", "cut", "closed"}]

Told(g, said) == \A n \in 1 .. Len(said) : said[n] \in {"ok", "failed"} => g = said[n]

Heard(pc, g) ==
  /\ pc \in {"record", "tag", "tagging", "port"} => g = "ok"
  /\ pc \in {"new", "fetch", "urls", "clear", "insert", "start"} => g = "none"
  /\ pc = "shell" => g \in {"ok", "failed"}

RunOK(i) == Told(guest[i], stdout[i]) /\ Heard(inst[i].pc, guest[i])
RunInv == RunTypes /\ \A i \in AppInstalls : RunOK(i)

(* The steps of the host that read nothing of the VM.                      *)
Quiet(i) ==
  \/ FetchTerminal(i) \/ FetchControl(i) \/ RegisterUrls(i) \/ ClearKeys(i) \/ InsertKey(i)
  \/ RecordApp(i) \/ TagApp(i) \/ Tagged(i) \/ MapPorts(i)

(* Each leads to a stage at which what was heard is still right.           *)
LEMMA QuietGoes ==
  ASSUME InstTypes, RunInv, NEW i \in AppInstalls, Quiet(i)
  PROVE  /\ UNCHANGED runVars
         /\ \E r : Becomes(i, r) /\ Reports(r) /\ Heard(r.pc, guest[i])
<1>0. inst[i].pc # "new" => inst[i] \in Asked /\ Reports(inst[i])
  BY InstKinds
<1>1. Heard(inst[i].pc, guest[i])
  BY DEF RunInv, RunOK
<1> USE DEF Stages
<1>2. CASE FetchTerminal(i) \/ FetchControl(i)
  <2>1. PICK s \in {"refused", "urls"} : inst[i].pc = "fetch" /\ Go(i, s) /\ UNCHANGED runVars
    BY <1>2 DEF FetchTerminal, FetchControl
  <2>2. PICK r : Becomes(i, r) /\ r.pc = s /\ r.done = inst[i].done
    BY <2>1, Goes
  <2> QED
    BY <1>0, <1>1, <2>1, <2>2 DEF Becomes, Reports, Heard, Asked
<1>3. CASE RegisterUrls(i)
  <2>1. inst[i].pc = "urls" /\ Go(i, "clear") /\ UNCHANGED runVars
    BY <1>3 DEF RegisterUrls
  <2>2. PICK r : Becomes(i, r) /\ r.pc = "clear" /\ r.done = inst[i].done
    BY <2>1, Goes
  <2> QED
    BY <1>0, <1>1, <2>1, <2>2 DEF Becomes, Reports, Heard, Asked
<1>4. CASE ClearKeys(i)
  <2> DEFINE r == [inst[i] EXCEPT !.pc = "insert", !.left = Labels]
  <2>1. inst[i].pc = "clear" /\ inst' = [inst EXCEPT ![i] = r] /\ UNCHANGED runVars
    BY <1>4 DEF ClearKeys
  <2>2. r \in Asked /\ r.pc = "insert" /\ r.done = inst[i].done /\ r.path = inst[i].path /\ r.app = inst[i].app
    BY <1>0, <2>1 DEF Asked
  <2> HIDE DEF r
  <2>3. Becomes(i, r) /\ Reports(r) /\ Heard(r.pc, guest[i])
    BY <1>0, <1>1, <2>1, <2>2 DEF Becomes, Reports, Heard, Asked
  <2> QED
    BY <2>1, <2>3
<1>5. CASE InsertKey(i)
  <2>1. PICK l \in inst[i].left :
          inst' = [inst EXCEPT ![i].left = @ \ {l},
                               ![i].pc = IF inst[i].left = {l} THEN "start" ELSE "insert"]
    BY <1>5 DEF InsertKey
  <2> DEFINE pc == IF inst[i].left = {l} THEN "start" ELSE "insert"
             left == inst[i].left \ {l}
             r == [inst[i] EXCEPT !.left = left, !.pc = pc]
  <2>2. inst[i].pc = "insert" /\ UNCHANGED runVars /\ inst' = [inst EXCEPT ![i] = r]
    BY <1>5, <2>1 DEF InsertKey, RegistersKeys
  <2>3. pc \in {"start", "insert"} /\ left \subseteq Labels
    BY <1>0, <2>2 DEF Asked
  <2> HIDE DEF pc, left
  <2>4. r \in Asked /\ r.pc = pc /\ r.done = inst[i].done /\ r.path = inst[i].path /\ r.app = inst[i].app
    BY <1>0, <2>2, <2>3 DEF Asked
  <2> HIDE DEF r
  <2>5. Becomes(i, r) /\ Reports(r) /\ Heard(r.pc, guest[i])
    BY <1>0, <1>1, <2>2, <2>3, <2>4 DEF Becomes, Reports, Heard, Asked
  <2> QED
    BY <2>2, <2>5
<1>6. CASE RecordApp(i)
  <2>1. inst[i].pc = "record" /\ Go(i, "tag") /\ UNCHANGED runVars
    BY <1>6 DEF RecordApp
  <2>2. PICK r : Becomes(i, r) /\ r.pc = "tag" /\ r.done = inst[i].done
    BY <2>1, Goes
  <2> QED
    BY <1>0, <1>1, <2>1, <2>2 DEF Becomes, Reports, Heard, Asked
<1>7. CASE TagApp(i) \/ Tagged(i)
  <2>1. PICK s \in {"port", "tagging"} : inst[i].pc \in {"tag", "tagging"} /\ Go(i, s) /\ UNCHANGED runVars
    BY <1>7 DEF TagApp, Tagged
  <2>2. PICK r : Becomes(i, r) /\ r.pc = s /\ r.done = inst[i].done
    BY <2>1, Goes
  <2> QED
    BY <1>0, <1>1, <2>1, <2>2 DEF Becomes, Reports, Heard, Asked
<1>8. CASE MapPorts(i) /\ Terminal(i)
  <2>1. inst[i].pc = "port" /\ Report(i, "shell") /\ UNCHANGED runVars /\ inst[i].done = 0
    BY <1>0, <1>8 DEF MapPorts, Terminal, Reports
  <2>2. PICK r : Becomes(i, r) /\ r.pc = "shell" /\ r.done = 1
    BY <2>1, ReportsEnd
  <2> QED
    BY <1>0, <1>1, <1>8, <2>1, <2>2 DEF Becomes, Reports, Heard, Terminal
<1>9. CASE MapPorts(i) /\ ~Terminal(i)
  <2>1. inst[i].pc = "port" /\ Go(i, "over") /\ UNCHANGED runVars
    BY <1>9 DEF MapPorts
  <2>2. PICK r : Becomes(i, r) /\ r.pc = "over" /\ r.done = inst[i].done
    BY <2>1, Goes
  <2> QED
    BY <1>0, <2>1, <2>2, <1>9 DEF Becomes, Reports, Heard, Terminal
<1> QED
  BY <1>2, <1>3, <1>4, <1>5, <1>6, <1>7, <1>8, <1>9 DEF Quiet

(* What runs for installation i and its output become g and said.          *)
Speaks(i, g, said) ==
  /\ guest' = [guest EXCEPT ![i] = g] /\ stdout' = [stdout EXCEPT ![i] = said]
  /\ g \in Guests /\ said \in Seq(Pieces) /\ Len(said) <= MaxOut /\ Told(g, said)
  /\ guest[i] = "ok" => g = "ok"

(* The others stay, and the types hold.                                    *)
LEMMA SpeaksTypes ==
  ASSUME RunInv, NEW i \in AppInstalls, NEW g, NEW said, Speaks(i, g, said),
         ends' \in [AppInstalls -> {"open", "cut", "closed"}]
  PROVE  /\ RunTypes' /\ guest'[i] = g /\ stdout'[i] = said
         /\ \A j \in AppInstalls : j # i => guest'[j] = guest[j] /\ stdout'[j] = stdout[j]
<1>1. /\ guest'[i] = g /\ stdout'[i] = said
      /\ \A j \in AppInstalls : j # i => guest'[j] = guest[j] /\ stdout'[j] = stdout[j]
  BY DEF RunInv, RunTypes, Speaks
<1> QED
  BY <1>1 DEF RunInv, RunTypes, Speaks

(* A piece is taken.                                                       *)
LEMMA TakesPiece ==
  ASSUME RunInv, NEW i \in AppInstalls, NEW p, Takes(i, p), UNCHANGED guest
  PROVE  /\ Speaks(i, guest[i], Tail(stdout[i]))
         /\ p \in {"ok", "failed"} => guest[i] = p
<1> DEFINE said == stdout[i]
<1>1. said \in Seq(Pieces) /\ said # <<>> /\ Len(said) <= MaxOut /\ Told(guest[i], said) /\ guest[i] \in Guests
  BY DEF RunInv, RunTypes, RunOK, Takes
<1>2. stdout' = [stdout EXCEPT ![i] = Tail(said)] /\ p = Head(said)
  BY DEF Takes
<1>3. guest' = [guest EXCEPT ![i] = guest[i]]
  BY DEF RunInv, RunTypes
<1> HIDE DEF said
<1>4. Len(said) \in Nat /\ Len(said) > 0 /\ p = said[1]
  BY <1>1, <1>2
<1>5. Tail(said) \in Seq(Pieces) /\ Len(Tail(said)) = Len(said) - 1
      /\ \A n \in 1 .. Len(said) - 1 : Tail(said)[n] = said[n + 1]
  BY <1>1, <1>4
<1>6. Told(guest[i], Tail(said))
  BY <1>1, <1>4, <1>5 DEF Told
<1>7. p \in {"ok", "failed"} => guest[i] = p
  BY <1>1, <1>4 DEF Told
<1>8. Len(Tail(said)) <= MaxOut
  BY <1>1, <1>4, <1>5, BoundAssumption
<1> QED
  BY <1>1, <1>2, <1>3, <1>5, <1>6, <1>7, <1>8 DEF Speaks, said

(* The steps of the host that start, read or end the run.                  *)
Reads(i) ==
  \/ StartTerminal(i) \/ StartControl(i) \/ ReadAccepted(i) \/ ReadOutput(i) \/ ReadDone(i)
  \/ ReadMark(i) \/ ReadEnd(i) \/ CloseTerminal(i)

(* The one that read is neither registering keys nor past its record, but  *)
(* for a terminal that is a shell already.                                 *)
Ahead(i, r, g) ==
  /\ r.pc \notin {"insert", "tag", "tagging", "port"}
  /\ inst[i].pc \notin {"insert", "tag", "tagging", "port"}
  /\ r.pc = "shell" /\ g = "ok" => inst[i].pc = "shell" /\ guest[i] = "ok"

(* Each hears what the VM has told.                                        *)
LEMMA ReadsGo ==
  ASSUME InstTypes, RunInv, NEW i \in AppInstalls, Reads(i)
  PROVE  /\ ends' \in [AppInstalls -> {"open", "cut", "closed"}]
         /\ \E r, g, said : Becomes(i, r) /\ Reports(r) /\ Speaks(i, g, said) /\ Heard(r.pc, g) /\ Ahead(i, r, g)
<1>0. inst[i].pc # "new" => inst[i] \in Asked /\ Reports(inst[i])
  BY InstKinds
<1>1. Heard(inst[i].pc, guest[i]) /\ Told(guest[i], stdout[i]) /\ RunTypes
      /\ guest[i] \in Guests /\ stdout[i] \in Seq(Pieces) /\ Len(stdout[i]) <= MaxOut
  BY DEF RunInv, RunOK, RunTypes
<1>a. UNCHANGED guest /\ UNCHANGED stdout => Speaks(i, guest[i], stdout[i])
  BY <1>1 DEF Speaks, RunTypes
<1> USE DEF Stages
<1>2. CASE StartTerminal(i)
  <2>1. inst[i].pc = "start" /\ Terminal(i) /\ UNCHANGED <<stdout, ends>> /\ guest[i] = "none"
    BY <1>1, <1>2 DEF StartTerminal, Heard
  <2>2. CASE Go(i, "reading") /\ guest' = [guest EXCEPT ![i] = "fetch"]
    <3>1. PICK r : Becomes(i, r) /\ r.pc = "reading" /\ r.done = inst[i].done
      BY <2>1, <2>2, Goes
    <3>2. Speaks(i, "fetch", stdout[i])
      BY <1>1, <2>1, <2>2 DEF Speaks, Guests, Told, RunTypes
    <3>3. Reports(r) /\ Heard(r.pc, "fetch") /\ Ahead(i, r, "fetch")
      BY <1>0, <2>1, <3>1 DEF Becomes, Reports, Heard, Asked, Ahead
    <3> QED
      BY <1>1, <2>1, <3>1, <3>2, <3>3 DEF RunTypes
  <2>3. CASE Go(i, "refused") /\ UNCHANGED guest
    <3>1. PICK r : Becomes(i, r) /\ r.pc = "refused" /\ r.done = inst[i].done
      BY <2>1, <2>3, Goes
    <3>2. Reports(r) /\ Heard(r.pc, guest[i]) /\ Ahead(i, r, guest[i])
      BY <1>0, <2>1, <3>1 DEF Becomes, Reports, Heard, Asked, Ahead
    <3> QED
      BY <1>1, <1>a, <2>1, <2>3, <3>1, <3>2 DEF RunTypes
  <2> QED
    BY <1>2, <2>2, <2>3 DEF StartTerminal
<1>3. CASE StartControl(i)
  <2>1. inst[i].pc = "start" /\ ~Terminal(i) /\ UNCHANGED ends /\ guest[i] = "none"
    BY <1>1, <1>3 DEF StartControl, Heard
  <2>2. CASE Go(i, "accept") /\ guest' = [guest EXCEPT ![i] = "fetch"]
             /\ stdout' = [stdout EXCEPT ![i] = <<"accepted">>]
    <3>1. PICK r : Becomes(i, r) /\ r.pc = "accept" /\ r.done = inst[i].done
      BY <2>1, <2>2, Goes
    <3>2. <<"accepted">> \in Seq(Pieces) /\ Len(<<"accepted">>) = 1 /\ <<"accepted">>[1] = "accepted"
      BY DEF Pieces
    <3>3. Told("fetch", <<"accepted">>) /\ Len(<<"accepted">>) <= MaxOut
      BY <3>2, BoundAssumption DEF Told
    <3>4. Speaks(i, "fetch", <<"accepted">>)
      BY <2>1, <2>2, <3>2, <3>3 DEF Speaks, Guests
    <3>5. Reports(r) /\ Heard(r.pc, "fetch") /\ Ahead(i, r, "fetch")
      BY <1>0, <2>1, <3>1 DEF Becomes, Reports, Heard, Asked, Ahead, Terminal
    <3> QED
      BY <1>1, <2>1, <3>1, <3>4, <3>5 DEF RunTypes
  <2>3. CASE Go(i, "refused") /\ UNCHANGED <<guest, stdout>>
    <3>1. PICK r : Becomes(i, r) /\ r.pc = "refused" /\ r.done = inst[i].done
      BY <2>1, <2>3, Goes
    <3>2. Reports(r) /\ Heard(r.pc, guest[i]) /\ Ahead(i, r, guest[i])
      BY <1>0, <2>1, <3>1 DEF Becomes, Reports, Heard, Asked, Ahead
    <3> QED
      BY <1>1, <1>a, <2>1, <2>3, <3>1, <3>2 DEF RunTypes
  <2> QED
    BY <1>3, <2>2, <2>3 DEF StartControl
<1>4. CASE ReadAccepted(i)
  <2>1. inst[i].pc = "accept" /\ Takes(i, "accepted") /\ Go(i, "reading") /\ UNCHANGED <<guest, ends>>
    BY <1>4 DEF ReadAccepted, HostStep
  <2>2. PICK r : Becomes(i, r) /\ r.pc = "reading" /\ r.done = inst[i].done
    BY <2>1, Goes
  <2>3. Speaks(i, guest[i], Tail(stdout[i]))
    BY <2>1, TakesPiece
  <2>4. Reports(r) /\ Heard(r.pc, guest[i]) /\ Ahead(i, r, guest[i])
    BY <1>0, <1>1, <2>1, <2>2 DEF Becomes, Reports, Heard, Asked, Ahead
  <2> QED
    BY <1>1, <2>1, <2>2, <2>3, <2>4 DEF RunTypes
<1>5. CASE ReadOutput(i)
  <2>1. inst[i].pc \in {"reading", "shell"} /\ UNCHANGED inst /\ UNCHANGED <<guest, ends>>
    BY <1>5 DEF ReadOutput, HostStep
  <2>2. PICK p \in {"line", "half"} : Takes(i, p)
    BY <1>5 DEF ReadOutput
  <2>3. Speaks(i, guest[i], Tail(stdout[i]))
    BY <2>1, <2>2, TakesPiece
  <2>4. Becomes(i, inst[i])
    BY <1>0, <2>1 DEF Becomes, InstTypes
  <2>5. Reports(inst[i]) /\ Ahead(i, inst[i], guest[i])
    BY <1>0, <2>1 DEF Ahead
  <2> QED
    BY <1>1, <2>1, <2>3, <2>4, <2>5 DEF RunTypes
<1>6. CASE ReadDone(i)
  <2>1. PICK p \in {"ok", "failed"} : Takes(i, p) /\ Report(i, IF Records(p) THEN "record" ELSE "over")
    BY <1>6 DEF ReadDone
  <2>2. inst[i].pc = "reading" /\ ~Terminal(i) /\ UNCHANGED <<guest, ends>> /\ inst[i].done = 0
    BY <1>0, <1>6 DEF ReadDone, HostStep, Terminal, Reports, Asked
  <2> DEFINE s == IF Records(p) THEN "record" ELSE "over"
  <2>3. s \in Stages /\ s \in {"record", "over"} /\ (s = "record" => p = "ok")
    BY DEF Records
  <2>4. Report(i, s)
    BY <2>1
  <2> HIDE DEF s
  <2>5. PICK r : Becomes(i, r) /\ r.pc = s /\ r.done = 1
    BY <2>2, <2>3, <2>4, ReportsEnd
  <2>6. Speaks(i, guest[i], Tail(stdout[i])) /\ guest[i] = p
    BY <2>1, <2>2, TakesPiece
  <2>7. Reports(r) /\ Heard(r.pc, guest[i]) /\ Ahead(i, r, guest[i])
    BY <1>0, <2>2, <2>3, <2>5, <2>6 DEF Becomes, Reports, Heard, Asked, Ahead, Terminal
  <2> QED
    BY <1>1, <2>2, <2>5, <2>6, <2>7 DEF RunTypes
<1>7. CASE ReadMark(i)
  <2>1. PICK p \in {"ok", "failed"} : Takes(i, p) /\ IF Records(p) THEN Go(i, "record") ELSE Report(i, "shell")
    BY <1>7 DEF ReadMark
  <2>2. inst[i].pc = "reading" /\ Terminal(i) /\ UNCHANGED <<guest, ends>> /\ inst[i].done = 0
    BY <1>0, <1>7 DEF ReadMark, HostStep, Terminal, Reports
  <2>3. Speaks(i, guest[i], Tail(stdout[i])) /\ guest[i] = p
    BY <2>1, <2>2, TakesPiece
  <2>4. CASE p = "ok"
    <3>1. PICK r : Becomes(i, r) /\ r.pc = "record" /\ r.done = inst[i].done
      BY <2>1, <2>2, <2>4, Goes DEF Records
    <3>2. Reports(r) /\ Heard(r.pc, guest[i]) /\ Ahead(i, r, guest[i])
      BY <2>2, <2>3, <2>4, <3>1 DEF Becomes, Reports, Heard, Ahead, Terminal
    <3> QED
      BY <1>1, <2>2, <2>3, <3>1, <3>2 DEF RunTypes
  <2>5. CASE p = "failed"
    <3>1. PICK r : Becomes(i, r) /\ r.pc = "shell" /\ r.done = 1
      BY <2>1, <2>2, <2>5, ReportsEnd DEF Records
    <3>2. Reports(r) /\ Heard(r.pc, guest[i]) /\ Ahead(i, r, guest[i])
      BY <2>2, <2>3, <2>5, <3>1 DEF Becomes, Reports, Heard, Ahead, Terminal
    <3> QED
      BY <1>1, <2>2, <2>3, <3>1, <3>2 DEF RunTypes
  <2> QED
    BY <2>4, <2>5
<1>8. CASE ReadEnd(i)
  <2>1. UNCHANGED <<guest, stdout, ends>>
    BY <1>8 DEF ReadEnd, HostStep
  <2>2. CASE inst[i].pc = "accept" /\ Go(i, "refused")
    <3>1. PICK r : Becomes(i, r) /\ r.pc = "refused" /\ r.done = inst[i].done
      BY <2>2, Goes
    <3>2. Reports(r) /\ Heard(r.pc, guest[i]) /\ Ahead(i, r, guest[i])
      BY <1>0, <2>2, <3>1 DEF Becomes, Reports, Heard, Asked, Ahead
    <3> QED
      BY <1>1, <1>a, <2>1, <3>1, <3>2 DEF RunTypes
  <2>3. CASE inst[i].pc = "reading" /\ ~Terminal(i) /\ ReportLost(i)
    <3>1. inst[i].done = 0 /\ inst[i].path = "control"
      BY <1>0, <2>3 DEF Reports, Asked, Terminal
    <3>2. PICK r : Becomes(i, r) /\ r.pc = "over" /\ r.done = 1
      BY <2>3, <3>1, ReportsEnd DEF ReportLost
    <3>3. Reports(r) /\ Heard(r.pc, guest[i]) /\ Ahead(i, r, guest[i])
      BY <2>3, <3>1, <3>2 DEF Becomes, Reports, Heard, Ahead
    <3> QED
      BY <1>1, <1>a, <2>1, <3>2, <3>3 DEF RunTypes
  <2>4. CASE inst[i].pc \in {"reading", "shell"} /\ Terminal(i) /\ Go(i, "over")
    <3>1. PICK r : Becomes(i, r) /\ r.pc = "over" /\ r.done = inst[i].done
      BY <2>4, Goes
    <3>2. Reports(r) /\ Heard(r.pc, guest[i]) /\ Ahead(i, r, guest[i])
      BY <2>4, <3>1 DEF Becomes, Reports, Heard, Ahead, Terminal
    <3> QED
      BY <1>1, <1>a, <2>1, <3>1, <3>2 DEF RunTypes
  <2> QED
    BY <1>8, <2>2, <2>3, <2>4 DEF ReadEnd
<1>9. CASE CloseTerminal(i)
  <2>1. /\ inst[i].pc \in {"reading", "shell"} /\ Terminal(i) /\ Go(i, "over")
        /\ guest' = [guest EXCEPT ![i] = IF @ \in {"fetch", "task"} THEN "killed" ELSE @]
        /\ stdout' = [stdout EXCEPT ![i] = <<>>] /\ ends' = [ends EXCEPT ![i] = "closed"]
    BY <1>9 DEF CloseTerminal
  <2> DEFINE g == IF guest[i] \in {"fetch", "task"} THEN "killed" ELSE guest[i]
  <2>2. guest' = [guest EXCEPT ![i] = g] /\ g \in Guests /\ (guest[i] = "ok" => g = "ok")
    BY <1>1, <2>1 DEF Guests
  <2>3. <<>> \in Seq(Pieces) /\ Len(<<>>) = 0
    OBVIOUS
  <2>4. Told(g, <<>>) /\ Len(<<>>) <= MaxOut
    BY <2>3, BoundAssumption DEF Told
  <2>5. Speaks(i, g, <<>>)
    BY <2>1, <2>2, <2>3, <2>4 DEF Speaks
  <2> HIDE DEF g
  <2>6. PICK r : Becomes(i, r) /\ r.pc = "over" /\ r.done = inst[i].done
    BY <2>1, Goes
  <2>7. Reports(r) /\ Heard(r.pc, g) /\ Ahead(i, r, g)
    BY <2>1, <2>6 DEF Becomes, Reports, Heard, Ahead, Terminal
  <2>8. ends' \in [AppInstalls -> {"open", "cut", "closed"}]
    BY <1>1, <2>1 DEF RunTypes
  <2> QED
    BY <2>5, <2>6, <2>7, <2>8
<1> QED
  BY <1>2, <1>3, <1>4, <1>5, <1>6, <1>7, <1>8, <1>9 DEF Reads

(* The steps of what runs in the VM.                                       *)
Runs(i) == DoInstall(i) \/ RunInstall(i) \/ TaskLine(i) \/ TaskEnds(i) \/ TaskEndsMarked(i)

(* Pieces are added, and the end with the end.                             *)
LEMMA SaysPieces ==
  ASSUME RunInv, NEW i \in AppInstalls, guest[i] \in {"fetch", "task"}, NEW g \in Guests \ {"none"},
         guest' = [guest EXCEPT ![i] = g],
         NEW more, Says(i, more), more \in Seq(Pieces), Len(more) \in {1, 2}, Told(g, more)
  PROVE  \E said : Speaks(i, g, said)
<1> DEFINE said == stdout[i] \o more
<1>1. stdout[i] \in Seq(Pieces) /\ Told(guest[i], stdout[i]) /\ Len(stdout[i]) \in Nat
  BY DEF RunInv, RunTypes, RunOK
<1>2. stdout' = [stdout EXCEPT ![i] = said] /\ Len(stdout[i]) + Len(more) <= MaxOut
  BY DEF Says
<1>3. said \in Seq(Pieces) /\ Len(said) = Len(stdout[i]) + Len(more)
      /\ \A n \in 1 .. Len(said) : \/ n \in 1 .. Len(stdout[i]) /\ said[n] = stdout[i][n]
                                   \/ n - Len(stdout[i]) \in 1 .. Len(more) /\ said[n] = more[n - Len(stdout[i])]
  BY <1>1
<1> HIDE DEF said
<1>4. Told(g, said)
  <2>1. \A n \in 1 .. Len(stdout[i]) : stdout[i][n] \notin {"ok", "failed"}
    BY <1>1 DEF Told
  <2>2. \A n \in 1 .. Len(more) : more[n] \in {"ok", "failed"} => g = more[n]
    BY DEF Told
  <2> QED
    BY <1>3, <2>1, <2>2 DEF Told
<1> QED
  BY <1>2, <1>3, <1>4 DEF Speaks

(* Each tells what has become of the task file.                            *)
LEMMA RunsSpeak ==
  ASSUME InstTypes, RunInv, NEW i \in AppInstalls, Runs(i)
  PROVE  /\ UNCHANGED <<inst, ends>> /\ guest[i] \in {"fetch", "task"}
         /\ \E g, said : Speaks(i, g, said) /\ g # "none"
<1>1. UNCHANGED <<inst, ends>> /\ guest[i] \in {"fetch", "task"}
  BY DEF Runs, DoInstall, RunInstall, TaskLine, TaskEnds, TaskEndsMarked, VmStep
<1>2. guest[i] \in Guests /\ guest \in [AppInstalls -> Guests]
      /\ stdout[i] \in Seq(Pieces) /\ Len(stdout[i]) <= MaxOut /\ Told(guest[i], stdout[i])
      /\ stdout \in [AppInstalls -> Seq(Pieces)]
  BY DEF RunInv, RunTypes, RunOK
<1>3. ASSUME NEW p \in Pieces
      PROVE  <<p>> \in Seq(Pieces) /\ Len(<<p>>) = 1 /\ \A n \in 1 .. Len(<<p>>) : <<p>>[n] = p
  OBVIOUS
<1>4. CASE guest' = [guest EXCEPT ![i] = "task"] /\ UNCHANGED stdout
  <2>1. Told("task", stdout[i])
    BY <1>1, <1>2 DEF Told
  <2>2. Speaks(i, "task", stdout[i])
    BY <1>1, <1>2, <1>4, <2>1 DEF Speaks, Guests
  <2> QED
    BY <1>1, <2>2
<1>5. ASSUME NEW g \in {"ok", "failed"}, guest' = [guest EXCEPT ![i] = g], Says(i, <<g>>)
      PROVE  \E h, said : Speaks(i, h, said) /\ h # "none"
  <2>1. g \in Pieces /\ g \in Guests \ {"none"}
    BY DEF Pieces, Guests
  <2>2. <<g>> \in Seq(Pieces) /\ Len(<<g>>) \in {1, 2} /\ Told(g, <<g>>)
    BY <1>3, <2>1 DEF Told
  <2> QED
    BY <1>1, <1>5, <2>1, <2>2, SaysPieces
<1>6. CASE UNCHANGED guest /\ Says(i, <<"line">>)
  <2>1. "line" \in Pieces /\ guest[i] \in Guests \ {"none"}
    BY <1>1, <1>2 DEF Pieces
  <2>2. <<"line">> \in Seq(Pieces) /\ Len(<<"line">>) \in {1, 2} /\ Told(guest[i], <<"line">>)
    BY <1>3, <2>1 DEF Told
  <2>3. guest' = [guest EXCEPT ![i] = guest[i]]
    BY <1>2, <1>6
  <2> QED
    BY <1>1, <1>6, <2>1, <2>2, <2>3, SaysPieces
<1>7. CASE guest' = [guest EXCEPT ![i] = "unmarked"] /\ Says(i, <<"half", "half">>)
  <2>1. <<"half", "half">> \in Seq(Pieces) /\ Len(<<"half", "half">>) = 2
        /\ \A n \in 1 .. 2 : <<"half", "half">>[n] = "half"
    BY DEF Pieces
  <2>2. Told("unmarked", <<"half", "half">>) /\ "unmarked" \in Guests \ {"none"}
    BY <2>1 DEF Told, Guests
  <2> QED
    BY <1>1, <1>7, <2>1, <2>2, SaysPieces
<1> QED
  BY <1>1, <1>4, <1>5, <1>6, <1>7
     DEF Runs, DoInstall, RunInstall, TaskLine, TaskEnds, TaskEndsMarked, DoneMessage

(* The steps that touch no installation.                                   *)
Elsewhere ==
  VmStarts \/ AddUrl \/ RemoveUrl \/ UrlDone \/ UserEdits \/ \E e \in Editors : EditGoesOn(e)

(* Every step is one of these.                                             *)
LEMMA AppCases ==
  ASSUME AppNext
  PROVE  \/ Elsewhere \/ VmStops
         \/ \E i \in AppInstalls : Ask(i) \/ Quiet(i) \/ Reads(i) \/ Runs(i)
BY DEF AppNext, HostSteps, Elsewhere, Quiet, Reads, Runs

(* They leave what is about installations alone.                           *)
LEMMA ElsewhereKeeps ==
  ASSUME Elsewhere
  PROVE  UNCHANGED <<inst, guest, stdout, ends, keys, crowded, installed, ports>>
BY DEF Elsewhere, VmStarts, AddUrl, RemoveUrl, UrlDone, UrlStep, UserEdits, EditGoesOn, appVars, runVars,
       keyVars, recordVars

(* An installation is asked for.                                           *)
LEMMA Asks ==
  ASSUME InstTypes, RunInv, NEW i \in AppInstalls, Ask(i)
  PROVE  /\ inst[i].pc = "new" /\ InstTypes' /\ RunInv' /\ UNCHANGED runVars
         /\ inst'[i].pc = "fetch"
         /\ \A j \in AppInstalls : j # i => inst'[j] = inst[j]
<1>1. PICK p \in {"control", "terminal"}, a \in Apps :
        inst' = [inst EXCEPT ![i] = [pc |-> "fetch", path |-> p, app |-> a, left |-> {}, done |-> 0]]
  BY DEF Ask
<1>2. inst[i].pc = "new" /\ UNCHANGED runVars
  BY DEF Ask
<1> DEFINE r == [pc |-> "fetch", path |-> p, app |-> a, left |-> {}, done |-> 0]
<1>3. r \in Asked /\ Reports(r) /\ r.pc = "fetch"
  BY DEF Asked, Reports, Stages
<1>4. inst' = [inst EXCEPT ![i] = r]
  BY <1>1
<1> HIDE DEF r
<1>5. inst'[i] = r /\ \A j \in AppInstalls : j # i => inst'[j] = inst[j]
  BY <1>4 DEF InstTypes
<1>6. InstTypes'
  BY <1>3, <1>4, <1>5 DEF InstTypes, Reports
<1>7. RunInv'
  <2>1. \A j \in AppInstalls : RunOK(j)'
    BY <1>2, <1>3, <1>5 DEF RunInv, RunOK, Told, Heard, runVars
  <2> QED
    BY <1>2, <2>1 DEF RunInv, RunTypes, runVars
<1> QED
  BY <1>2, <1>3, <1>5, <1>6, <1>7

(* The VM stops under all of them.                                         *)
LEMMA StopsKeep ==
  ASSUME InstTypes, RunInv, VmStops
  PROVE  /\ InstTypes' /\ RunInv' /\ UNCHANGED <<inst, stdout>>
         /\ \A i \in AppInstalls : guest'[i] = guest[i] \/ (guest[i] \in {"fetch", "task"} /\ guest'[i] = "killed")
<1>1. /\ UNCHANGED <<inst, stdout>>
      /\ guest' = [i \in AppInstalls |-> IF guest[i] \in {"fetch", "task"} THEN "killed" ELSE guest[i]]
      /\ ends' = [i \in AppInstalls |-> IF guest[i] # "none" /\ ends[i] = "open" THEN "cut" ELSE ends[i]]
  BY DEF VmStops
<1>2. \A i \in AppInstalls : guest'[i] = guest[i] \/ (guest[i] \in {"fetch", "task"} /\ guest'[i] = "killed")
  BY <1>1
<1>3. \A i \in AppInstalls : RunOK(i)'
  <2> SUFFICES ASSUME NEW i \in AppInstalls
               PROVE  RunOK(i)'
    OBVIOUS
  <2>1. RunOK(i)
    BY DEF RunInv
  <2>2. Told(guest[i], stdout[i])'
    BY <1>1, <1>2, <2>1 DEF RunOK, Told
  <2>3. Heard(inst[i].pc, guest[i])'
    BY <1>1, <1>2, <2>1 DEF RunOK, Heard
  <2> QED
    BY <2>2, <2>3 DEF RunOK
<1>4. RunTypes'
  BY <1>1 DEF RunInv, RunTypes, Guests
<1>5. InstTypes'
  BY <1>1 DEF InstTypes
<1> QED
  BY <1>1, <1>2, <1>3, <1>4, <1>5 DEF RunInv

(* A step of one installation: what it is and what runs for it.            *)
Acts(i, r, g) ==
  /\ InstTypes' /\ RunInv'
  /\ inst'[i] = r /\ \A j \in AppInstalls : j # i => inst'[j] = inst[j]
  /\ guest'[i] = g /\ \A j \in AppInstalls : j # i => guest'[j] = guest[j]
  /\ guest[i] = "ok" => g = "ok"
  /\ inst[i].pc # "new" /\ r.pc # "new" /\ r.app = inst[i].app

(* The quiet steps are such steps.                                         *)
LEMMA QuietActs ==
  ASSUME InstTypes, RunInv, NEW i \in AppInstalls, Quiet(i)
  PROVE  Acts(i, inst'[i], guest[i]) /\ UNCHANGED guest
<1>1. PICK r : Becomes(i, r) /\ Reports(r) /\ Heard(r.pc, guest[i])
  BY QuietGoes
<1>2. UNCHANGED <<guest, stdout, ends, connected>>
  BY QuietGoes DEF runVars
<1>3. InstTypes' /\ inst'[i] = r /\ \A j \in AppInstalls : j # i => inst'[j] = inst[j]
  BY <1>1, BecomesTypes
<1>4. r.pc # "new" /\ r.app = inst[i].app /\ inst[i].pc # "new"
  BY <1>1 DEF Becomes, Asked, Stages
<1>5. \A j \in AppInstalls : RunOK(j)'
  BY <1>1, <1>2, <1>3 DEF RunInv, RunOK, Told, Heard
<1>6. RunInv'
  BY <1>2, <1>5 DEF RunInv, RunTypes
<1> QED
  BY <1>2, <1>3, <1>4, <1>6 DEF Acts

(* So are those that read.                                                 *)
LEMMA ReadsActs ==
  ASSUME InstTypes, RunInv, NEW i \in AppInstalls, Reads(i)
  PROVE  Acts(i, inst'[i], guest'[i]) /\ Ahead(i, inst'[i], guest'[i])
<1>1. PICK r, g, said : Becomes(i, r) /\ Reports(r) /\ Speaks(i, g, said) /\ Heard(r.pc, g) /\ Ahead(i, r, g)
  BY ReadsGo
<1>2. /\ RunTypes' /\ guest'[i] = g /\ stdout'[i] = said
      /\ \A j \in AppInstalls : j # i => guest'[j] = guest[j] /\ stdout'[j] = stdout[j]
  BY <1>1, ReadsGo, SpeaksTypes
<1>3. InstTypes' /\ inst'[i] = r /\ \A j \in AppInstalls : j # i => inst'[j] = inst[j]
  BY <1>1, BecomesTypes
<1>4. r.pc # "new" /\ r.app = inst[i].app /\ inst[i].pc # "new"
  BY <1>1 DEF Becomes, Asked, Stages
<1>5. Told(g, said) /\ (guest[i] = "ok" => g = "ok")
  BY <1>1 DEF Speaks
<1>6. \A j \in AppInstalls : RunOK(j)'
  BY <1>1, <1>2, <1>3, <1>5 DEF RunInv, RunOK, Told, Heard
<1>7. RunInv'
  BY <1>2, <1>6 DEF RunInv
<1> QED
  BY <1>1, <1>2, <1>3, <1>4, <1>5, <1>7 DEF Acts

(* So are those in the VM.                                                 *)
LEMMA RunsActs ==
  ASSUME InstTypes, RunInv, NEW i \in AppInstalls, Runs(i)
  PROVE  /\ Acts(i, inst[i], guest'[i]) /\ UNCHANGED inst
         /\ guest[i] \in {"fetch", "task"}
<1>1. PICK g, said : Speaks(i, g, said) /\ g # "none"
  BY RunsSpeak
<1>2. UNCHANGED <<inst, ends>> /\ guest[i] \in {"fetch", "task"}
  BY RunsSpeak
<1>3. ends' \in [AppInstalls -> {"open", "cut", "closed"}]
  BY <1>2 DEF RunInv, RunTypes
<1>4. /\ RunTypes' /\ guest'[i] = g /\ stdout'[i] = said
      /\ \A j \in AppInstalls : j # i => guest'[j] = guest[j] /\ stdout'[j] = stdout[j]
  BY <1>1, <1>3, SpeaksTypes
<1>5. Told(g, said)
  BY <1>1 DEF Speaks
<1>6. Heard(inst[i].pc, guest[i])
  BY DEF RunInv, RunOK
<1>7. Heard(inst[i].pc, g) /\ inst[i].pc # "new"
  BY <1>2, <1>6 DEF Heard
<1>8. \A j \in AppInstalls : RunOK(j)'
  BY <1>2, <1>4, <1>5, <1>7 DEF RunInv, RunOK, Told, Heard
<1>9. RunInv' /\ InstTypes'
  BY <1>2, <1>4, <1>8 DEF RunInv, InstTypes
<1> QED
  BY <1>2, <1>4, <1>7, <1>9 DEF Acts

-----------------------------------------------------------------------------
(* The administration URLs under any step.                                 *)
LEMMA UrlSteps ==
  ASSUME UrlInv, InstTypes, AppNext
  PROVE  UrlInv'
<1>1. ASSUME NEW i \in AppInstalls, RegisterUrls(i)
      PROVE  UrlInv'
  <2>1. App(i) \in Apps
    <3>1. inst[i].pc = "urls"
      BY <1>1 DEF RegisterUrls
    <3> QED
      BY <3>1, InstKinds DEF Asked, App
  <2>2. CASE UrlMissing(App(i)) /\ urls < MaxUrls
    BY <1>1, <2>1, <2>2, RegisterUrlKeeps DEF RegisterUrls
  <2>3. CASE ~(UrlMissing(App(i)) /\ urls < MaxUrls)
    BY <1>1, <2>3 DEF RegisterUrls, UrlInv, Urls
  <2> QED
    BY <2>2, <2>3
<1>2. CASE AddUrl \/ RemoveUrl \/ UrlDone
  BY <1>2, UrlEdits
<1>3. CASE UNCHANGED urlVars
  BY <1>3 DEF urlVars, UrlInv, Urls
<1>4. CASE Elsewhere
  BY <1>2, <1>3, <1>4 DEF Elsewhere, VmStarts, UserEdits, EditGoesOn, appVars
<1>5. CASE VmStops
  BY <1>3, <1>5 DEF VmStops
<1>6. ASSUME NEW i \in AppInstalls, Ask(i) \/ Reads(i) \/ Runs(i)
      PROVE  UNCHANGED urlVars
  BY <1>6 DEF Ask, Reads, StartTerminal, StartControl, ReadAccepted, ReadOutput, ReadDone, ReadMark, ReadEnd,
              CloseTerminal, HostStep, Runs, DoInstall, RunInstall, TaskLine, TaskEnds, TaskEndsMarked, VmStep
<1>7. ASSUME NEW i \in AppInstalls, Quiet(i), ~RegisterUrls(i)
      PROVE  UNCHANGED urlVars
  BY <1>7 DEF Quiet, FetchTerminal, FetchControl, ClearKeys, InsertKey, RecordApp, TagApp, Tagged, MapPorts
<1> QED
  BY <1>1, <1>3, <1>4, <1>5, <1>6, <1>7, AppCases

(* What runs and the installations under any step.                         *)
LEMMA RunSteps ==
  ASSUME InstTypes, RunInv, AppNext
  PROVE  InstTypes' /\ RunInv'
<1>1. CASE Elsewhere
  <2>1. UNCHANGED <<inst, guest, stdout>>
    BY <1>1, ElsewhereKeeps
  <2>2. UNCHANGED ends
    BY <1>1 DEF Elsewhere, VmStarts, AddUrl, RemoveUrl, UrlDone, UrlStep, UserEdits, EditGoesOn, appVars, runVars
  <2> QED
    BY <2>1, <2>2 DEF InstTypes, RunInv, RunTypes, RunOK
<1>2. CASE VmStops
  BY <1>2, StopsKeep
<1>3. ASSUME NEW i \in AppInstalls, Ask(i) \/ Quiet(i) \/ Reads(i) \/ Runs(i)
      PROVE  InstTypes' /\ RunInv'
  BY <1>3, Asks, QuietActs, ReadsActs, RunsActs DEF Acts
<1> QED
  BY <1>1, <1>2, <1>3, AppCases

(* Nothing of it has happened.                                             *)
LEMMA AppInvInit == AppInit => SettingsInv /\ UrlInv /\ InstTypes /\ RunInv
<1> SUFFICES ASSUME AppInit
             PROVE  UrlInv /\ InstTypes /\ RunInv
  BY SettingsInvInit DEF AppInit
<1>1. UrlInv
  BY BoundAssumption DEF AppInit, UrlInv, NoUrl
<1>2. inst = [i \in AppInstalls |-> NotAsked] /\ \A i \in AppInstalls : inst[i].pc = "new"
  BY DEF AppInit, NotAsked
<1>3. InstTypes
  BY <1>2 DEF InstTypes
<1>4. /\ guest = [i \in AppInstalls |-> "none"] /\ stdout = [i \in AppInstalls |-> <<>>]
      /\ ends = [i \in AppInstalls |-> "open"]
  BY DEF AppInit
<1>5. <<>> \in Seq(Pieces) /\ Len(<<>>) = 0 /\ 0 <= MaxOut
  BY BoundAssumption
<1>6. RunTypes
  BY <1>4, <1>5 DEF RunTypes, Guests
<1>7. \A i \in AppInstalls : RunOK(i)
  BY <1>2, <1>4, <1>5 DEF RunOK, Told, Heard
<1> QED
  BY <1>1, <1>3, <1>6, <1>7 DEF RunInv

(* Steps of the settings alone, too, or steps of either.                   *)
RecordsNext == AppNext \/ (SettingsNext /\ UNCHANGED appVars)

(* The records under any step.                                             *)
LEMMA RecordsStep ==
  ASSUME SettingsInv, UrlInv, InstTypes, RunInv, RecordsNext \/ UNCHANGED <<appVars, settingsVars>>
  PROVE  SettingsInv' /\ UrlInv' /\ InstTypes' /\ RunInv'
<1>1. CASE AppNext
  <2>1. \A i \in AppInstalls : inst[i].pc # "new" => App(i) \in Apps
    BY InstKinds DEF Asked, App
  <2>2. SettingsInv'
    BY <1>1, <2>1, AppSettings, SettingsStep DEF SettingsInv
  <2> QED
    BY <1>1, <2>2, UrlSteps, RunSteps
<1>2. ASSUME UNCHANGED appVars
      PROVE  UrlInv' /\ InstTypes' /\ RunInv'
  BY <1>2 DEF appVars, urlVars, runVars, UrlInv, Urls, InstTypes, RunInv, RunTypes, RunOK
<1>3. CASE SettingsNext /\ UNCHANGED appVars
  BY <1>2, <1>3, SettingsNextStep
<1>4. CASE UNCHANGED <<appVars, settingsVars>>
  BY <1>2, <1>4, SettingsStep
<1> QED
  BY <1>1, <1>3, <1>4 DEF RecordsNext

(* Whatever edits of the settings there are, of the user and of            *)
(* installations, and whatever the default VM becomes: the row, the        *)
(* VmInstance and the platform agree when no edit is under way, unless     *)
(* edits overlapped; an edit of another column does not make the VM the    *)
(* default again; the table of URLs and the window's list agree.           *)
THEOREM RecordsAlwaysAgree ==
  AppInit /\ [][RecordsNext]_<<appVars, settingsVars>> => []RecordsAgree
<1>1. SettingsInv /\ UrlInv => RecordsAgree
  BY SettingsInvAgree DEF RecordsAgree, UrlsAgree, UrlInv
<1> QED
  BY <1>1, AppInvInit, RecordsStep, PTL

-----------------------------------------------------------------------------
(* The applications recorded: each by an installation that succeeded.      *)
RecordedInv ==
  /\ installed \subseteq Apps /\ ports \subseteq installed
  /\ \A i \in AppInstalls : inst[i].pc \in {"tag", "tagging", "port"} => App(i) \in installed
  /\ InstalledRan

(* The function keys: those that an installation has yet to insert are     *)
(* absent, and it is the only one of its application that inserts, unless  *)
(* the application is crowded.                                             *)
KeysApart(a) ==
  /\ \A i, j \in AppInstalls : RegistersKeys(i) /\ RegistersKeys(j) /\ App(i) = a /\ App(j) = a => i = j
  /\ \A l \in Labels : keys[a][l] <= 1
  /\ \A i \in AppInstalls : RegistersKeys(i) /\ App(i) = a => \A l \in inst[i].left : keys[a][l] = 0
KeysInv ==
  /\ keys \in [Apps -> [Labels -> Nat]]
  /\ \A a \in Apps \ crowded : KeysApart(a)

(* The description: an edit under way adds to it, and the tag of an        *)
(* installation is on the way or there.                                    *)
TagOf(i) ==
  /\ inst[i].pc = "tagging" => IF i \in ActiveEdits THEN App(i) \in editor[i].value
                                                    ELSE App(i) \in shown["description"]
  /\ inst[i].pc \in {"port", "shell"} /\ guest[i] = "ok" => App(i) \in shown["description"]
Tagging ==
  /\ \A e \in ActiveEdits : editor[e].field = "description" /\ shown["description"] \subseteq editor[e].value
  /\ \A i \in AppInstalls : TagOf(i)
TagInv == edits \in Nat /\ (overlap \/ edits # 0 \/ Tagging)

(* Where an installation is after Go and after Report.                     *)
LEMMA GoesTo ==
  ASSUME InstTypes, NEW i \in AppInstalls, inst[i].pc # "new", NEW s \in Stages, Go(i, s) \/ Report(i, s)
  PROVE  inst'[i].pc = s
<1>1. inst[i] \in Asked
  BY InstKinds
<1>2. CASE Go(i, s)
  <2>1. inst' = [inst EXCEPT ![i] = [inst[i] EXCEPT !.pc = s]]
    BY <1>2 DEF Go
  <2> QED
    BY <1>1, <2>1 DEF InstTypes, Asked
<1>3. CASE Report(i, s)
  <2> DEFINE q == [inst[i] EXCEPT !.pc = s]
  <2>1. inst' = [inst EXCEPT ![i] = [q EXCEPT !.done = inst[i].done + 1]]
    BY <1>3 DEF Report
  <2>2. q = [pc |-> s, path |-> inst[i].path, app |-> inst[i].app, left |-> inst[i].left, done |-> inst[i].done]
    BY <1>1 DEF Asked
  <2> HIDE DEF q
  <2>3. [q EXCEPT !.done = inst[i].done + 1].pc = s
    BY <2>2
  <2> QED
    BY <2>1, <2>3 DEF InstTypes
<1> QED
  BY <1>2, <1>3

(* Where the quiet steps lead.                                             *)
LEMMA QuietLeads ==
  ASSUME InstTypes, RunInv, NEW i \in AppInstalls, Quiet(i)
  PROVE  /\ ~ClearKeys(i) /\ ~InsertKey(i) => inst'[i].pc # "insert" /\ UNCHANGED keyVars
         /\ ~RecordApp(i) => UNCHANGED installed
         /\ ~RecordApp(i) /\ ~MapPorts(i) => UNCHANGED ports
         /\ inst'[i].pc \in {"tag", "tagging", "port"} => RecordApp(i) \/ TagApp(i) \/ Tagged(i)
         /\ inst'[i].pc \in {"port", "shell"} => TagApp(i) \/ Tagged(i) \/ MapPorts(i)
<1> USE DEF Stages
<1>1. CASE FetchTerminal(i) \/ FetchControl(i)
  <2>1. PICK s \in {"refused", "urls"} : inst[i].pc = "fetch" /\ Go(i, s)
    BY <1>1 DEF FetchTerminal, FetchControl
  <2>2. inst'[i].pc = s
    BY <2>1, GoesTo
  <2> QED
    BY <1>1, <2>2 DEF FetchTerminal, FetchControl, recordVars
<1>2. CASE RegisterUrls(i)
  <2>1. inst'[i].pc = "clear"
    BY <1>2, GoesTo DEF RegisterUrls
  <2> QED
    BY <1>2, <2>1 DEF RegisterUrls, recordVars
<1>3. CASE ClearKeys(i) \/ InsertKey(i)
  <2>1. inst[i].pc # "new" => inst[i] \in Asked
    BY InstKinds
  <2>2. inst[i] \in Asked
    BY <1>3, <2>1 DEF ClearKeys, InsertKey, RegistersKeys
  <2>3. ASSUME ClearKeys(i)
        PROVE  inst'[i].pc \in {"insert", "start"}
    <3> DEFINE r == [inst[i] EXCEPT !.pc = "insert", !.left = Labels]
    <3>1. inst' = [inst EXCEPT ![i] = r] /\ r.pc = "insert"
      BY <2>2, <2>3 DEF ClearKeys, Asked
    <3> HIDE DEF r
    <3> QED
      BY <3>1 DEF InstTypes
  <2>4. ASSUME InsertKey(i)
        PROVE  inst'[i].pc \in {"insert", "start"}
    <3>1. PICK l \in inst[i].left :
            inst' = [inst EXCEPT ![i].left = @ \ {l},
                                 ![i].pc = IF inst[i].left = {l} THEN "start" ELSE "insert"]
      BY <2>4 DEF InsertKey
    <3> DEFINE pc == IF inst[i].left = {l} THEN "start" ELSE "insert"
               left == inst[i].left \ {l}
               r == [inst[i] EXCEPT !.left = left, !.pc = pc]
    <3>2. inst' = [inst EXCEPT ![i] = r] /\ pc \in {"insert", "start"}
      BY <3>1
    <3> HIDE DEF pc, left
    <3>3. r.pc = pc
      BY <2>2 DEF Asked
    <3> HIDE DEF r
    <3> QED
      BY <3>2, <3>3 DEF InstTypes
  <2>5. inst'[i].pc \in {"insert", "start"}
    BY <1>3, <2>3, <2>4
  <2> QED
    BY <1>3, <2>5 DEF ClearKeys, InsertKey, recordVars
<1>4. CASE RecordApp(i)
  <2>1. inst'[i].pc = "tag"
    BY <1>4, GoesTo DEF RecordApp
  <2> QED
    BY <1>4, <2>1 DEF RecordApp
<1>5. CASE TagApp(i) \/ Tagged(i)
  <2>1. PICK s \in {"port", "tagging"} : inst[i].pc \in {"tag", "tagging"} /\ Go(i, s)
    BY <1>5 DEF TagApp, Tagged
  <2>2. inst'[i].pc = s
    BY <2>1, GoesTo
  <2> QED
    BY <1>5, <2>2 DEF TagApp, Tagged, recordVars
<1>6. CASE MapPorts(i)
  <2>1. PICK s \in {"shell", "over"} : inst[i].pc = "port" /\ (Go(i, s) \/ Report(i, s))
    BY <1>6 DEF MapPorts
  <2>2. inst'[i].pc = s
    BY <2>1, GoesTo
  <2> QED
    BY <1>6, <2>2 DEF MapPorts
<1> QED
  BY <1>1, <1>2, <1>3, <1>4, <1>5, <1>6 DEF Quiet

(* An installation stays one of its application, and its success stays.    *)
Lasts(j) ==
  inst[j].pc # "new" => /\ inst'[j].pc # "new" /\ App(j)' = App(j)
                        /\ guest[j] = "ok" => guest'[j] = "ok"

(* So it is with each, whatever the step.                                  *)
LEMMA EachLasts ==
  ASSUME InstTypes, RunInv, AppNext
  PROVE  \A j \in AppInstalls : Lasts(j)
<1> USE DEF Lasts, App
<1>1. CASE Elsewhere
  BY <1>1, ElsewhereKeeps
<1>2. CASE VmStops
  BY <1>2, StopsKeep
<1>3. ASSUME NEW i \in AppInstalls, Ask(i)
      PROVE  \A j \in AppInstalls : Lasts(j)
  BY <1>3, Asks DEF runVars
<1>4. ASSUME NEW i \in AppInstalls, Quiet(i)
      PROVE  \A j \in AppInstalls : Lasts(j)
  BY <1>4, QuietActs DEF Acts
<1>5. ASSUME NEW i \in AppInstalls, Reads(i)
      PROVE  \A j \in AppInstalls : Lasts(j)
  BY <1>5, ReadsActs DEF Acts
<1>6. ASSUME NEW i \in AppInstalls, Runs(i)
      PROVE  \A j \in AppInstalls : Lasts(j)
  BY <1>6, RunsActs DEF Acts
<1> QED
  BY <1>1, <1>2, <1>3, <1>4, <1>5, <1>6, AppCases

(* The steps that read or run record nothing and register nothing.         *)
LEMMA RunsRecordNothing ==
  ASSUME NEW i \in AppInstalls, Ask(i) \/ Reads(i) \/ Runs(i)
  PROVE  UNCHANGED <<keyVars, recordVars, settingsVars>>
BY DEF Ask, Reads, StartTerminal, StartControl, ReadAccepted, ReadOutput, ReadDone, ReadMark, ReadEnd,
       CloseTerminal, HostStep, Runs, DoInstall, RunInstall, TaskLine, TaskEnds, TaskEndsMarked, VmStep

(* An application is recorded by an installation that succeeded.           *)
LEMMA RecordedStep ==
  ASSUME InstTypes, RunInv, RecordedInv, AppNext
  PROVE  RecordedInv'
<1>1. \A j \in AppInstalls : Lasts(j)
  BY EachLasts
<1>2. UNCHANGED installed => InstalledRan'
  <2> SUFFICES ASSUME UNCHANGED installed, NEW a \in installed
               PROVE  \E i \in AppInstalls : (inst[i].pc # "new" /\ App(i) = a /\ guest[i] = "ok")'
    BY DEF InstalledRan
  <2>1. PICK i \in AppInstalls : inst[i].pc # "new" /\ App(i) = a /\ guest[i] = "ok"
    BY DEF RecordedInv, InstalledRan
  <2> QED
    BY <1>1, <2>1 DEF Lasts
<1>3. ASSUME UNCHANGED recordVars,
             \A i \in AppInstalls : inst'[i].pc \in {"tag", "tagging", "port"} =>
               inst[i].pc \in {"tag", "tagging", "port"}
      PROVE  RecordedInv'
  <2>1. \A i \in AppInstalls : inst'[i].pc \in {"tag", "tagging", "port"} => App(i)' \in installed
    BY <1>1, <1>3 DEF RecordedInv, Lasts
  <2> QED
    BY <1>2, <1>3, <2>1 DEF RecordedInv, recordVars
<1>4. CASE Elsewhere
  BY <1>3, <1>4, ElsewhereKeeps DEF recordVars
<1>5. CASE VmStops
  BY <1>3, <1>5 DEF VmStops
<1>6. ASSUME NEW i \in AppInstalls, Ask(i)
      PROVE  RecordedInv'
  BY <1>3, <1>6, Asks, RunsRecordNothing
<1>7. ASSUME NEW i \in AppInstalls, Reads(i)
      PROVE  RecordedInv'
  <2>1. UNCHANGED recordVars
    BY <1>7, RunsRecordNothing
  <2>2. inst'[i].pc \notin {"tag", "tagging", "port"} /\ \A j \in AppInstalls : j # i => inst'[j] = inst[j]
    BY <1>7, ReadsActs DEF Acts, Ahead
  <2> QED
    BY <1>3, <2>1, <2>2
<1>8. ASSUME NEW i \in AppInstalls, Runs(i)
      PROVE  RecordedInv'
  BY <1>3, <1>8, RunsActs, RunsRecordNothing
<1>9. ASSUME NEW i \in AppInstalls, Quiet(i)
      PROVE  RecordedInv'
  <2>1. \A j \in AppInstalls : j # i => inst'[j] = inst[j]
    BY <1>9, QuietActs DEF Acts
  <2>2. inst'[i].pc \in {"tag", "tagging", "port"} => RecordApp(i) \/ TagApp(i) \/ Tagged(i)
    BY <1>9, QuietLeads
  <2>3. CASE RecordApp(i)
    <3>1. installed' = installed \cup {App(i)} /\ ports' = ports /\ inst[i].pc = "record" /\ UNCHANGED guest
      BY <2>3 DEF RecordApp, Recorded, runVars
    <3>2. guest[i] = "ok" /\ App(i) \in Apps
      BY <3>1, InstKinds DEF RunInv, RunOK, Heard, Asked, App
    <3>3. App(i)' = App(i) /\ inst'[i].pc # "new"
      BY <1>1, <3>1 DEF Lasts
    <3>4. \A j \in AppInstalls : inst'[j].pc \in {"tag", "tagging", "port"} => App(j)' \in installed'
      BY <2>1, <3>1, <3>3 DEF RecordedInv, App
    <3>5. InstalledRan'
      <4> SUFFICES ASSUME NEW a \in installed'
                   PROVE  \E j \in AppInstalls : (inst[j].pc # "new" /\ App(j) = a /\ guest[j] = "ok")'
        BY DEF InstalledRan
      <4>1. CASE a = App(i)
        BY <3>1, <3>2, <3>3, <4>1
      <4>2. CASE a # App(i)
        <5>1. PICK j \in AppInstalls : inst[j].pc # "new" /\ App(j) = a /\ guest[j] = "ok"
          BY <3>1, <4>2 DEF RecordedInv, InstalledRan
        <5> QED
          BY <1>1, <5>1 DEF Lasts
      <4> QED
        BY <4>1, <4>2
    <3> QED
      BY <3>1, <3>2, <3>4, <3>5 DEF RecordedInv
  <2>4. CASE MapPorts(i)
    <3>1. UNCHANGED installed /\ ports' \subseteq ports \cup {App(i)} /\ inst[i].pc = "port"
      BY <2>4 DEF MapPorts
    <3>2. \A j \in AppInstalls : inst'[j].pc \in {"tag", "tagging", "port"} => App(j)' \in installed
      BY <1>1, <2>1, <2>2, <3>1 DEF RecordedInv, Lasts, RecordApp, TagApp, Tagged
    <3> QED
      BY <1>2, <3>1, <3>2 DEF RecordedInv
  <2>5. CASE ~RecordApp(i) /\ ~MapPorts(i)
    <3>1. UNCHANGED recordVars
      BY <1>9, <2>5, QuietLeads DEF recordVars
    <3> QED
      BY <1>3, <2>1, <2>2, <2>5, <3>1 DEF TagApp, Tagged
  <2> QED
    BY <2>3, <2>4, <2>5
<1> QED
  BY <1>4, <1>5, <1>6, <1>7, <1>8, <1>9, AppCases

(* No step that neither clears nor inserts begins to register keys.        *)
LEMMA KeysStay ==
  ASSUME KeysInv, UNCHANGED keyVars,
         \A j \in AppInstalls : inst'[j].pc = "insert" => inst'[j] = inst[j]
  PROVE  KeysInv'
<1>1. \A j \in AppInstalls : RegistersKeys(j)' => RegistersKeys(j) /\ App(j)' = App(j) /\ inst'[j].left = inst[j].left
  BY DEF RegistersKeys, App
<1>2. \A a \in Apps : KeysApart(a) => KeysApart(a)'
  BY <1>1 DEF KeysApart, keyVars
<1> QED
  BY <1>2 DEF KeysInv, keyVars

(* The keys are deleted.                                                   *)
LEMMA ClearKeep ==
  ASSUME KeysInv, InstTypes, NEW i \in AppInstalls, ClearKeys(i)
  PROVE  KeysInv'
<1>1. inst[i] \in Asked
  BY InstKinds DEF ClearKeys
<1>2. /\ keys' = [keys EXCEPT ![App(i)] = [l \in Labels |-> 0]]
      /\ crowded' = (crowded \ {App(i)}) \cup {App(j) : j \in SameApp(i)}
  BY DEF ClearKeys, KeysDeleted
<1> DEFINE r == [inst[i] EXCEPT !.pc = "insert", !.left = Labels]
<1>3. r.pc = "insert" /\ r.app = inst[i].app /\ r.left = Labels
  BY <1>1 DEF Asked
<1>4. inst' = [inst EXCEPT ![i] = r]
  BY DEF ClearKeys
<1> HIDE DEF r
<1>5. /\ RegistersKeys(i)' /\ App(i)' = App(i) /\ ~RegistersKeys(i) /\ App(i) \in Apps
      /\ \A j \in AppInstalls : j # i => inst'[j] = inst[j]
  BY <1>1, <1>3, <1>4 DEF RegistersKeys, App, ClearKeys, InstTypes, Asked
<1>6. /\ keys' \in [Apps -> [Labels -> Nat]] /\ \A l \in Labels : keys'[App(i)][l] = 0
      /\ \A a \in Apps : a # App(i) => keys'[a] = keys[a]
  BY <1>2, <1>5 DEF KeysInv
<1>7. ASSUME NEW a \in Apps \ crowded'
      PROVE  KeysApart(a)'
  <2>1. CASE a = App(i)
    <3>1. \A j \in AppInstalls : j # i /\ RegistersKeys(j) => App(j) # App(i)
      BY <1>2, <1>7, <2>1 DEF SameApp
    <3>2. \A j \in AppInstalls : RegistersKeys(j)' /\ App(j)' = App(i) => j = i
      BY <1>5, <3>1 DEF RegistersKeys, App
    <3>3. \A l \in Labels : keys'[a][l] <= 1
      BY <1>6, <2>1
    <3>4. \A j \in AppInstalls : RegistersKeys(j)' /\ App(j)' = a => \A l \in inst'[j].left : keys'[a][l] = 0
      BY <1>3, <1>4, <1>6, <2>1, <3>2 DEF InstTypes
    <3> QED
      BY <2>1, <3>2, <3>3, <3>4 DEF KeysApart
  <2>2. CASE a # App(i)
    <3>1. a \notin crowded
      BY <1>2, <1>7, <2>2
    <3>2. KeysApart(a)
      BY <3>1 DEF KeysInv
    <3>3. \A j \in AppInstalls : RegistersKeys(j)' /\ App(j)' = a =>
            RegistersKeys(j) /\ App(j) = a /\ inst'[j].left = inst[j].left
      BY <1>5, <2>2 DEF RegistersKeys, App
    <3> QED
      BY <1>6, <2>2, <3>2, <3>3 DEF KeysApart
  <2> QED
    BY <2>1, <2>2
<1> QED
  BY <1>6, <1>7 DEF KeysInv

(* One is inserted.                                                        *)
LEMMA InsertKeep ==
  ASSUME KeysInv, InstTypes, NEW i \in AppInstalls, InsertKey(i)
  PROVE  KeysInv'
<1>1. inst[i] \in Asked /\ RegistersKeys(i)
  BY InstKinds DEF InsertKey, RegistersKeys
<1>2. PICK l \in inst[i].left :
        /\ keys' = [keys EXCEPT ![App(i)][l] = @ + 1]
        /\ inst' = [inst EXCEPT ![i].left = @ \ {l},
                                ![i].pc = IF inst[i].left = {l} THEN "start" ELSE "insert"]
  BY DEF InsertKey
<1>3. crowded' = crowded /\ l \in Labels /\ App(i) \in Apps
  BY <1>1 DEF InsertKey, Asked, App
<1> DEFINE pc == IF inst[i].left = {l} THEN "start" ELSE "insert"
           left == inst[i].left \ {l}
           r == [inst[i] EXCEPT !.left = left, !.pc = pc]
<1>4. inst' = [inst EXCEPT ![i] = r]
  BY <1>2
<1>5. r.app = inst[i].app /\ r.left = inst[i].left \ {l}
  <2> HIDE DEF pc
  <2> QED
    BY <1>1 DEF Asked
<1> HIDE DEF r
<1>6. /\ App(i)' = App(i) /\ inst'[i].left = inst[i].left \ {l}
      /\ \A j \in AppInstalls : j # i => inst'[j] = inst[j]
  BY <1>4, <1>5 DEF App, InstTypes
<1> DEFINE row1 == [keys[App(i)] EXCEPT ![l] = keys[App(i)][l] + 1]
<1>7. keys' = [keys EXCEPT ![App(i)] = row1]
  BY <1>2
<1>8. row1 \in [Labels -> Nat] /\ row1[l] = keys[App(i)][l] + 1 /\ \A m \in Labels : m # l => row1[m] = keys[App(i)][m]
  BY <1>3 DEF KeysInv
<1> HIDE DEF row1
<1>9. /\ keys' \in [Apps -> [Labels -> Nat]] /\ keys'[App(i)] = row1
      /\ \A a \in Apps : a # App(i) => keys'[a] = keys[a]
  BY <1>3, <1>7, <1>8 DEF KeysInv
<1>10. ASSUME NEW a \in Apps \ crowded
       PROVE  KeysApart(a)'
  <2>1. KeysApart(a)
    BY DEF KeysInv
  <2>2. \A j \in AppInstalls : RegistersKeys(j)' /\ App(j)' = a =>
          RegistersKeys(j) /\ App(j) = a /\ inst'[j].left = IF j = i THEN inst[i].left \ {l} ELSE inst[j].left
    BY <1>1, <1>6 DEF RegistersKeys, App
  <2>3. CASE a = App(i)
    <3>1. keys[a][l] = 0 /\ keys'[a][l] = 1 /\ \A m \in Labels : m # l => keys'[a][m] = keys[a][m]
      BY <1>1, <1>8, <1>9, <2>1, <2>3 DEF KeysApart
    <3>2. \A m \in Labels : keys'[a][m] <= 1
      BY <2>1, <3>1 DEF KeysApart
    <3>3. \A j \in AppInstalls : RegistersKeys(j) /\ App(j) = a => j = i
      BY <1>1, <2>1, <2>3 DEF KeysApart
    <3>4. \A m \in inst[i].left \ {l} : keys'[a][m] = 0
      BY <1>1, <2>1, <2>3, <3>1 DEF KeysApart, Asked
    <3> QED
      BY <2>2, <3>2, <3>3, <3>4 DEF KeysApart
  <2>4. CASE a # App(i)
    BY <1>6, <1>9, <2>1, <2>2, <2>4 DEF KeysApart
  <2> QED
    BY <2>3, <2>4
<1> QED
  BY <1>3, <1>9, <1>10 DEF KeysInv

(* The keys under any step.                                                *)
LEMMA KeysStep ==
  ASSUME KeysInv, InstTypes, RunInv, AppNext
  PROVE  KeysInv'
<1>1. CASE Elsewhere
  BY <1>1, ElsewhereKeeps, KeysStay DEF keyVars
<1>2. CASE VmStops
  BY <1>2, KeysStay DEF VmStops
<1>3. ASSUME NEW i \in AppInstalls, Ask(i)
      PROVE  KeysInv'
  BY <1>3, Asks, RunsRecordNothing, KeysStay
<1>4. ASSUME NEW i \in AppInstalls, Reads(i)
      PROVE  KeysInv'
  <2>1. inst'[i].pc # "insert" /\ \A j \in AppInstalls : j # i => inst'[j] = inst[j]
    BY <1>4, ReadsActs DEF Acts, Ahead
  <2> QED
    BY <1>4, <2>1, RunsRecordNothing, KeysStay
<1>5. ASSUME NEW i \in AppInstalls, Runs(i)
      PROVE  KeysInv'
  BY <1>5, RunsActs, RunsRecordNothing, KeysStay
<1>6. ASSUME NEW i \in AppInstalls, Quiet(i), ~ClearKeys(i), ~InsertKey(i)
      PROVE  KeysInv'
  <2>1. inst'[i].pc # "insert" /\ UNCHANGED keyVars
    BY <1>6, QuietLeads
  <2>2. \A j \in AppInstalls : j # i => inst'[j] = inst[j]
    BY <1>6, QuietActs DEF Acts
  <2> QED
    BY <2>1, <2>2, KeysStay
<1> QED
  BY <1>1, <1>2, <1>3, <1>4, <1>5, <1>6, ClearKeep, InsertKeep, AppCases

(* The settings stay, and no installation comes to tag or is past its tag  *)
(* anew without it.                                                        *)
LEMMA TagStay ==
  ASSUME Tagging, UNCHANGED <<shown, editor>>,
         \A i \in AppInstalls :
           /\ inst'[i].pc = "tagging" => inst'[i] = inst[i]
           /\ inst'[i].pc \in {"port", "shell"} /\ guest'[i] = "ok" => App(i)' \in shown["description"]
  PROVE  Tagging'
<1>1. ActiveEdits' = ActiveEdits
  BY DEF ActiveEdits
<1>2. \A i \in AppInstalls : TagOf(i)'
  BY <1>1 DEF Tagging, TagOf, App
<1> QED
  BY <1>1, <1>2 DEF Tagging

(* An edit of the description begins while there is none.                  *)
LEMMA TagBegins ==
  ASSUME SettingsTypes, InstTypes, Tagging, NEW i \in AppInstalls, inst[i].pc = "tag",
         ActiveEdits = {}, BeginEdit(i, "description", WithTag(App(i))), Go(i, "tagging"), UNCHANGED guest
  PROVE  Tagging'
<1> DEFINE v == WithTag(App(i))
           q == [pc |-> "get", field |-> "description", value |-> v]
<1>1. editor' = [editor EXCEPT ![i] = q] /\ shown' = shown /\ i \in Editors
  BY AppAssumption DEF BeginEdit
<1>2. shown["description"] \subseteq v /\ App(i) \in v
  BY DEF WithTag
<1>3. q.field = "description" /\ q.value = v /\ q.pc = "get"
  OBVIOUS
<1> HIDE DEF q, v
<1>4. editor'[i] = q /\ \A e \in Editors : e # i => editor'[e] = editor[e]
  BY <1>1 DEF SettingsTypes
<1>5. ActiveEdits' = {i}
  BY <1>1, <1>3, <1>4 DEF ActiveEdits
<1>6. inst'[i].pc = "tagging"
  BY GoesTo DEF Stages
<1>7. PICK r : Becomes(i, r)
  BY Goes DEF Stages
<1>8. App(i)' = App(i) /\ \A j \in AppInstalls : j # i => inst'[j] = inst[j]
  BY <1>7 DEF Becomes, App, InstTypes
<1>9. TagOf(i)'
  BY <1>2, <1>3, <1>4, <1>5, <1>6, <1>8 DEF TagOf
<1>10. ASSUME NEW j \in AppInstalls, j # i
       PROVE  TagOf(j)'
  <2>1. TagOf(j) /\ App(j)' = App(j) /\ inst'[j] = inst[j]
    BY <1>8, <1>10 DEF Tagging, App
  <2> QED
    BY <1>1, <1>5, <1>10, <2>1 DEF TagOf
<1>11. \A e \in ActiveEdits' : editor'[e].field = "description" /\ shown'["description"] \subseteq editor'[e].value
  BY <1>1, <1>2, <1>3, <1>4, <1>5
<1> QED
  BY <1>9, <1>10, <1>11 DEF Tagging

(* An edit goes on.                                                        *)
LEMMA TagGoesOn ==
  ASSUME SettingsTypes, OneEdit, Tagging, NEW e \in Editors, EditSteps(e), UNCHANGED <<inst, guest>>
  PROVE  Tagging'
<1>0. e \in ActiveEdits /\ editor[e] # NoEditing /\ Along(editor[e]) /\ ActiveEdits = {e}
  <2>1. e \in ActiveEdits
    BY DEF EditSteps, GetRow, UpdateRow, ShowField, CreatePlatform, ActiveEdits
  <2> QED
    BY <2>1, EditorKinds DEF OneEdit
<1>1. /\ editor[e].field = "description" /\ shown["description"] \subseteq editor[e].value
      /\ \A i \in AppInstalls : TagOf(i)
  BY <1>0 DEF Tagging
<1>2. /\ editor[e] \in Begun <=> editor[e].pc = "get"
      /\ editor[e] \in Read <=> editor[e].pc \in {"update", "show", "create"}
  BY EditorKinds
<1>3. ASSUME UNCHANGED shown, NEW q, Turns(e, q), q # NoEditing, q.field = editor[e].field, q.value = editor[e].value
      PROVE  Tagging'
  <2>1. editor'[e] = q /\ ActiveEdits' = {e}
    BY <1>0, <1>3, TurnsTypes
  <2>2. \A i \in AppInstalls : TagOf(i)'
    BY <1>0, <1>1, <1>3, <2>1 DEF TagOf, App
  <2> QED
    BY <1>1, <1>3, <2>1, <2>2 DEF Tagging
<1>4. CASE GetRow(e)
  <2> DEFINE q == [pc |-> "update", field |-> editor[e].field, value |-> editor[e].value, read |-> row]
  <2>1. editor' = [editor EXCEPT ![e] = q] /\ UNCHANGED shown /\ editor[e] \in Begun
    BY <1>2, <1>4 DEF GetRow
  <2>2. q \in Read /\ q.field = editor[e].field /\ q.value = editor[e].value
    BY <2>1 DEF Begun, Read, SettingsTypes
  <2> HIDE DEF q
  <2>3. q # NoEditing /\ OfField(q.field, q.value)
    BY <1>0, <2>2 DEF Read, NoEditing, SettingsTypes
  <2> QED
    BY <1>3, <2>1, <2>2, <2>3 DEF Turns
<1>5. CASE UpdateRow(e)
  <2> DEFINE q == [editor[e] EXCEPT !.pc = "show"]
  <2>1. editor' = [editor EXCEPT ![e] = q] /\ UNCHANGED shown /\ editor[e] \in Read
    BY <1>2, <1>5 DEF UpdateRow
  <2>2. q \in Read /\ q.field = editor[e].field /\ q.value = editor[e].value
    BY <2>1 DEF Read
  <2> HIDE DEF q
  <2>3. q # NoEditing /\ OfField(q.field, q.value)
    BY <1>0, <2>2 DEF Read, NoEditing, SettingsTypes
  <2> QED
    BY <1>3, <2>1, <2>2, <2>3 DEF Turns
<1>6. CASE ShowField(e)
  <2>1. "description" \notin Config /\ "description" \in Fields
    BY DEF Config, Fields
  <2>2. editor' = [editor EXCEPT ![e] = NoEditing] /\ shown' = [shown EXCEPT !["description"] = editor[e].value]
    BY <1>1, <1>6, <2>1 DEF ShowField, SettingsTypes
  <2>3. ActiveEdits' = {}
    BY <1>0, <2>2, TurnsTypes DEF Turns
  <2>4. shown'["description"] = editor[e].value
    BY <2>1, <2>2 DEF SettingsTypes
  <2>5. \A i \in AppInstalls : TagOf(i)'
    BY <1>0, <1>1, <2>3, <2>4 DEF TagOf, App
  <2> QED
    BY <2>3, <2>5 DEF Tagging
<1>7. ~CreatePlatform(e)
  BY <1>0, <1>1 DEF CreatePlatform, Along, Config
<1> QED
  BY <1>4, <1>5, <1>6, <1>7 DEF EditSteps

(* The tag under any step.                                                 *)
LEMMA TagStep ==
  ASSUME SettingsInv, InstTypes, RunInv, TagInv, AppNext
  PROVE  TagInv'
<1>1. ASSUME UNCHANGED settingsVars, Tagging => Tagging'
      PROVE  TagInv'
  BY <1>1 DEF settingsVars, TagInv
<1>2. ASSUME UNCHANGED settingsVars, Tagging,
             \A i \in AppInstalls :
               /\ inst'[i].pc = "tagging" => inst'[i] = inst[i]
               /\ inst'[i].pc \in {"port", "shell"} /\ guest'[i] = "ok" => App(i)' \in shown["description"]
      PROVE  Tagging'
  BY <1>2, TagStay DEF settingsVars
<1>3. CASE Elsewhere
  <2>1. UNCHANGED <<inst, guest>>
    BY <1>3, ElsewhereKeeps
  <2>2. CASE VmStarts \/ AddUrl \/ RemoveUrl \/ UrlDone
    <3>1. UNCHANGED settingsVars
      BY <2>2 DEF VmStarts, AddUrl, RemoveUrl, UrlDone, UrlStep
    <3>2. Tagging => Tagging'
      BY <2>1, <3>1, TagStay DEF Tagging, TagOf, App, settingsVars
    <3> QED
      BY <1>1, <3>1, <3>2
  <2>3. CASE UserEdits
    BY <2>3 DEF UserEdits, UpdateDescription, Counted, TagInv
  <2>4. ASSUME NEW e \in Editors, EditGoesOn(e)
        PROVE  TagInv'
    <3>1. EditSteps(e) /\ UNCHANGED <<edits, overlap>>
      BY <2>4 DEF EditGoesOn, EditSteps, GetRow, UpdateRow, ShowField, CreatePlatform
    <3>2. ~overlap /\ Tagging => Tagging'
      BY <2>1, <3>1, TagGoesOn DEF SettingsInv
    <3> QED
      BY <3>1, <3>2 DEF TagInv
  <2> QED
    BY <1>3, <2>2, <2>3, <2>4 DEF Elsewhere
<1>4. CASE VmStops
  <2>1. UNCHANGED <<settingsVars, inst>> /\ \A i \in AppInstalls : guest'[i] = "ok" => guest[i] = "ok"
    BY <1>4, StopsKeep DEF VmStops
  <2>2. Tagging => Tagging'
    BY <1>2, <2>1 DEF Tagging, TagOf, App
  <2> QED
    BY <1>1, <2>1, <2>2
<1>5. ASSUME NEW i \in AppInstalls, Ask(i)
      PROVE  TagInv'
  <2>1. UNCHANGED <<settingsVars, guest>> /\ inst'[i].pc = "fetch" /\ \A j \in AppInstalls : j # i => inst'[j] = inst[j]
    BY <1>5, Asks, RunsRecordNothing DEF runVars
  <2>2. Tagging => Tagging'
    BY <1>2, <2>1 DEF Tagging, TagOf, App
  <2> QED
    BY <1>1, <2>1, <2>2
<1>6. ASSUME NEW i \in AppInstalls, Reads(i)
      PROVE  TagInv'
  <2>1. /\ UNCHANGED settingsVars /\ App(i)' = App(i)
        /\ inst'[i].pc \notin {"tagging", "port"}
        /\ inst'[i].pc = "shell" /\ guest'[i] = "ok" => inst[i].pc = "shell" /\ guest[i] = "ok"
        /\ \A j \in AppInstalls : j # i => inst'[j] = inst[j] /\ guest'[j] = guest[j]
    BY <1>6, ReadsActs, RunsRecordNothing DEF Acts, Ahead, App
  <2>2. Tagging => Tagging'
    BY <1>2, <2>1 DEF Tagging, TagOf, App
  <2> QED
    BY <1>1, <2>1, <2>2
<1>7. ASSUME NEW i \in AppInstalls, Runs(i)
      PROVE  TagInv'
  <2>1. /\ UNCHANGED <<settingsVars, inst>> /\ guest[i] \in {"fetch", "task"}
        /\ \A j \in AppInstalls : j # i => guest'[j] = guest[j]
    BY <1>7, RunsActs, RunsRecordNothing DEF Acts
  <2>2. inst[i].pc \notin {"port", "shell"}
    BY <2>1 DEF RunInv, RunOK, Heard
  <2>3. Tagging => Tagging'
    BY <1>2, <2>1, <2>2 DEF Tagging, TagOf, App
  <2> QED
    BY <1>1, <2>1, <2>3
<1>8. ASSUME NEW i \in AppInstalls, Quiet(i)
      PROVE  TagInv'
  <2>1. /\ UNCHANGED guest /\ App(i)' = App(i) /\ \A j \in AppInstalls : j # i => inst'[j] = inst[j]
    BY <1>8, QuietActs DEF Acts, App
  <2>2. CASE TagApp(i) /\ ~HasTag(App(i))
    <3>1. /\ BeginEdit(i, "description", WithTag(App(i))) /\ UNCHANGED edits /\ Go(i, "tagging")
          /\ inst[i].pc = "tag"
      BY <2>2 DEF TagApp, AppendTag
    <3>2. ~overlap' => ~overlap /\ ActiveEdits = {}
      BY <3>1 DEF BeginEdit
    <3>3. ~overlap' /\ Tagging => Tagging'
      BY <2>1, <3>1, <3>2, TagBegins DEF SettingsInv
    <3> QED
      BY <3>1, <3>2, <3>3 DEF TagInv
  <2>3. CASE TagApp(i) /\ HasTag(App(i))
    <3>1. UNCHANGED settingsVars /\ Go(i, "port") /\ inst[i].pc = "tag" /\ App(i) \in shown["description"]
      BY <2>3 DEF TagApp, HasTag, AppendTag
    <3>2. inst'[i].pc = "port"
      BY <3>1, GoesTo DEF Stages
    <3>3. Tagging => Tagging'
      BY <1>2, <2>1, <3>1, <3>2 DEF Tagging, TagOf, App
    <3> QED
      BY <1>1, <3>1, <3>3
  <2>4. CASE Tagged(i)
    <3>1. UNCHANGED settingsVars /\ Go(i, "port") /\ inst[i].pc = "tagging" /\ i \notin ActiveEdits
      BY <2>4 DEF Tagged, ActiveEdits
    <3>2. inst'[i].pc = "port"
      BY <3>1, GoesTo DEF Stages
    <3>3. Tagging => Tagging'
      BY <1>2, <2>1, <3>1, <3>2 DEF Tagging, TagOf, App
    <3> QED
      BY <1>1, <3>1, <3>3
  <2>5. CASE MapPorts(i)
    <3>1. UNCHANGED settingsVars /\ inst[i].pc = "port"
      BY <2>5 DEF MapPorts
    <3>2. guest[i] = "ok" /\ inst'[i].pc # "tagging"
      <4>1. guest[i] = "ok"
        BY <3>1 DEF RunInv, RunOK, Heard
      <4>2. PICK s \in {"shell", "over"} : Go(i, s) \/ Report(i, s)
        BY <2>5 DEF MapPorts
      <4> QED
        BY <3>1, <4>1, <4>2, GoesTo DEF Stages
    <3>3. Tagging => Tagging'
      BY <1>2, <2>1, <3>1, <3>2 DEF Tagging, TagOf, App
    <3> QED
      BY <1>1, <3>1, <3>3
  <2>6. CASE ~TagApp(i) /\ ~Tagged(i) /\ ~MapPorts(i)
    <3>1. UNCHANGED settingsVars
      BY <1>8, <2>6 DEF Quiet, FetchTerminal, FetchControl, RegisterUrls, ClearKeys, InsertKey, RecordApp
    <3>2. inst'[i].pc \notin {"tagging", "port", "shell"}
      <4>1. inst'[i].pc \notin {"port", "shell"}
        BY <1>8, <2>6, QuietLeads
      <4>2. RecordApp(i) => inst'[i].pc = "tag"
        BY GoesTo DEF RecordApp, Stages
      <4> QED
        BY <1>8, <2>6, <4>1, <4>2, QuietLeads
    <3>3. Tagging => Tagging'
      BY <1>2, <2>1, <3>1, <3>2 DEF Tagging, TagOf, App
    <3> QED
      BY <1>1, <3>1, <3>3
  <2> QED
    BY <2>2, <2>3, <2>4, <2>5, <2>6
<1> QED
  BY <1>3, <1>4, <1>5, <1>6, <1>7, <1>8, AppCases

(* The inductive invariant of the installations.                           *)
AppInv == SettingsInv /\ UrlInv /\ InstTypes /\ RunInv /\ RecordedInv /\ KeysInv /\ TagInv

(* What it says of them.                                                   *)
LEMMA AppInvSafe == AppInv => AppsSafe
<1> SUFFICES ASSUME AppInv
             PROVE  AppsSafe
  OBVIOUS
<1>0. /\ SettingsInv /\ UrlInv /\ InstTypes /\ RunInv /\ RecordedInv /\ KeysInv /\ TagInv
  BY DEF AppInv
<1>1. AppTypeOK
  <2>1. ASSUME NEW i \in AppInstalls, inst[i].pc # "new"
        PROVE  /\ inst[i].pc \in Stages /\ inst[i].path \in {"control", "terminal"}
               /\ inst[i].app \in Apps /\ inst[i].left \subseteq Labels /\ inst[i].done \in 0 .. 2
    BY <1>0, <2>1, InstKinds DEF Asked
  <2>2. urlRows \subseteq (1 .. MaxUrls) \X (Apps \cup {"user"})
    BY <1>0, BoundAssumption DEF UrlInv, Urls
  <2>3. guest \in [AppInstalls -> Guests] /\ ends \in [AppInstalls -> {"open", "cut", "closed"}]
        /\ \A i \in AppInstalls : Len(stdout[i]) <= MaxOut
    BY <1>0 DEF RunInv, RunTypes
  <2> QED
    BY <1>0, <2>1, <2>2, <2>3 DEF AppTypeOK, RecordedInv, KeysInv, Guests
<1>2. InstalledRan
  BY <1>0 DEF RecordedInv
<1>3. ReportedOnce
  <2> SUFFICES ASSUME NEW i \in AppInstalls, inst[i].pc # "new"
               PROVE  /\ inst[i].done <= 1
                      /\ inst[i].pc = "over" /\ ~Terminal(i) => inst[i].done = 1
                      /\ inst[i].pc = "shell" => inst[i].done = 1
    BY DEF ReportedOnce
  <2>1. inst[i] \in Asked /\ Reports(inst[i])
    BY <1>0, InstKinds
  <2> QED
    BY <2>1 DEF Asked, Reports, Terminal
<1>4. InstalledTagged
  <2> SUFFICES ASSUME NEW i \in AppInstalls, inst[i].pc \in {"port", "shell"}, guest[i] = "ok",
                      ~overlap, edits = 0
               PROVE  App(i) \in row.description /\ App(i) \in shown.description
    BY DEF InstalledTagged
  <2>1. Tagging /\ OneEdit
    BY <1>0 DEF TagInv, SettingsInv
  <2>2. App(i) \in shown["description"]
    BY <2>1 DEF Tagging, TagOf
  <2>3. "description" \in Fields /\ "description" \notin Config /\ row["description"] = row.description
    BY <1>0, RowFields DEF SettingsInv, SettingsTypes, Fields, Config
  <2>4. shown["description"] \subseteq row["description"]
    <3>1. CASE ActiveEdits = {}
      BY <2>1, <2>3, <3>1 DEF OneEdit, ShownIs
    <3>2. ASSUME NEW e \in ActiveEdits
          PROVE  shown["description"] \subseteq row["description"]
      <4>1. Along(editor[e]) /\ editor[e].field = "description" /\ shown["description"] \subseteq editor[e].value
        BY <2>1 DEF OneEdit, Tagging
      <4>2. editor[e].pc \in {"get", "update", "show", "create"}
        BY <1>0, EditorKinds DEF ActiveEdits, SettingsInv, Begun, Read
      <4> QED
        BY <2>3, <4>1, <4>2 DEF Along, ShownIs
    <3> QED
      BY <3>1, <3>2
  <2> QED
    BY <2>2, <2>3, <2>4
<1>5. KeysOnce
  BY <1>0 DEF KeysOnce, KeysInv, KeysApart
<1> QED
  BY <1>1, <1>2, <1>3, <1>4, <1>5 DEF AppsSafe

(* Before the first is asked for.                                          *)
LEMMA AppInvStarts == AppInit => AppInv
<1> SUFFICES ASSUME AppInit
             PROVE  RecordedInv /\ KeysInv /\ TagInv
  BY AppInvInit DEF AppInv
<1>1. \A i \in AppInstalls : inst[i].pc = "new"
  BY DEF AppInit, NotAsked
<1>2. RecordedInv
  BY <1>1 DEF AppInit, RecordedInv, InstalledRan
<1>3. keys = [a \in Apps |-> [l \in Labels |-> 0]]
  BY DEF AppInit
<1>4. KeysInv
  BY <1>1, <1>3 DEF KeysInv, KeysApart, RegistersKeys
<1>5. ActiveEdits = {} /\ edits = 0
  BY DEF AppInit, SettingsInit, ActiveEdits, NoEditing
<1>6. TagInv
  BY <1>1, <1>5 DEF TagInv, Tagging, TagOf
<1> QED
  BY <1>2, <1>4, <1>6

(* However installations of applications overlap with one another, with    *)
(* the stops of the VM and with the edits of the user: only what ran to    *)
(* success is recorded, each end is reported once, what is recorded is in  *)
(* the description unless the user or an overlapping edit took it out, and *)
(* its function keys are there once unless two installations of the same   *)
(* application registered them at the same time.                           *)
THEOREM AppsAreSafe ==
  AppInit /\ [][AppNext]_<<appVars, settingsVars>> => []AppsSafe
<1>1. AppInv /\ [AppNext]_<<appVars, settingsVars>> => AppInv'
  <2> SUFFICES ASSUME AppInv, [AppNext]_<<appVars, settingsVars>>
               PROVE  AppInv'
    OBVIOUS
  <2>1. CASE AppNext
    <3>1. SettingsInv' /\ UrlInv' /\ InstTypes' /\ RunInv'
      BY <2>1, RecordsStep DEF AppInv, RecordsNext
    <3> QED
      BY <2>1, <3>1, RecordedStep, KeysStep, TagStep DEF AppInv
  <2>2. CASE UNCHANGED <<appVars, settingsVars>>
    <3>1. SettingsInv' /\ UrlInv' /\ InstTypes' /\ RunInv'
      BY <2>2, RecordsStep DEF AppInv
    <3>2. UNCHANGED <<inst, guest, keys, crowded, installed, ports, editor, shown, overlap, edits>>
      BY <2>2 DEF appVars, runVars, keyVars, recordVars, settingsVars
    <3>3. RecordedInv'
      BY <3>2 DEF AppInv, RecordedInv, InstalledRan, App
    <3>4. KeysInv'
      BY <3>2 DEF AppInv, KeysInv, KeysApart, RegistersKeys, App
    <3>5. TagInv'
      BY <3>2 DEF AppInv, TagInv, Tagging, TagOf, ActiveEdits, App
    <3> QED
      BY <3>1, <3>3, <3>4, <3>5 DEF AppInv
  <2> QED
    BY <2>1, <2>2
<1> QED
  BY <1>1, AppInvStarts, AppInvSafe, PTL

=============================================================================
