------------------------------ MODULE VmInstall ------------------------------
(***************************************************************************)
(* Installing VMs of one store app (vm_install.rs): from the store         *)
(* (install_from_manifest_url) and from the local cache                    *)
(* (install_from_cache).  Every install runs in its own task and its own   *)
(* fresh VM directory; they share the cache directories and the vms table. *)
(*                                                                         *)
(* A version stands for the content of its archive and for that content's  *)
(* SHA-256 at once.  Altered is a well-formed archive that is none of the  *)
(* published ones, Partial a file whose copy has not finished, None an     *)
(* absent file or hash.                                                    *)
(***************************************************************************)
EXTENDS Naturals, FiniteSets, Sequences

CONSTANTS Installs,      \* the installs that may be started
          Offline,       \* the ones started from the cache, a subset
          MaxVersion,    \* bound: versions the store publishes
          MaxCrashes,    \* bound: crashes of the host process
          None, Partial, Altered

ASSUME InstallsAssumption == IsFiniteSet(Installs) /\ Offline \subseteq Installs
ASSUME VersionAssumption == MaxVersion \in Nat \ {0} /\ {None, Partial, Altered} \cap Nat = {}
ASSUME MarksAssumption == None # Partial /\ None # Altered /\ Partial # Altered

VARIABLES published,   \* the version the store serves now
          hashed,      \* manifests name the archive's SHA-256
          cacheable,   \* manifests set tauri_cacheable
          cache,       \* cache key -> the files of its directory
          ins,         \* the installs
          rows,        \* install -> its row of the vms table
          crashes,
          overwritten  \* keys whose entry two installs wrote at once, or one over another's

installVars == <<published, hashed, cacheable, cache, ins, rows, crashes, overwritten>>

Versions == 1 .. MaxVersion

\* cache_key_for: the manifest's hash when it has one, else the hash of the URL (key 0).
Keys == 0 .. MaxVersion
CacheKeyFor(v) == IF hashed THEN v ELSE 0

NoDir == [zip |-> None, manifest |-> None, full |-> None, app |-> FALSE, sha |-> None, there |-> FALSE]
EmptyDir == [NoDir EXCEPT !.there = TRUE]

\* A new install; seen is the set of installs whose rows its name was chosen against.
NewInstall == [pc |-> "new", manifest |-> None, name |-> 0, seen |-> {}, expected |-> None,
               archive |-> None, saving |-> FALSE, saved |-> 0, hash |-> None, disk |-> None]

NoRow == [name |-> 0, disk |-> None, hash |-> None, there |-> FALSE]

InstallInit ==
  /\ published = 1
  /\ hashed \in BOOLEAN
  /\ cacheable \in BOOLEAN
  /\ cache = [k \in Keys |-> NoDir]
  /\ ins = [i \in Installs |-> NewInstall]
  /\ rows = [i \in Installs |-> NoRow]
  /\ crashes = 0
  /\ overwritten = {}

Registered == {i \in Installs : rows[i].there}

Step(i, r) == ins' = [ins EXCEPT ![i] = r]
Fail(i) == Step(i, [ins[i] EXCEPT !.pc = "failed"])
KeepCache == UNCHANGED <<cache, overwritten>>
KeepRest == UNCHANGED <<published, hashed, cacheable, crashes>>

----------------------------------------------------------------------------
\* unique_vm_name: the manifest's name (0), or the first "name (n)" no row has.
UniqueName ==
  CHOOSE n \in 0 .. Cardinality(Installs) :
    /\ \A i \in Registered : rows[i].name # n
    /\ \A m \in 0 .. n - 1 : \E i \in Registered : rows[i].name = m

\* Platform check passed: VM directory made, name chosen.
Named(i, v, pc) ==
  Step(i, [ins[i] EXCEPT !.pc = pc, !.manifest = v, !.name = UniqueName, !.seen = Registered])

\* A manifest's answer: its version field, whether all fields are there, the
\* ciphertext opens, the key is known, the signature fits the payload and the
\* hash the manifest.
Envelopes == [version : {1, 2, 3}, fields : BOOLEAN, opens : BOOLEAN, key : BOOLEAN,
              signature : BOOLEAN, sha : BOOLEAN]

\* parse_envelope: version 3 is decrypted here, what is neither 3 nor 2 is legacy.
ParseEnvelope(e) == e.fields /\ (e.version = 3 => e.opens)

\* verify_envelope: key and signature of a signed one; the hash of all.
VerifyEnvelope(e) == (e.version \in {2, 3} => e.key /\ e.signature) /\ e.sha

\* fetch_manifest: the store's manifest of now, its envelope verified; or an error.
FetchManifest(i) ==
  /\ i \notin Offline
  /\ ins[i].pc = "new"
  /\ \E accepted \in {ParseEnvelope(e) /\ VerifyEnvelope(e) : e \in Envelopes} :
       IF accepted THEN Named(i, published, "url") ELSE Fail(i)
  /\ UNCHANGED rows /\ KeepCache /\ KeepRest

ManifestSha(v) == IF hashed THEN v ELSE None

\* request_download_url: the hash of the version served now or none, or
\* unavailable, when the manifest's own hash is what is expected.
RequestUrl(i) ==
  /\ ins[i].pc = "url"
  /\ \E e \in {published, None, ManifestSha(ins[i].manifest)} :
       Step(i, [ins[i] EXCEPT !.expected = e, !.pc = IF cacheable THEN "cache" ELSE "download"])
  /\ UNCHANGED rows /\ KeepCache /\ KeepRest

\* The installs in the middle of a save to the entry of key k.
Savers(k) == {i \in Installs : ins[i].pc = "save" /\ ins[i].saved > 0
                               /\ CacheKeyFor(ins[i].manifest) = k}

RemoveDir(k) == /\ cache' = [cache EXCEPT ![k] = NoDir]
                /\ overwritten' = IF Savers(k) = {} THEN overwritten \ {k} ELSE overwritten

\* The cached archive is good when it was saved under this very manifest and
\* still has the expected hash, if one is known.
CacheValid(i, d) ==
  /\ d.manifest = ins[i].manifest
  /\ ins[i].expected = None \/ d.zip = ins[i].expected

\* Cache lookup: copy the archive, or remove a stale or damaged entry and download.
CheckCache(i) ==
  LET k == CacheKeyFor(ins[i].manifest) IN
  /\ ins[i].pc = "cache"
  /\ \/ cache[k].zip = None /\ Step(i, [ins[i] EXCEPT !.pc = "download"]) /\ KeepCache
     \/ /\ cache[k].zip # None /\ CacheValid(i, cache[k])
        /\ Step(i, [ins[i] EXCEPT !.pc = "copy"]) /\ KeepCache
     \/ /\ cache[k].zip # None /\ ~CacheValid(i, cache[k])
        /\ Step(i, [ins[i] EXCEPT !.pc = "download"]) /\ RemoveDir(k)
  /\ UNCHANGED rows /\ KeepRest

\* The copy of the cached archive, which another install may by now be
\* rewriting or have removed; a missing full manifest is added to the entry.
CopyCached(i) ==
  LET k == CacheKeyFor(ins[i].manifest) IN
  /\ ins[i].pc = "copy"
  /\ \/ /\ cache[k].zip # None
        /\ Step(i, [ins[i] EXCEPT !.archive = cache[k].zip, !.pc = "verify"])
        /\ IF cache[k].full # None THEN KeepCache
           ELSE /\ cache' = [cache EXCEPT ![k].full = ins[i].manifest]
                /\ overwritten' = IF Savers(k) # {} THEN overwritten \cup {k} ELSE overwritten
     \/ cache[k].zip = None /\ Fail(i) /\ KeepCache
  /\ UNCHANGED rows /\ KeepRest

\* download_file_with_hash through a .part file that is renamed when it is whole:
\* the archive of the manifest's version, of the version served now, an altered
\* one, or an error.  Without a cache the streamed hash is compared at once.
Download(i) ==
  /\ ins[i].pc = "download"
  /\ \/ \E c \in {ins[i].manifest, published, Altered} :
          IF ~cacheable /\ ins[i].expected # None /\ c # ins[i].expected
            THEN Fail(i)
            ELSE Step(i, [ins[i] EXCEPT !.archive = c, !.saving = cacheable, !.pc = "verify"])
     \/ Fail(i)
  /\ UNCHANGED rows /\ KeepCache /\ KeepRest

\* verify_sha256
Verifies(i, h) == ins[i].archive = h

\* Every archive is verified when a hash is known, the signed one before the
\* manifest's; only then is it saved to the cache.
VerifyArchive(i) ==
  LET h == IF ins[i].expected # None THEN ins[i].expected ELSE ManifestSha(ins[i].manifest) IN
  /\ ins[i].pc = "verify"
  /\ IF h = None \/ Verifies(i, h)
       THEN Step(i, [ins[i] EXCEPT !.hash = h, !.pc = IF ins[i].saving THEN "save" ELSE "extract"])
       ELSE Fail(i)
  /\ UNCHANGED rows /\ KeepCache /\ KeepRest

----------------------------------------------------------------------------
\* fault: the entry is described before its archive is copied.
SaveOrderLast == <<"mkdir", "manifest", "full", "app", "zip", "whole", "sha", "evict">>

\* save_to_cache: its writes in their order; "zip" truncates the file, "whole" is
\* the end of the copy.
SaveOrder == <<"mkdir", "zip", "whole", "manifest", "full", "app", "sha", "evict">>

Written(i, w, d) ==
  CASE w = "zip"      -> [d EXCEPT !.zip = Partial]
    [] w = "whole"    -> [d EXCEPT !.zip = ins[i].archive]
    [] w = "manifest" -> [d EXCEPT !.manifest = ins[i].manifest]
    [] w = "full"     -> [d EXCEPT !.full = ins[i].manifest]
    [] w = "app"      -> [d EXCEPT !.app = TRUE]
    [] w = "sha"      -> IF ins[i].hash # None THEN [d EXCEPT !.sha = ins[i].hash] ELSE d

\* evict_old_caches: the other entries that carry this app's id are removed.
Evict(k) == /\ cache' = [l \in Keys |-> IF l # k /\ cache[l].app THEN NoDir ELSE cache[l]]
            /\ overwritten' = {l \in overwritten : l = k \/ ~cache[l].app \/ Savers(l) # {}}

\* One write of save_to_cache; an install whose directory was removed under it fails.
SaveStep(i) ==
  LET k == CacheKeyFor(ins[i].manifest)
      w == SaveOrder[ins[i].saved + 1]
      Next1 == Step(i, [ins[i] EXCEPT !.saved = @ + 1,
                                      !.pc = IF w = "evict" THEN "extract" ELSE "save"])
  IN
  /\ ins[i].pc = "save"
  /\ \/ /\ w = "mkdir"
        /\ cache' = [cache EXCEPT ![k] = IF @.there THEN @ ELSE EmptyDir]
        /\ overwritten' = IF cache[k].there \/ Savers(k) # {} THEN overwritten \cup {k} ELSE overwritten
        /\ Next1
     \/ w = "evict" /\ Evict(k) /\ Next1
     \/ /\ w \notin {"mkdir", "evict"} /\ cache[k].there
        /\ cache' = [cache EXCEPT ![k] = Written(i, w, @)]
        /\ UNCHANGED overwritten /\ Next1
     \/ w \notin {"mkdir", "evict"} /\ ~cache[k].there /\ Fail(i) /\ KeepCache
  /\ UNCHANGED rows /\ KeepRest

----------------------------------------------------------------------------
\* What list_cached_images shows: an archive and a full manifest are there.
Listed(d) == d.zip # None /\ d.full # None

\* install_from_cache finds the entry by its app_id file and reads its manifest.
FindCached(i) ==
  /\ i \in Offline
  /\ ins[i].pc = "new"
  /\ \/ \E k \in Keys : /\ cache[k].app /\ Listed(cache[k])
                        /\ Named(i, cache[k].full, "copy_off") \/ Fail(i)
     \/ (\A k \in Keys : ~(cache[k].app /\ Listed(cache[k]))) /\ Fail(i)
  /\ UNCHANGED rows /\ KeepCache /\ KeepRest

\* The copy, from the directory the manifest was found in.
CopyOffline(i) ==
  LET k == CacheKeyFor(ins[i].manifest) IN
  /\ ins[i].pc = "copy_off"
  /\ IF cache[k].zip = None THEN Fail(i)
     ELSE Step(i, [ins[i] EXCEPT !.archive = cache[k].zip, !.pc = "verify_off"])
  /\ UNCHANGED rows /\ KeepCache /\ KeepRest

\* The copy is compared with disk.sha256, else with the manifest's hash.
VerifyOffline(i) ==
  LET k == CacheKeyFor(ins[i].manifest)
      h == IF cache[k].sha # None THEN cache[k].sha ELSE ManifestSha(ins[i].manifest) IN
  /\ ins[i].pc = "verify_off"
  /\ IF h = None \/ Verifies(i, h)
       THEN Step(i, [ins[i] EXCEPT !.hash = h, !.pc = "extract"])
       ELSE Fail(i)
  /\ UNCHANGED rows /\ KeepCache /\ KeepRest

----------------------------------------------------------------------------
\* ZipArchive::new needs the directory at the end of the file.
Opens(a) == a # Partial

\* extract_zip: a file cut short has no directory of entries and does not open;
\* the wanted entry may be missing.
Extract(i) ==
  /\ ins[i].pc = "extract"
  /\ \/ /\ Opens(ins[i].archive)
        /\ Step(i, [ins[i] EXCEPT !.disk = ins[i].archive, !.pc = "boot"])
     \/ Fail(i)
  /\ UNCHANGED rows /\ KeepCache /\ KeepRest

\* resolve_boot_file for kernel and initrd: a path, a download or an entry of the
\* archive, or an error; install_from_cache does without what it cannot extract.
\* The archive is removed after it.
ResolveBoot(i) ==
  /\ ins[i].pc = "boot"
  /\ \/ Step(i, [ins[i] EXCEPT !.archive = None, !.pc = "insert"])
     \/ i \notin Offline /\ Fail(i)
  /\ UNCHANGED rows /\ KeepCache /\ KeepRest

\* insert_vm, then the port mappings of a verified admin's install: the row is
\* there even when one of them fails.
InsertVm(i) ==
  /\ ins[i].pc = "insert"
  /\ rows' = [rows EXCEPT ![i] = [name |-> ins[i].name, disk |-> ins[i].disk,
                                  hash |-> ins[i].hash, there |-> TRUE]]
  /\ \/ Step(i, [ins[i] EXCEPT !.pc = "register"])
     \/ i \notin Offline /\ Fail(i)
  /\ KeepCache /\ KeepRest

\* install_vm_from_manifest_url and install_vm_from_cache: the VM is added to the
\* ones in memory and its install reported complete, or the add fails.
Register(i) ==
  /\ i \notin Offline /\ ins[i].pc = "register"
  /\ \E pc \in {"done", "failed"} : Step(i, [ins[i] EXCEPT !.pc = pc])
  /\ UNCHANGED rows /\ KeepCache /\ KeepRest

RegisterCached(i) ==
  /\ i \in Offline /\ ins[i].pc = "register"
  /\ \E pc \in {"done", "failed"} : Step(i, [ins[i] EXCEPT !.pc = pc])
  /\ UNCHANGED rows /\ KeepCache /\ KeepRest

\* The store publishes a new version.  External.
Publish ==
  /\ published < MaxVersion
  /\ published' = published + 1
  /\ UNCHANGED <<hashed, cacheable, cache, ins, rows, crashes, overwritten>>

\* The host process ends: installs under way are lost, files and rows stay.
Crash ==
  /\ crashes < MaxCrashes
  /\ crashes' = crashes + 1
  /\ ins' = [i \in Installs |-> IF ins[i].pc = "new" THEN ins[i] ELSE [ins[i] EXCEPT !.pc = "failed"]]
  /\ UNCHANGED <<published, hashed, cacheable, cache, rows, overwritten>>

InstallNext ==
  \/ Publish
  \/ Crash
  \/ \E i \in Installs :
       \/ FetchManifest(i) \/ RequestUrl(i) \/ CheckCache(i) \/ CopyCached(i)
       \/ Download(i) \/ VerifyArchive(i) \/ SaveStep(i)
       \/ FindCached(i) \/ CopyOffline(i) \/ VerifyOffline(i)
       \/ Extract(i) \/ ResolveBoot(i) \/ InsertVm(i)
       \/ Register(i) \/ RegisterCached(i)

InstallSpec == InstallInit /\ [][InstallNext]_installVars

----------------------------------------------------------------------------
Content == Versions \cup {Altered}
File == Content \cup {None, Partial}

\* Types of the store, the cache, the installs and the rows.
InstallTypeOK ==
  /\ published \in Versions /\ hashed \in BOOLEAN /\ cacheable \in BOOLEAN
  /\ cache \in [Keys -> [zip : File, manifest : Versions \cup {None}, full : Versions \cup {None},
                         app : BOOLEAN, sha : Versions \cup {None}, there : BOOLEAN]]
  /\ \A i \in Installs :
       /\ ins[i].archive \in File /\ ins[i].disk \in Content \cup {None}
       /\ ins[i].expected \in Versions \cup {None} /\ ins[i].hash \in Versions \cup {None}
       /\ ins[i].saved \in 0 .. Len(SaveOrder)
  /\ rows \in [Installs -> [name : 0 .. Cardinality(Installs), disk : Content \cup {None},
                            hash : Versions \cup {None}, there : BOOLEAN]]
  /\ overwritten \subseteq Keys

\* Every row of the vms table has a whole disk, and one whose archive had a known
\* hash has the content of that hash, whatever other installs did to the cache
\* entry it was copied from and wherever the process ended before.
InstalledVerified ==
  \A i \in Registered :
    /\ rows[i].disk \in Content
    /\ rows[i].hash # None => rows[i].disk = rows[i].hash

\* A cache entry that is offered for installing holds a whole archive, and the
\* one its disk.sha256 is about, after any crash in the middle of a save; but for
\* an entry that one install wrote to while another was saving it, or saved over.
CacheWhole ==
  \A k \in Keys \ overwritten :
    Listed(cache[k]) => /\ cache[k].zip \in Content
                        /\ cache[k].sha # None => cache[k].zip = cache[k].sha

\* Two VMs share a name only when each chose it before the other's row was there.
NamesClashOnlyAtOnce ==
  \A i, j \in Registered :
    i # j /\ rows[i].name = rows[j].name => i \notin ins[j].seen /\ j \notin ins[i].seen

\* What installs leave behind, whatever overlaps and wherever the process ends:
\* rows with whole, verified disks, whole cache entries, and names that clash
\* only between installs that chose at the same time.
InstallSafe == InstallTypeOK /\ InstalledVerified /\ CacheWhole /\ NamesClashOnlyAtOnce
=============================================================================
