---------------------------- MODULE EngineCatalog ---------------------------
(***************************************************************************)
(* The pinned engine releases (engine.rs): which catalogs are admitted,    *)
(* which release a caller gets for a strategy and a requested version, and *)
(* which file may be started as that release.                              *)
(*                                                                         *)
(* A catalog is a schema version, the declared targets and the rows, both  *)
(* sequences: several rows may match a request and the code takes the      *)
(* first.  A target is one spelling of an operating system; architectures  *)
(* are spelled, compared and normalised by the same rules.  Where the code *)
(* calls find on the rows, SelectInSeq gives the index it stops at, or 0.  *)
(***************************************************************************)
EXTENDS Naturals, FiniteSets, Sequences, SequencesExt

Absent == "absent"
Strategies == {"Xray", "SingBox"}
Statuses == {"Recommended", "Supported", "Deprecated", "Yanked"}

engine_name(strategy) == IF strategy = "Xray" THEN "xray-core" ELSE "sing-box"
config_dialect(strategy) == IF strategy = "Xray" THEN "XrayV26" ELSE "SingBoxV1_13"

-----------------------------------------------------------------------------
(* Text                                                                    *)

Lower(v) ==
  CASE v = "XRAY-CORE" -> "xray-core" [] v = "1.0-RC" -> "1.0-rc" [] v = "FreeBSD" -> "freebsd"
    [] v = "Darwin" -> "darwin" [] v = "A" -> "a" [] OTHER -> v
Trim(v) == CASE v = " 1.0-rc " -> "1.0-rc" [] v = " " -> "" [] v = " A " -> "A" [] OTHER -> v
Given(v) == Trim(v) \notin {Absent, ""}
Alike(v, w) == Lower(v) = Lower(w)

\* 64 digits, in lower case.
is_lower_sha256(v) == v \in {"a", "b", "c", "d"}

\* Known systems have one name; any other keeps its spelling.
normalize_os(os) ==
  CASE Lower(os) \in {"macos", "darwin"} -> "macos"
    [] Lower(os) \in {"linux", "windows"} -> Lower(os)
    [] OTHER -> os

-----------------------------------------------------------------------------
(* Admission of a catalog                                                  *)

Targets(catalog) == {normalize_os(t) : t \in Range(catalog.declared_targets)}
Version(row) == <<Lower(row.engine_name), Lower(row.version)>>
Key(row) == <<Version(row), normalize_os(row.target_os)>>
RowsOf(catalog, version) == {r \in Range(catalog.releases) : Version(r) = version}

OneStatusAndDialect(rows) ==
  /\ Cardinality({r.status : r \in rows}) = 1
  /\ Cardinality({r.config_dialect : r \in rows}) = 1

CoversEveryTarget(catalog, rows) ==
  {normalize_os(r.target_os) : r \in rows} = Targets(catalog)

RecommendedVersions(catalog, engine) ==
  {Lower(r.version) : r \in {q \in Range(catalog.releases) :
                              Alike(q.engine_name, engine) /\ q.status = "Recommended"}}

validate_engine_catalog(catalog) ==
  /\ catalog.schema_version = 1
  /\ catalog.declared_targets # <<>> /\ catalog.releases # <<>>
  /\ Cardinality(Targets(catalog)) = Len(catalog.declared_targets)
  /\ \A i, j \in DOMAIN catalog.releases :
       Key(catalog.releases[i]) = Key(catalog.releases[j]) => i = j
  /\ \A row \in Range(catalog.releases) :
       /\ is_lower_sha256(row.archive_sha256) /\ is_lower_sha256(row.binary_sha256)
       /\ normalize_os(row.target_os) \in Targets(catalog)
       /\ OneStatusAndDialect(RowsOf(catalog, Version(row)))
       /\ CoversEveryTarget(catalog, RowsOf(catalog, Version(row)))
       /\ Cardinality(RecommendedVersions(catalog, row.engine_name)) = 1

-----------------------------------------------------------------------------
(* Selection of a release                                                  *)

\* The program stops at a catalog that it does not admit: nothing is selected from it.
get_pinned_engine_releases(catalog) ==
  IF validate_engine_catalog(catalog) THEN catalog.releases ELSE <<>>

\* Here the spelling of the version counts.
recommended_engine_version(releases, engine) ==
  LET versions == {r.version : r \in {q \in Range(releases) :
                    Alike(q.engine_name, engine) /\ q.status = "Recommended"}}
  IN IF Cardinality(versions) = 1 THEN CHOOSE v \in versions : TRUE ELSE Absent

validate_release_compatibility(strategy, version, releases) ==
  LET Candidate(r) == /\ Alike(r.engine_name, engine_name(strategy))
                      /\ Alike(r.version, version) /\ r.status # "Yanked"
      found == SelectInSeq(releases, Candidate)
  IN found # 0 /\ releases[found].config_dialect = config_dialect(strategy)

Refused(error) == [error |-> error]

resolve_engine_release_selection(releases, strategy, requested) ==
  LET engine == engine_name(strategy)
      version == IF Given(requested) THEN Trim(requested)
                 ELSE recommended_engine_version(releases, engine)
      Named(r) == Alike(r.engine_name, engine) /\ Alike(r.version, version)
      found == SelectInSeq(releases, Named)
      release == releases[found]
  IN IF version = Absent THEN Refused("MissingExpectedChecksum")
     ELSE IF found = 0 THEN Refused("UnknownEngineVersion")
     ELSE IF release.status = "Yanked" THEN Refused("YankedEngineVersion")
     ELSE IF ~validate_release_compatibility(strategy, release.version, releases)
     THEN Refused("IncompatibleEngineRelease")
     ELSE [error |-> Absent, version |-> release.version, status |-> release.status,
           warning |-> release.status = "Deprecated"]

-----------------------------------------------------------------------------
(* Verification of a file                                                  *)

\* Two normalised targets are compared without regard to case.
find_pinned_binary_checksum(releases, engine, version, target) ==
  LET Candidate(r) == /\ Alike(r.engine_name, engine) /\ Alike(r.version, version)
                      /\ r.status # "Yanked"
                      /\ Alike(normalize_os(r.target_os), normalize_os(target))
      found == SelectInSeq(releases, Candidate)
  IN IF found = 0 THEN Absent ELSE releases[found].binary_sha256

\* (mutated: the checksum is looked up of the recommended version)
resolve_expected_binary_checksum_OfRecommended(releases, strategy, requested, explicit, target) ==
  LET selection == resolve_engine_release_selection(releases, strategy, requested)
      engine == engine_name(strategy)
      pinned == find_pinned_binary_checksum(
                  releases, engine, recommended_engine_version(releases, engine), target)
  IN IF selection.error # Absent THEN selection
     ELSE IF explicit # Absent THEN [error |-> Absent, value |-> explicit, pinned |-> FALSE]
     ELSE IF pinned = Absent THEN Refused("MissingPinnedBinaryChecksum")
     ELSE [error |-> Absent, value |-> pinned, pinned |-> TRUE]

resolve_expected_binary_checksum(releases, strategy, requested, explicit, target) ==
  LET selection == resolve_engine_release_selection(releases, strategy, requested)
      pinned == find_pinned_binary_checksum(releases, engine_name(strategy),
                                            selection.version, target)
  IN IF selection.error # Absent THEN selection
     ELSE IF explicit # Absent THEN [error |-> Absent, value |-> explicit, pinned |-> FALSE]
     ELSE IF pinned = Absent THEN Refused("MissingPinnedBinaryChecksum")
     ELSE [error |-> Absent, value |-> pinned, pinned |-> TRUE]

\* A path names no file, or a file with its mode and its digest.
validate_engine_binary_path(file) ==
  IF file.kind # "file" THEN "BinaryNotFound"
  ELSE IF ~file.executable THEN "PermissionDenied" ELSE Absent

verify_engine_artifact(file, expected) ==
  IF validate_engine_binary_path(file) # Absent THEN validate_engine_binary_path(file)
  ELSE IF ~Given(expected) THEN "MissingExpectedChecksum"
  ELSE IF file.sha256 # Lower(Trim(expected)) THEN "ChecksumMismatch" ELSE Absent

verify_selected_engine_artifact(releases, file, strategy, requested, explicit, target) ==
  LET selection == resolve_engine_release_selection(releases, strategy, requested)
      expected == resolve_expected_binary_checksum(releases, strategy, requested,
                                                   explicit, target)
      verdict == verify_engine_artifact(file, expected.value)
  IN IF selection.error # Absent THEN selection.error
     ELSE IF validate_engine_binary_path(file) # Absent THEN validate_engine_binary_path(file)
     ELSE IF expected.error # Absent THEN expected.error
     ELSE IF verdict = "ChecksumMismatch" /\ expected.pinned THEN "PinnedBinaryChecksumMismatch"
     ELSE verdict

-----------------------------------------------------------------------------
(* What is checked of a catalog and a request                              *)

\* Two declared targets no lookup can tell apart.
Ambiguous(catalog) == \E t, u \in Targets(catalog) : t # u /\ Alike(t, u)
SpelledAlike(rows) == Cardinality({r.version : r \in rows}) = 1
Accepted(releases, strategy, requested) ==
  resolve_engine_release_selection(releases, strategy, requested).error = Absent

\* What an accepted selection promises of all the rows of its version, and not
\* only of the one that was found first.
SelectionSound(catalog, strategy, requested) ==
  LET releases == get_pinned_engine_releases(catalog)
      selection == resolve_engine_release_selection(releases, strategy, requested)
      rows == RowsOf(catalog, <<engine_name(strategy), Lower(selection.version)>>)
      PinnedOn(t) == find_pinned_binary_checksum(releases, engine_name(strategy),
                                                 selection.version, t)
  IN Accepted(releases, strategy, requested) =>
       /\ \A r \in rows : /\ r.status = selection.status /\ r.status # "Yanked"
                          /\ r.config_dialect = config_dialect(strategy)
       /\ IF Given(requested) THEN Alike(selection.version, Trim(requested))
          ELSE selection.status = "Recommended"
       /\ \A t \in Range(catalog.declared_targets) : \E r \in rows :
            /\ PinnedOn(t) = r.binary_sha256
            /\ normalize_os(r.target_os) = normalize_os(t) \/ Ambiguous(catalog)

\* Without a version the recommended one is found whenever its rows spell it
\* alike and it speaks the strategy's dialect.
DefaultFound(catalog, strategy) ==
  \A r \in Range(catalog.releases) :
    /\ Lower(r.engine_name) = engine_name(strategy) /\ r.status = "Recommended"
    /\ r.config_dialect = config_dialect(strategy)
    /\ SpelledAlike(RowsOf(catalog, Version(r)))
    => Accepted(get_pinned_engine_releases(catalog), strategy, Absent)

\* A row of the version that is asked for: in any spelling the one that is named,
\* without one the recommended.
AskedFor(row, strategy, requested) ==
  /\ Alike(row.engine_name, engine_name(strategy))
  /\ IF Given(requested) THEN Alike(row.version, Trim(requested))
     ELSE row.status = "Recommended"

\* A file is started only as what the caller pinned, or as a row for the target
\* of the version that was asked for and selected.
StartedIsPinned(releases, strategy, requested, explicit, target, file) ==
  LET selection == resolve_engine_release_selection(releases, strategy, requested) IN
  verify_selected_engine_artifact(releases, file, strategy, requested,
                                  explicit, target) = Absent =>
    /\ file.kind = "file" /\ file.executable
    /\ Accepted(releases, strategy, requested)
    /\ IF explicit # Absent THEN file.sha256 = Lower(Trim(explicit))
       ELSE \E r \in Range(releases) :
              /\ r.binary_sha256 = file.sha256 /\ AskedFor(r, strategy, requested)
              /\ Alike(r.version, selection.version)
              /\ r.status # "Yanked" /\ r.config_dialect = config_dialect(strategy)
              /\ Alike(normalize_os(r.target_os), normalize_os(target))
=============================================================================
