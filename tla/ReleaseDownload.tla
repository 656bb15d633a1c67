-------------------------- MODULE ReleaseDownload --------------------------
(***************************************************************************)
(* How `voytty update` finds, fetches and authenticates a candidate        *)
(* (distribution.rs, core/release.rs) while releases go on being published.*)
(* A version is a number, odd for a prerelease; a tag is its version.      *)
(***************************************************************************)
EXTENDS Naturals, Sequences, TLAPS

CONSTANTS Releases,    \* the manifests, in the order they are published
          Archives,    \* what each archive holds, by digest
          Running,     \* BuildIdentity::current()
          Selections,  \* <<>> for the latest stable release, or one tag
          Budgets,     \* metadata_budget and archive_budget
          RetryDelay   \* retry_delay

VARIABLES published,   \* how many releases there are
          job,         \* the command
          ran          \* archives whose binary was run

vars == <<published, job, ran>>

Schema == 1
KeyId == "key"
MaxAttempts == 4
Junk == [kind |-> "junk"]

-----------------------------------------------------------------------------
(***************************************************************************)
(* The manifest contract (core/release.rs).                                *)
(***************************************************************************)
IsPrerelease(version) == version % 2 = 1

ValidManifest(m) ==
  /\ m.schema = Schema /\ m.bootstrap = Schema /\ m.product = "voytty"
  /\ m.tag = m.version /\ m.stable = ~IsPrerelease(m.version)
  /\ m.commit # "malformed" /\ m.wire # 0 /\ m.state # 0
  /\ m.key = KeyId

BuildOf(m, target) ==
  [version |-> m.version, target |-> target, commit |-> m.commit, wire |-> m.wire,
   state |-> m.state, key |-> m.key, stable |-> m.stable]

\* validate_platform_floor.
Floors == [mac |-> "macos", linux |-> "glibc", windows |-> "none"]
FloorError(a) ==
  IF a.target \notin DOMAIN Floors THEN "unsupported"
  ELSE IF a.floor # Floors[a.target] THEN "manifest" ELSE ""

\* validate_artifact, by the errors of map_release_error.
ArtifactError(m, a) ==
  IF a.url # <<m.tag, a.target>> \/ a.length = 0 \/ a.sha = "malformed" THEN "artifact"
  ELSE IF FloorError(a) # "" THEN FloorError(a)
  ELSE IF a.build # BuildOf(m, a.target) THEN "manifest" ELSE ""

\* artifact_for_target: the artifact, or why there is none.
ArtifactFor(m, target) ==
  LET found == {i \in 1..Len(m.artifacts) : m.artifacts[i].target = target}
      first == CHOOSE i \in found : TRUE
      error == IF found = {} THEN "unsupported"
               ELSE IF \E i, j \in found : i # j THEN "manifest"
               ELSE ArtifactError(m, m.artifacts[first])
  IN [error |-> error, artifact |-> IF error = "" THEN <<m.artifacts[first]>> ELSE <<>>]

\* verify_release_manifest: a signature is of the bytes of one manifest.
Verified(m, signature) ==
  m # Junk /\ signature # Junk /\ signature.of = m.tag /\ ValidManifest(m)

NewerThan(m, version) == m.version > version

\* require_build_identity.
MatchesBuild(m, build) ==
  LET a == ArtifactFor(m, build.target)
  IN a.error = "" /\ build = BuildOf(m, build.target) /\ a.artifact[1].build = build

-----------------------------------------------------------------------------
(***************************************************************************)
(* External: the release origin.  Its redirect to the latest release moves *)
(* when another is published, and a cache on the way may answer with any   *)
(* release there is, or with something else.                               *)
(***************************************************************************)
Known == {Releases[i] : i \in 1..published}

Bodies(url) ==
  CASE url.asset = "manifest" -> Known
    [] url.asset = "signature" ->
         {[kind |-> "signature", of |-> m.tag] : m \in Known}
    [] url.asset = "archive" ->
         {[kind |-> "archive", sha |-> a] : a \in DOMAIN Archives}

Publish ==
  /\ published < Len(Releases)
  /\ published' = published + 1
  /\ UNCHANGED <<job, ran>>

-----------------------------------------------------------------------------
NewFetch(asset, selection) ==
  [url |-> [asset |-> asset, selection |-> selection], attempt |-> 0,
   delay |-> RetryDelay, spent |-> 0,
   budget |-> IF asset = "archive" THEN Budgets.archive ELSE Budgets.metadata]

NoFetch == [url |-> [asset |-> "none", selection |-> <<>>], attempt |-> 0, delay |-> 0,
            spent |-> 0, budget |-> 0]

\* ReleaseSelection::parse, validate_managed_executable.
Init ==
  /\ published \in 0..Len(Releases)
  /\ ran = {}
  /\ \E s \in Selections :
       job = [pc |-> "fetch", selection |-> s, fetch |-> NewFetch("manifest", s),
              manifest |-> Junk, signature |-> Junk, artifact |-> <<>>, archive |-> "",
              told |-> ""]

Fail(error) == job' = [job EXCEPT !.pc = "failed", !.told = error, !.fetch = NoFetch]

\* prepare_with, after one of its three downloads.
Received(body) ==
  CASE job.fetch.url.asset = "manifest" ->
         [job EXCEPT !.manifest = body, !.fetch = NewFetch("signature", job.selection)]
    [] job.fetch.url.asset = "signature" ->
         [job EXCEPT !.signature = body, !.fetch = NoFetch, !.pc = "verify"]
    [] job.fetch.url.asset = "archive" ->
         [job EXCEPT !.archive = IF body = Junk THEN "" ELSE body.sha, !.fetch = NoFetch,
                     !.pc = "digest"]

\* attempt: the body, or a failure worth another attempt, or not.
Attempt(took) ==
  /\ job.pc = "fetch" /\ took <= job.fetch.budget - job.fetch.spent
  /\ LET f == job.fetch IN
     \/ \E body \in Bodies(f.url) \cup {Junk} : job' = Received(body)
     \/ Fail("fetch")                               \* FetchFailure::Permanent

\* Mutant: only the attempts are bounded.
MayRetryAlways(spent) == job.fetch.attempt < MaxAttempts - 1

MayRetry(spent) ==
  job.fetch.attempt < MaxAttempts - 1 /\ job.fetch.budget - spent > job.fetch.delay

\* fetch_with_retry after FetchFailure::Transient: the next attempt begins
\* after a delay that doubles.
Retries(took) ==
  /\ job.pc = "fetch" /\ took <= job.fetch.budget - job.fetch.spent
  /\ LET spent == job.fetch.spent + took
     IN IF MayRetry(spent)
        THEN job' = [job EXCEPT !.fetch.attempt = @ + 1, !.fetch.spent = spent + job.fetch.delay,
                                !.fetch.delay = 2 * @]
        ELSE Fail("fetch")

Fetches ==
  /\ \E took \in 0..(IF Budgets.archive > Budgets.metadata THEN Budgets.archive ELSE Budgets.metadata) :
       Attempt(took) \/ Retries(took)
  /\ UNCHANGED <<published, ran>>

\* What the signed manifest has to say before anything else is fetched.
Authenticates ==
  /\ job.pc = "verify"
  /\ LET m == job.manifest
         a == ArtifactFor(m, Running.target)
     IN IF m = Junk \/ job.signature = Junk THEN Fail("signature")
        ELSE IF ~Verified(m, job.signature)
        THEN Fail(IF job.signature.of = m.tag THEN "manifest" ELSE "signature")
        ELSE IF \/ job.selection = <<>> /\ ~m.stable
                \/ job.selection # <<>> /\ job.selection # <<m.tag>>
        THEN Fail("manifest")
        ELSE IF ~NewerThan(m, Running.version) THEN Fail("not newer")
        ELSE IF a.error # "" THEN Fail(a.error)
        ELSE job' = [job EXCEPT !.pc = "fetch", !.artifact = a.artifact,
                                !.fetch = NewFetch("archive", <<m.tag>>)]
  /\ UNCHANGED <<published, ran>>

\* Mutant: any archive will do.
DigestMatchesAny == job.archive # ""

\* The archive is the one that the manifest names.
DigestMatches == job.archive = job.artifact[1].sha

\* extract_candidate: one file of the right name, into a private directory
\* beside the installed executable.
Extractable(archive) ==
  /\ Len(archive.entries) = 1
  /\ archive.entries[1] = [name |-> "voytty", file |-> TRUE, size |-> "fits"]

Extracts ==
  /\ job.pc = "digest"
  /\ IF ~DigestMatches THEN Fail("artifact")
     ELSE \/ Fail("staging")
          \/ IF ~Extractable(Archives[job.archive]) THEN Fail("archive")
             ELSE job' = [job EXCEPT !.pc = "self check"]
  /\ UNCHANGED <<published, ran>>

\* run_candidate: the child answers, cannot be run, fails, or is killed when
\* its time is up.
Runs(answer) ==
  \/ ran' = ran \cup {job.archive} /\ (answer \/ Fail("candidate"))
  \/ UNCHANGED ran /\ Fail("execution")

\* run_candidate_self_check and require_artifact.
SelfChecks ==
  /\ job.pc = "self check"
  /\ Runs(IF Archives[job.archive].build = job.artifact[1].build
          THEN job' = [job EXCEPT !.pc = "candidate verifies"]
          ELSE Fail("manifest"))
  /\ UNCHANGED published

\* run_candidate_verification: verify_candidate_files, by the candidate and
\* with its own identity.
CandidateVerifies ==
  /\ job.pc = "candidate verifies"
  /\ Runs(IF /\ Verified(job.manifest, job.signature)
             /\ MatchesBuild(job.manifest, Archives[job.archive].build)
          THEN job' = [job EXCEPT !.pc = "prepared", !.told = "prepared"]
          ELSE Fail("candidate"))
  /\ UNCHANGED published

Next == Publish \/ Fetches \/ Authenticates \/ Extracts \/ SelfChecks \/ CandidateVerifies

Spec == Init /\ [][Next]_vars

-----------------------------------------------------------------------------
\* No binary is run before its archive was named, for this platform, by a
\* signed manifest of a release that was asked for and is newer: whatever was
\* published between the downloads, and whatever a cache answered.
RanOnlySigned ==
  \A a \in ran : \E m \in Known :
    /\ ValidManifest(m) /\ m.version > Running.version
    /\ IF job.selection = <<>> THEN m.stable ELSE <<m.tag>> = job.selection
    /\ \E i \in 1..Len(m.artifacts) :
         m.artifacts[i].target = Running.target /\ m.artifacts[i].sha = a

\* A download with its retries and delays ends within its budget, and every
\* attempt begins with time left.
FetchInBudget == job.pc = "fetch" => job.fetch.spent < job.fetch.budget

-----------------------------------------------------------------------------
(***************************************************************************)
(* Proofs.  Naming what the manifest in hand must have been, from the      *)
(* signature check to the run, makes the claims inductive.                 *)
(***************************************************************************)

\* With `n` releases published and `selection` asked for, the manifest `m`
\* allows an archive of digest `sha` to be run.
Names(n, selection, m, sha) ==
  /\ m \in {Releases[i] : i \in 1..n} /\ ValidManifest(m) /\ m.version > Running.version
  /\ IF selection = <<>> THEN m.stable ELSE <<m.tag>> = selection
  /\ \E i \in 1..Len(m.artifacts) :
       m.artifacts[i].target = Running.target /\ m.artifacts[i].sha = sha

JobShape ==
  /\ job.fetch = [url |-> job.fetch.url, attempt |-> job.fetch.attempt,
                  delay |-> job.fetch.delay, spent |-> job.fetch.spent,
                  budget |-> job.fetch.budget]
  /\ job = [pc |-> job.pc, selection |-> job.selection, fetch |-> job.fetch,
            manifest |-> job.manifest, signature |-> job.signature,
            artifact |-> job.artifact, archive |-> job.archive, told |-> job.told]

AfterVerify ==
  \/ job.pc = "fetch" /\ job.fetch.url.asset = "archive"
  \/ job.pc \in {"digest", "self check", "candidate verifies"}

SignedInv ==
  /\ published \in 0..Len(Releases) /\ JobShape
  /\ job.pc = "fetch" => job.fetch.url.asset \in {"manifest", "signature", "archive"}
  /\ job.manifest = Junk \/ job.manifest \in Known
  /\ AfterVerify => Names(published, job.selection, job.manifest, job.artifact[1].sha)
  /\ job.pc \in {"self check", "candidate verifies"} => job.archive = job.artifact[1].sha
  /\ RanOnlySigned

\* artifact_for_target answers with an artifact of the manifest for the
\* target asked for.
LEMMA ArtifactNamed ==
  ASSUME NEW m, NEW target, ArtifactFor(m, target).error = ""
  PROVE  \E i \in 1..Len(m.artifacts) :
           /\ m.artifacts[i].target = target
           /\ ArtifactFor(m, target).artifact = <<m.artifacts[i]>>
<1> DEFINE found == {i \in 1..Len(m.artifacts) : m.artifacts[i].target = target}
<1>1. PICK first : first = CHOOSE i \in found : TRUE
  BY Zenon
<1>2. found # {} => first \in found
  BY <1>1
<1> QED
  BY <1>1, <1>2 DEF ArtifactFor

\* Publishing another release forgets no manifest that names an archive.
LEMMA NamesKept ==
  ASSUME NEW n \in Nat, NEW k \in Nat, n <= k, NEW selection, NEW m, NEW sha,
         Names(n, selection, m, sha)
  PROVE  Names(k, selection, m, sha)
<1>1. m \in {Releases[i] : i \in 1..k}
  BY DEF Names
<1> QED
  BY <1>1 DEF Names

\* RanOnlySigned says that every archive run was named.
LEMMA RanNamed ==
  RanOnlySigned <=> \A a \in ran : \E m : Names(published, job.selection, m, a)
BY DEF RanOnlySigned, Names, Known

\* What a step after the last publication must keep.
LEMMA GoesOnSigned ==
  ASSUME SignedInv, UNCHANGED published, JobShape', job'.selection = job.selection,
         job'.pc = "fetch" => job'.fetch.url.asset \in {"manifest", "signature", "archive"},
         job'.manifest = Junk \/ job'.manifest \in Known,
         AfterVerify' => Names(published, job.selection, job'.manifest, job'.artifact[1].sha),
         job'.pc \in {"self check", "candidate verifies"} => job'.archive = job'.artifact[1].sha,
         \A a \in ran' : \E m : Names(published, job.selection, m, a)
  PROVE  SignedInv'
<1>1. Known' = Known
  BY DEF Known
<1>2. (RanOnlySigned <=> \A a \in ran : \E m : Names(published, job.selection, m, a))'
  BY RanNamed, PTL
<1> QED
  BY <1>1, <1>2 DEF SignedInv

\* A command that gives up has nothing left to authenticate.
LEMMA FailSigned ==
  ASSUME NEW error, SignedInv, Fail(error), UNCHANGED published,
         \A a \in ran' : \E m : Names(published, job.selection, m, a)
  PROVE  SignedInv'
<1>1. /\ job'.pc = "failed" /\ job'.selection = job.selection
      /\ job'.manifest = job.manifest /\ JobShape'
  BY DEF Fail, NoFetch, SignedInv, JobShape
<1>2. ~AfterVerify'
  BY <1>1 DEF AfterVerify
<1> QED
  BY <1>1, <1>2, GoesOnSigned DEF SignedInv

\* Every step of the command and every publication keeps SignedInv.
LEMMA SignedInvariant ==
  ASSUME Len(Releases) \in Nat
  PROVE  Spec => []SignedInv
<1>1. Init => SignedInv
  <2> SUFFICES ASSUME Init PROVE SignedInv
    OBVIOUS
  <2>1. PICK s \in Selections :
          job = [pc |-> "fetch", selection |-> s, fetch |-> NewFetch("manifest", s),
                 manifest |-> Junk, signature |-> Junk, artifact |-> <<>>, archive |-> "",
                 told |-> ""]
    BY DEF Init
  <2>2. job.fetch.url.asset = "manifest"
    BY <2>1 DEF NewFetch
  <2> QED
    BY <2>1, <2>2 DEF Init, NewFetch, SignedInv, JobShape, AfterVerify, RanOnlySigned
<1>2. SignedInv /\ [Next]_vars => SignedInv'
  <2> SUFFICES ASSUME SignedInv, [Next]_vars PROVE SignedInv'
    OBVIOUS
  <2>0. \A a \in ran : \E m : Names(published, job.selection, m, a)
    BY RanNamed DEF SignedInv
  <2>1. CASE Publish
    <3>0. published \in 0..Len(Releases)
      BY DEF SignedInv
    <3>1. /\ published \in Nat /\ published' \in Nat /\ published <= published'
          /\ published' \in 0..Len(Releases) /\ job' = job /\ ran' = ran
      BY <2>1, <3>0 DEF Publish
    <3>2. \A m, sha : Names(published, job.selection, m, sha)
                      => Names(published', job.selection, m, sha)
      BY <3>1, NamesKept
    <3>3. (RanOnlySigned <=> \A a \in ran : \E m : Names(published, job.selection, m, a))'
      BY RanNamed, PTL
    <3>4. RanOnlySigned'
      BY <2>0, <3>1, <3>2, <3>3
    <3>5. Known \subseteq Known'
      BY <3>1 DEF Known
    <3> QED
      BY <3>1, <3>2, <3>4, <3>5 DEF SignedInv, JobShape, AfterVerify
  <2>2. CASE Fetches
    <3> DEFINE Goes ==
          /\ job'.fetch.url = job.fetch.url /\ JobShape' /\ job'.pc = job.pc
          /\ job'.selection = job.selection /\ job'.manifest = job.manifest
          /\ job'.artifact = job.artifact
    <3>1. /\ job.pc = "fetch" /\ UNCHANGED <<published, ran>>
          /\ \/ \E body \in Bodies(job.fetch.url) \cup {Junk} : job' = Received(body)
             \/ Fail("fetch")
             \/ Goes
      <4>1. PICK took : Attempt(took) \/ Retries(took)
        BY <2>2 DEF Fetches
      <4>2. UNCHANGED <<published, ran>> /\ JobShape
        BY <2>2 DEF Fetches, SignedInv
      <4>3. CASE Attempt(took)
        BY <4>2, <4>3 DEF Attempt
      <4>4. CASE Retries(took)
        <5>1. \/ Fail("fetch")
              \/ \E n, t, d :
                   job' = [job EXCEPT !.fetch.attempt = n, !.fetch.spent = t, !.fetch.delay = d]
          BY <4>4 DEF Retries
        <5>2. job.pc = "fetch"
          BY <4>4 DEF Retries
        <5>3. CASE Fail("fetch")
          BY <4>2, <5>2, <5>3
        <5>4. ASSUME NEW n, NEW t, NEW d,
                     job' = [job EXCEPT !.fetch.attempt = n, !.fetch.spent = t,
                                        !.fetch.delay = d]
              PROVE  Goes
          BY <4>2, <5>4 DEF JobShape
        <5> HIDE DEF Goes
        <5> QED
          BY <4>2, <5>1, <5>2, <5>3, <5>4
      <4> QED
        BY <4>1, <4>3, <4>4
    <3>2. CASE Fail("fetch")
      BY <2>0, <3>1, <3>2, FailSigned
    <3>3. ASSUME NEW body \in Bodies(job.fetch.url) \cup {Junk}, job' = Received(body)
          PROVE  SignedInv'
      <4>1. CASE job.fetch.url.asset = "manifest"
        <5>1. body = Junk \/ body \in Known
          BY <4>1 DEF Bodies
        <5>2. /\ job'.pc = "fetch" /\ job'.fetch.url.asset = "signature" /\ JobShape'
              /\ job'.selection = job.selection /\ job'.manifest = body
          BY <3>1, <3>3, <4>1 DEF Received, NewFetch, SignedInv, JobShape
        <5> QED
          BY <2>0, <3>1, <5>1, <5>2, GoesOnSigned DEF AfterVerify
      <4>2. CASE job.fetch.url.asset = "signature"
        <5>1. /\ job'.pc = "verify" /\ JobShape'
              /\ job'.selection = job.selection /\ job'.manifest = job.manifest
          BY <3>1, <3>3, <4>2 DEF Received, NoFetch, SignedInv, JobShape
        <5> QED
          BY <2>0, <3>1, <5>1, GoesOnSigned DEF AfterVerify, SignedInv
      <4>3. CASE job.fetch.url.asset = "archive"
        <5>1. /\ job'.pc = "digest" /\ JobShape' /\ job'.artifact = job.artifact
              /\ job'.selection = job.selection /\ job'.manifest = job.manifest
          BY <3>1, <3>3, <4>3 DEF Received, NoFetch, SignedInv, JobShape
        <5> QED
          BY <2>0, <3>1, <4>3, <5>1, GoesOnSigned DEF AfterVerify, SignedInv
      <4> QED
        BY <3>1, <4>1, <4>2, <4>3 DEF SignedInv
    <3>4. CASE Goes
      BY <2>0, <3>1, <3>4, GoesOnSigned DEF AfterVerify, SignedInv
    <3> QED
      BY <3>1, <3>2, <3>3, <3>4
  <2>3. CASE Authenticates
    <3>0. ASSUME NEW m, ArtifactFor(m, Running.target).error = ""
          PROVE  \E i \in 1..Len(m.artifacts) :
                   /\ m.artifacts[i].target = Running.target
                   /\ ArtifactFor(m, Running.target).artifact = <<m.artifacts[i]>>
      BY <3>0, ArtifactNamed
    <3> DEFINE m == job.manifest
               a == ArtifactFor(m, Running.target)
    <3>1. /\ job.pc = "verify" /\ UNCHANGED <<published, ran>>
          /\ \/ \E error : Fail(error)
             \/ /\ m # Junk /\ Verified(m, job.signature) /\ NewerThan(m, Running.version)
                /\ IF job.selection = <<>> THEN m.stable ELSE <<m.tag>> = job.selection
                /\ a.error = ""
                /\ job' = [job EXCEPT !.pc = "fetch", !.artifact = a.artifact,
                                      !.fetch = NewFetch("archive", <<m.tag>>)]
      BY <2>3, Zenon DEF Authenticates
    <3>2. ASSUME NEW error, Fail(error) PROVE SignedInv'
      BY <2>0, <3>1, <3>2, FailSigned
    <3>3. ASSUME m # Junk, Verified(m, job.signature), NewerThan(m, Running.version),
                 IF job.selection = <<>> THEN m.stable ELSE <<m.tag>> = job.selection,
                 a.error = "",
                 job' = [job EXCEPT !.pc = "fetch", !.artifact = a.artifact,
                                    !.fetch = NewFetch("archive", <<m.tag>>)]
          PROVE  SignedInv'
      <4>1. PICK i \in 1..Len(m.artifacts) :
              m.artifacts[i].target = Running.target /\ a.artifact = <<m.artifacts[i]>>
        BY <3>0, <3>3, Zenon
      <4> HIDE DEF a
      <4>2. /\ job'.pc = "fetch" /\ job'.selection = job.selection /\ job'.manifest = m
            /\ job'.artifact = a.artifact /\ JobShape' /\ job'.fetch.url.asset = "archive"
        BY <3>3 DEF NewFetch, SignedInv, JobShape
      <4>3. job'.artifact[1].sha = m.artifacts[i].sha
        BY <4>1, <4>2
      <4>4. m \in {Releases[k] : k \in 1..published}
        BY <3>3 DEF SignedInv, Known
      <4>5. Names(published, job.selection, m, job'.artifact[1].sha)
        BY <3>3, <4>1, <4>3, <4>4 DEF Names, Verified, NewerThan
      <4> QED
        BY <2>0, <3>1, <4>2, <4>4, <4>5, GoesOnSigned DEF Known
    <3> QED
      BY <3>1, <3>2, <3>3
  <2>4. CASE Extracts
    <3>1. /\ job.pc = "digest" /\ UNCHANGED <<published, ran>>
          /\ \/ \E error : Fail(error)
             \/ DigestMatches /\ job' = [job EXCEPT !.pc = "self check"]
      BY <2>4, Zenon DEF Extracts
    <3>2. ASSUME NEW error, Fail(error) PROVE SignedInv'
      BY <2>0, <3>1, <3>2, FailSigned
    <3>3. ASSUME DigestMatches, job' = [job EXCEPT !.pc = "self check"] PROVE SignedInv'
      <4>1. /\ job'.pc = "self check" /\ job'.selection = job.selection
            /\ job'.manifest = job.manifest /\ JobShape'
            /\ job'.artifact = job.artifact /\ job'.archive = job.archive
        BY <3>3 DEF SignedInv, JobShape
      <4> QED
        BY <2>0, <3>1, <3>3, <4>1, GoesOnSigned DEF SignedInv, AfterVerify, DigestMatches
    <3> QED
      BY <3>1, <3>2, <3>3
  <2>5. CASE SelfChecks \/ CandidateVerifies
    <3>1. /\ job.pc \in {"self check", "candidate verifies"} /\ UNCHANGED published
          /\ ran' = ran \cup {job.archive} \/ ran' = ran
          /\ \/ \E error : Fail(error)
             \/ job' = [job EXCEPT !.pc = "candidate verifies"]
             \/ job' = [job EXCEPT !.pc = "prepared", !.told = "prepared"]
      BY <2>5 DEF SelfChecks, CandidateVerifies, Runs
    <3>2. Names(published, job.selection, job.manifest, job.archive)
      BY <3>1 DEF SignedInv, AfterVerify
    <3>3. \A a \in ran' : \E m : Names(published, job.selection, m, a)
      BY <2>0, <3>1, <3>2
    <3>4. ASSUME NEW error, Fail(error) PROVE SignedInv'
      BY <3>1, <3>3, <3>4, FailSigned
    <3>5. CASE \/ job' = [job EXCEPT !.pc = "candidate verifies"]
               \/ job' = [job EXCEPT !.pc = "prepared", !.told = "prepared"]
      <4>1. /\ job'.pc \in {"candidate verifies", "prepared"} /\ job'.selection = job.selection
            /\ job'.manifest = job.manifest /\ JobShape'
            /\ job'.artifact = job.artifact /\ job'.archive = job.archive
        BY <3>5 DEF SignedInv, JobShape
      <4> QED
        BY <3>1, <3>3, <4>1, GoesOnSigned DEF SignedInv, AfterVerify
    <3> QED
      BY <3>1, <3>4, <3>5
  <2>6. CASE UNCHANGED vars
    BY <2>6 DEF vars, SignedInv, JobShape, AfterVerify, RanOnlySigned, Known
  <2> QED
    BY <2>1, <2>2, <2>3, <2>4, <2>5, <2>6 DEF Next
<1> QED
  BY <1>1, <1>2, PTL DEF Spec

\* prepare_with runs no binary before its archive was named, for this
\* platform, by a signed manifest of a published release that was asked for
\* and is newer: for any releases, archives and answers of a cache.
THEOREM SignedSafe ==
  ASSUME Len(Releases) \in Nat
  PROVE  Spec => []RanOnlySigned
<1>1. SignedInv => RanOnlySigned
  BY DEF SignedInv
<1> QED
  BY <1>1, SignedInvariant, PTL

BudgetInv ==
  /\ JobShape
  /\ job.pc = "fetch" =>
       /\ job.fetch.spent \in Nat /\ job.fetch.delay \in Nat /\ job.fetch.budget \in Nat
       /\ job.fetch.spent < job.fetch.budget
       /\ job.fetch.url.asset \in {"manifest", "signature", "archive"}

\* fetch_with_retry begins every attempt with time left of its budget, for
\* any budgets and any first delay.
THEOREM BudgetSafe ==
  ASSUME Budgets.archive \in Nat \ {0}, Budgets.metadata \in Nat \ {0}, RetryDelay \in Nat
  PROVE  Spec => []FetchInBudget
<1>0. ASSUME NEW asset \in {"manifest", "signature", "archive"}, NEW s
      PROVE  LET f == NewFetch(asset, s) IN
             /\ f = [url |-> f.url, attempt |-> f.attempt, delay |-> f.delay,
                     spent |-> f.spent, budget |-> f.budget]
             /\ f.spent \in Nat /\ f.delay \in Nat /\ f.budget \in Nat /\ f.spent < f.budget
             /\ f.url.asset = asset
  BY DEF NewFetch
<1>1. Init => BudgetInv
  <2> SUFFICES ASSUME Init PROVE BudgetInv
    OBVIOUS
  <2>1. PICK s \in Selections :
          job = [pc |-> "fetch", selection |-> s, fetch |-> NewFetch("manifest", s),
                 manifest |-> Junk, signature |-> Junk, artifact |-> <<>>, archive |-> "",
                 told |-> ""]
    BY DEF Init
  <2> QED
    BY <1>0, <2>1 DEF BudgetInv, JobShape
<1>2. BudgetInv /\ [Next]_vars => BudgetInv'
  <2> SUFFICES ASSUME BudgetInv, [Next]_vars PROVE BudgetInv'
    OBVIOUS
  <2>0. ASSUME NEW error, Fail(error) PROVE BudgetInv'
    BY <2>0 DEF Fail, NoFetch, BudgetInv, JobShape
  <2>1. ASSUME UNCHANGED job PROVE BudgetInv'
    BY <2>1 DEF BudgetInv, JobShape
  <2>2. ASSUME NEW took \in Nat, Attempt(took) PROVE BudgetInv'
    <3>1. job.pc = "fetch" /\ (Fail("fetch") \/ \E body : job' = Received(body))
      BY <2>2 DEF Attempt
    <3>2. ASSUME NEW body, job' = Received(body) PROVE BudgetInv'
      <4>1. CASE job.fetch.url.asset = "manifest"
        <5>1. job' = [job EXCEPT !.manifest = body, !.fetch = NewFetch("signature", job.selection)]
          BY <3>2, <4>1 DEF Received
        <5> QED
          BY <1>0, <3>1, <5>1 DEF BudgetInv, JobShape
      <4>2. CASE job.fetch.url.asset # "manifest"
        BY <3>1, <3>2, <4>2 DEF Received, NoFetch, BudgetInv, JobShape
      <4> QED
        BY <4>1, <4>2
    <3> QED
      BY <2>0, <3>1, <3>2
  <2>3. ASSUME NEW took \in Nat, Retries(took) PROVE BudgetInv'
    <3> DEFINE f == job.fetch
               spent == f.spent + took
    <3>1. /\ job.pc = "fetch" /\ took <= f.budget - f.spent
          /\ \/ Fail("fetch")
             \/ /\ f.budget - spent > f.delay
                /\ job' = [job EXCEPT !.fetch.attempt = @ + 1,
                                      !.fetch.spent = spent + job.fetch.delay,
                                      !.fetch.delay = 2 * @]
      BY <2>3 DEF Retries, MayRetry
    <3>2. ASSUME f.budget - spent > f.delay,
                 job' = [job EXCEPT !.fetch.attempt = @ + 1,
                                    !.fetch.spent = spent + job.fetch.delay,
                                    !.fetch.delay = 2 * @]
          PROVE  BudgetInv'
      <4>1. /\ f.spent \in Nat /\ f.delay \in Nat /\ f.budget \in Nat
            /\ f.url.asset \in {"manifest", "signature", "archive"} /\ JobShape
        BY <3>1 DEF BudgetInv
      <4>2. /\ JobShape' /\ job'.pc = job.pc /\ job'.fetch.url = f.url
            /\ job'.fetch.spent = spent + f.delay /\ job'.fetch.delay = 2 * f.delay
            /\ job'.fetch.budget = f.budget
        BY <3>2, <4>1 DEF JobShape
      <4>3. /\ spent + f.delay \in Nat /\ 2 * f.delay \in Nat
            /\ spent + f.delay < f.budget
        BY <3>2, <4>1
      <4> QED
        BY <4>1, <4>2, <4>3 DEF BudgetInv
    <3> QED
      BY <2>0, <3>1, <3>2
  <2>4. CASE Fetches
    BY <2>2, <2>3, <2>4 DEF Fetches
  <2>5. CASE Authenticates
    <3>1. \/ \E error : Fail(error)
          \/ \E artifact, tag :
               job' = [job EXCEPT !.pc = "fetch", !.artifact = artifact,
                                  !.fetch = NewFetch("archive", tag)]
      BY <2>5, Zenon DEF Authenticates
    <3>2. ASSUME NEW artifact, NEW tag,
                 job' = [job EXCEPT !.pc = "fetch", !.artifact = artifact,
                                    !.fetch = NewFetch("archive", tag)]
          PROVE  BudgetInv'
      BY <1>0, <3>2 DEF BudgetInv, JobShape
    <3> QED
      BY <2>0, <3>1, <3>2
  <2>6. ASSUME NEW pc \in {"self check", "candidate verifies", "prepared"}, NEW told,
               job' = [job EXCEPT !.pc = pc] \/ job' = [job EXCEPT !.pc = pc, !.told = told]
        PROVE  BudgetInv'
    BY <2>6 DEF BudgetInv, JobShape
  <2>7. CASE Extracts
    BY <2>0, <2>6, <2>7 DEF Extracts
  <2>8. CASE SelfChecks
    BY <2>0, <2>6, <2>8 DEF SelfChecks, Runs
  <2>9. CASE CandidateVerifies
    BY <2>0, <2>6, <2>9 DEF CandidateVerifies, Runs
  <2> QED
    BY <2>1, <2>4, <2>5, <2>7, <2>8, <2>9 DEF Next, Publish, vars
<1>3. BudgetInv => FetchInBudget
  BY DEF BudgetInv, FetchInBudget
<1> QED
  BY <1>1, <1>2, <1>3, PTL DEF Spec

=============================================================================
