---------------------------- MODULE ProtocolFiles ----------------------------
(* The protocol files of an experiment, and the commands that calibrate,      *)
(* validate, freeze and reopen them.  Every command rewrites the files one    *)
(* after the other and may be cut short between two writes.  The manifest of  *)
(* a frozen protocol is what a canonical run is launched against.             *)
EXTENDS Naturals, Sequences, FiniteSets, SequencesExt

CONSTANTS
    Doc,            \* the machine-readable files, "protocol", "seeds" and "stimuli" among them
    Gateway,        \* the gateways an environment may build
    MaxEdits,       \* bound: edits made by hand
    MaxCommands     \* bound: commands started

ASSUME DocAssumption ==
    /\ IsFiniteSet(Doc)
    /\ {"protocol", "seeds", "stimuli"} \subseteq Doc
    \* No file has the name of another write of a command (below).
    /\ Doc \cap {"counts", "cards", "seedCounter", "budget", "provenance",
                 "manifest", "canon", "digest"} = {}
ASSUME GatewayAssumption == Gateway \subseteq {"fixture", "approximate", "exact"}
ASSUME BoundAssumption == MaxEdits \in Nat /\ MaxCommands \in Nat

VARIABLES
    text,       \* per file, how often its authored content was edited
    version,    \* per file but the protocol, the version it declares
    wanted,     \* per file but the protocol, the version the protocol names
    status,     \* per file, its lifecycle status
    hash,       \* per file, the digest recorded in it
    counts,     \* the counter the seeds' token counts were taken with
    seedCounter,\* the counter version the seed world declares
    cards,      \* the stimulus text the cards' digests were taken of
    budget,     \* the budget: its counter, the source it names, its calibration
    canon,      \* the canonical manifest, if one was written
    canonSum,   \* what its digest file holds
    cmd,        \* the command under way and the writes it has left
    commands,   \* commands started
    torn        \* whether a calibration was cut short

files == <<text, version, wanted, status, hash, counts, seedCounter, cards, budget>>
protocolVars == <<files, canon, canonSum, cmd, commands, torn>>

None == [none |-> TRUE]
Idle == [kind |-> "idle", todo |-> <<>>]
Others == Doc \ {"protocol"}

DRAFT == "draft"
LOCAL_VALIDATED == "local_validated"
AWS_CALIBRATED == "aws_calibrated"
FROZEN == "frozen"
\* In the order a file advances through them; nothing retires one.
ProtocolStatus == {DRAFT, LOCAL_VALIDATED, AWS_CALIBRATED, FROZEN}
Runnable == ProtocolStatus \ {DRAFT}

(* A gateway is built from the environment of the command: fixture models,    *)
(* real models counted with the heuristic, or real models with their own      *)
(* tokeniser.                                                                 *)
counter_identity(g) ==
    [counter |-> IF g = "exact" THEN "exact" ELSE "heuristic",
     source  |-> CASE g = "fixture" -> "local_fixture_heuristic"
                   [] g = "approximate" -> "approximate_heuristic"
                   [] g = "exact" -> "bedrock_converse_usage"]
EXACT_TOKEN_COUNT_SOURCES == {"bedrock_count_tokens", "bedrock_converse_usage"}

-----------------------------------------------------------------------------
(* What is read off the files.                                                *)

\* What each file holds besides its authored text.
SeedMemorySpec == [provisional_token_count |-> counts]
SeedWorld      == [memories |-> SeedMemorySpec, counter_version |-> seedCounter]
StimulusSpec   == [content_hash |-> cards]
PilotProtocol  == [budget |-> budget, versions |-> wanted]

Document(d, s) ==
    [text |-> text[d], status |-> s,
     holds |-> CASE d = "protocol" -> PilotProtocol
                 [] d = "seeds" -> SeedWorld
                 [] d = "stimuli" -> StimulusSpec
                 [] OTHER -> None]

\* The digest covers everything in the file but the digest itself: its status too.
DigestAs(d, s) == Document(d, s)
document_digest(d) == DigestAs(d, status[d])
digests == [d \in Doc |-> document_digest(d)]

drifted == {d \in Doc : status[d] \in Runnable /\ hash[d] # document_digest(d)}
is_frozen == \A d \in Doc : status[d] = FROZEN
calibrated == budget # None /\ counts # "none" /\ seedCounter # "none"
is_exactly_calibrated ==
    /\ budget # None
    /\ budget.source \in EXACT_TOKEN_COUNT_SOURCES
    /\ budget.provenance # 0

\* The files load only while every file is the version the protocol names.
version_problems == {d \in Others : version[d] # wanted[d]}
load_bundle == version_problems = {}

require_runnable(canonical) ==
    /\ canonical => is_frozen
    /\ \A d \in Doc : status[d] \in Runnable
    /\ drifted = {}
    /\ calibrated

\* The manifest names no model when it is written with fixture models.
build_canonical_manifest(model) ==
    [files |-> digests, status |-> status["protocol"],
     counter |-> budget.counter, source |-> budget.source, model |-> model]

UncheckedManifest == canon # None
read_canonical_manifest == canon # None /\ canonSum = canon

-----------------------------------------------------------------------------
Files == SetToSeq(Doc)

ProtocolInit ==
    /\ text = [d \in Doc |-> 0]
    /\ version = [d \in Others |-> 1]
    /\ wanted = [d \in Others |-> 1]
    /\ status = [d \in Doc |-> DRAFT]
    /\ hash = [d \in Doc |-> None]
    /\ counts = "none" /\ seedCounter = "none" /\ cards = 0
    /\ budget = None
    /\ canon = None /\ canonSum = None
    /\ cmd = Idle /\ commands = 0 /\ torn = FALSE

\* A file is edited by hand, whatever its status is; its version may move, and
\* the protocol may name another version of a file.
Edit(d) ==
    /\ cmd = Idle
    /\ FoldSet(LAMBDA o, n : n + text[o], 0, Doc) < MaxEdits
    /\ text' = [text EXCEPT ![d] = @ + 1]
    /\ IF d = "protocol"
       THEN /\ \/ wanted' = wanted
               \/ \E o \in Others : wanted' = [wanted EXCEPT ![o] = version[o]]
            /\ UNCHANGED version
       ELSE /\ \E v \in {1, 2} : version' = [version EXCEPT ![d] = v]
            /\ UNCHANGED wanted
    /\ UNCHANGED <<status, hash, counts, seedCounter, cards, budget,
                   canon, canonSum, cmd, commands, torn>>

Start(c) ==
    /\ cmd = Idle
    /\ commands < MaxCommands
    /\ load_bundle
    /\ cmd' = c
    /\ commands' = commands + 1
    /\ UNCHANGED <<files, canon, canonSum, torn>>

-----------------------------------------------------------------------------
(* The commands.  Each loads and checks the files, then writes one file after *)
(* the other; what a write says is read off the files as they are by then.    *)

\* Seeds, stimuli, seed world and protocol, and on AWS the calibration's record.
\* The local script leaves the source the budget names as it was.
Calibrations == {"script", "pilot", "aws"}
Calibrate(k, g) ==
    /\ k = "script" => g = "fixture"
    /\ k = "aws" => g = "exact"
    /\ Start([kind |-> k, gateway |-> g,
              todo |-> <<"counts", "cards", "seedCounter", "budget">>
                       \o IF k = "aws" THEN <<"provenance">> ELSE <<>>])

\* A status beyond the local one needs an exactly calibrated budget.
Promote(s, g) ==
    /\ calibrated
    /\ s # LOCAL_VALIDATED => is_exactly_calibrated
    /\ Start([kind |-> "promote", status |-> s,
              model |-> IF g = "fixture" \/ s = LOCAL_VALIDATED THEN "none" ELSE "nova",
              todo |-> Files \o <<"manifest">>
                       \o IF s = LOCAL_VALIDATED THEN <<>> ELSE <<"canon", "digest">>])

ReturnToDraft == Start([kind |-> "draft", todo |-> Files])

Finished(c) == IF c.todo = <<>> THEN Idle ELSE c
Writing(kinds, file) ==
    /\ cmd # Idle /\ cmd.kind \in kinds
    /\ Head(cmd.todo) = file
    /\ cmd' = Finished([cmd EXCEPT !.todo = Tail(@)])
    /\ UNCHANGED <<commands, torn>>

WriteCounts ==
    /\ Writing(Calibrations, "counts")
    /\ counts' = counter_identity(cmd.gateway).counter
    /\ UNCHANGED <<text, version, wanted, status, hash, seedCounter, cards, budget, canon, canonSum>>
WriteCards ==
    /\ Writing(Calibrations, "cards")
    /\ cards' = text["stimuli"]
    /\ UNCHANGED <<text, version, wanted, status, hash, counts, seedCounter, budget, canon, canonSum>>
WriteSeedCounter ==
    /\ Writing(Calibrations, "seedCounter")
    /\ seedCounter' = counter_identity(cmd.gateway).counter
    /\ UNCHANGED <<text, version, wanted, status, hash, counts, cards, budget, canon, canonSum>>
WriteBudget ==
    /\ Writing(Calibrations, "budget")
    /\ LET old == IF budget = None THEN [source |-> "local_fixture_heuristic", provenance |-> 0]
                  ELSE budget
           id == counter_identity(cmd.gateway)
       IN budget' = [counter |-> id.counter, provenance |-> old.provenance,
                     source |-> IF cmd.kind = "script" THEN old.source ELSE id.source]
    /\ UNCHANGED <<text, version, wanted, status, hash, counts, seedCounter, cards, canon, canonSum>>
WriteProvenance ==
    /\ Writing({"aws"}, "provenance")
    /\ budget' = [budget EXCEPT !.provenance = commands]
    /\ UNCHANGED <<text, version, wanted, status, hash, counts, seedCounter, cards, canon, canonSum>>

\* Every file takes the status and the digest it will have under it.
PromoteDocument(d) ==
    /\ Writing({"promote"}, d)
    /\ status' = [status EXCEPT ![d] = cmd.status]
    /\ hash' = [hash EXCEPT ![d] = DigestAs(d, cmd.status)]
    /\ UNCHANGED <<text, version, wanted, counts, seedCounter, cards, budget, canon, canonSum>>
DraftDocument(d) ==
    /\ Writing({"draft"}, d)
    /\ IF status[d] = DRAFT THEN UNCHANGED <<status, hash>>
       ELSE /\ status' = [status EXCEPT ![d] = DRAFT]
            /\ hash' = [hash EXCEPT ![d] = None]
    /\ UNCHANGED <<text, version, wanted, counts, seedCounter, cards, budget, canon, canonSum>>

\* The protocol's own manifest is rewritten by every promotion; no launch reads it.
WriteManifest ==
    /\ Writing({"promote"}, "manifest")
    /\ UNCHANGED <<files, canon, canonSum>>

\* Once every file is frozen a manifest that is there is never replaced by another.
MayWriteCanonical(m) == ~(is_frozen /\ canon # None /\ canon # m)
write_canonical_manifest ==
    LET m == build_canonical_manifest(cmd.model) IN
    /\ cmd # Idle /\ cmd.kind = "promote" /\ Head(cmd.todo) = "canon"
    /\ IF MayWriteCanonical(m)
       THEN canon' = m /\ cmd' = [cmd EXCEPT !.todo = Tail(@)]
       ELSE canon' = canon /\ cmd' = Idle
    /\ UNCHANGED <<files, canonSum, commands, torn>>
WriteDigestFile ==
    /\ Writing({"promote"}, "digest")
    /\ canonSum' = canon
    /\ UNCHANGED <<files, canon>>

\* A command is cut short between two of its writes.
CutShort ==
    /\ cmd # Idle
    /\ cmd' = Idle
    /\ torn' = (torn \/ cmd.kind \in Calibrations)
    /\ UNCHANGED <<files, canon, canonSum, commands>>

ProtocolNext ==
    \/ \E d \in Doc : Edit(d) \/ PromoteDocument(d) \/ DraftDocument(d)
    \/ \E g \in Gateway : \/ \E k \in Calibrations : Calibrate(k, g)
                          \/ \E s \in Runnable : Promote(s, g)
    \/ ReturnToDraft
    \/ WriteCounts \/ WriteCards \/ WriteSeedCounter \/ WriteBudget \/ WriteProvenance
    \/ WriteManifest \/ write_canonical_manifest \/ WriteDigestFile
    \/ CutShort
=============================================================================
