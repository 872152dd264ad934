----------------------------- MODULE StoreMeta -----------------------------
(***************************************************************************)
(* CheckpointStore.__init__ / _reconcile_meta / _write_meta at the level   *)
(* of the file system: how several processes that open one store           *)
(* directory read and replace its _meta.json.                              *)
(*                                                                         *)
(* _write_meta writes `_meta.json.tmp` and renames it over `_meta.json`.   *)
(* The temporary name is the same for every writer, so two writers share   *)
(* the file behind it.  A file (inode) is named by the writer that created *)
(* it; the two directory entries `tmp` and `meta` are links to a file.     *)
(***************************************************************************)
EXTENDS Naturals, FiniteSets

CONSTANTS
    Writers,        \* constructions of a CheckpointStore on this directory
    Fingerprints,   \* run configurations, as config_fingerprint tells them apart
    NoFile,         \* the link of a name that does not exist
    Unreadable,     \* content json.loads rejects: truncated or garbled
    MaxActive       \* bound: how many constructions may overlap

ASSUME StoreMetaAssumption ==
    /\ Writers # {} /\ Fingerprints # {}
    /\ NoFile \notin Writers \cup Fingerprints
    /\ Unreadable \notin Fingerprints
    /\ MaxActive \in Nat \ {0}

VARIABLES
    pc,         \* pc[w]: where w is in __init__
    want,       \* want[w]: the fingerprint w opens the store with
    strict,     \* strict[w]: on_mismatch = "error"
    tmp,        \* link of _meta.json.tmp
    meta,       \* link of _meta.json
    content,    \* content[f]: what file f holds
    fd,         \* fd[w]: the file w has open for writing
    opened,     \* history: fingerprint of the last construction that finished
    overlapped  \* history: two constructions have run at the same time

metaVars == <<pc, want, strict, tmp, meta, content, fd, opened, overlapped>>

Busy == {"check", "create", "write", "replace"}
Ended == {"opened", "refused", "failed", "crashed"}

TypeOK ==
    /\ pc \in [Writers -> {"idle"} \cup Busy \cup Ended]
    /\ want \in [Writers -> Fingerprints]
    /\ strict \in [Writers -> BOOLEAN]
    /\ tmp \in Writers \cup {NoFile}
    /\ meta \in Writers \cup {NoFile}
    /\ content \in [Writers -> Fingerprints \cup {Unreadable}]
    /\ fd \in [Writers -> Writers \cup {NoFile}]
    /\ opened \in Fingerprints \cup {NoFile}
    /\ overlapped \in BOOLEAN

Active == {w \in Writers : pc[w] \in Busy}

MetaInit ==
    /\ pc = [w \in Writers |-> "idle"]
    /\ want \in [Writers -> Fingerprints]
    /\ strict \in [Writers -> BOOLEAN]
    /\ tmp = NoFile
    /\ meta = NoFile
    /\ content = [w \in Writers |-> Unreadable]
    /\ fd = [w \in Writers |-> NoFile]
    /\ opened = NoFile
    /\ overlapped = FALSE

Goto(w, label) == pc' = [pc EXCEPT ![w] = label]

\* __init__: mkdir, then _reconcile_meta.
Construct(w) ==
    /\ pc[w] = "idle"
    /\ Cardinality(Active) < MaxActive
    /\ overlapped' = (overlapped \/ Active # {})
    /\ Goto(w, "check")
    /\ UNCHANGED <<want, strict, tmp, meta, content, fd, opened>>

\* The stored fingerprint, if there is one: no file, or a file json.loads
\* rejects, gives `meta = {}` and so no stored fingerprint.
Mismatch(w) ==
    /\ meta # NoFile
    /\ content[meta] # Unreadable
    /\ content[meta] # want[w]

Refuse(w) ==
    /\ pc[w] = "check"
    /\ Mismatch(w) /\ strict[w]
    /\ Goto(w, "refused")
    /\ UNCHANGED <<want, strict, tmp, meta, content, fd, opened, overlapped>>

\* Mutant: the mismatch is noticed but not acted on.
AcceptAnyway(w) ==
    /\ pc[w] = "check"
    /\ Goto(w, "create")
    /\ UNCHANGED <<want, strict, tmp, meta, content, fd, opened, overlapped>>

Accept(w) ==
    /\ pc[w] = "check"
    /\ ~(Mismatch(w) /\ strict[w])
    /\ Goto(w, "create")
    /\ UNCHANGED <<want, strict, tmp, meta, content, fd, opened, overlapped>>

\* Mutant: _meta.json is written in place.
CreateInPlace(w) ==
    LET file == IF meta = NoFile THEN w ELSE meta IN
    /\ pc[w] = "create"
    /\ meta' = file /\ tmp' = file
    /\ fd' = [fd EXCEPT ![w] = file]
    /\ content' = [content EXCEPT ![file] = Unreadable]
    /\ Goto(w, "write")
    /\ UNCHANGED <<want, strict, opened, overlapped>>

\* tmp.write_text opens with truncation: the file behind `tmp` if the name
\* exists, a new file otherwise.
CreateTmp(w) ==
    LET file == IF tmp = NoFile THEN w ELSE tmp IN
    /\ pc[w] = "create"
    /\ tmp' = file
    /\ fd' = [fd EXCEPT ![w] = file]
    /\ content' = [content EXCEPT ![file] = Unreadable]
    /\ Goto(w, "write")
    /\ UNCHANGED <<want, strict, meta, opened, overlapped>>

\* The text goes into the open file, whatever name it has by now.  Over
\* another writer's text it may leave that text's tail behind.
WriteTmp(w) ==
    /\ pc[w] = "write"
    /\ \E text \in {want[w]} \cup
                   (IF content[fd[w]] = Unreadable THEN {} ELSE {Unreadable}) :
          content' = [content EXCEPT ![fd[w]] = text]
    /\ Goto(w, "replace")
    /\ UNCHANGED <<want, strict, tmp, meta, fd, opened, overlapped>>

ReplaceMeta(w) ==
    /\ pc[w] = "replace"
    /\ tmp # NoFile
    /\ meta' = tmp
    /\ tmp' = NoFile
    /\ opened' = want[w]
    /\ Goto(w, "opened")
    /\ UNCHANGED <<want, strict, content, fd, overlapped>>

\* os.replace of a name another writer has already moved: FileNotFoundError.
ReplaceFails(w) ==
    /\ pc[w] = "replace"
    /\ tmp = NoFile
    /\ Goto(w, "failed")
    /\ UNCHANGED <<want, strict, tmp, meta, content, fd, opened, overlapped>>

CrashIn(w) ==
    /\ pc[w] \in Busy
    /\ Goto(w, "crashed")
    /\ UNCHANGED <<want, strict, tmp, meta, content, fd, opened, overlapped>>

MetaNext ==
    \E w \in Writers :
        \/ Construct(w) \/ Refuse(w) \/ Accept(w) \/ CreateTmp(w)
        \/ WriteTmp(w) \/ ReplaceMeta(w) \/ ReplaceFails(w) \/ CrashIn(w)

MetaSpec == MetaInit /\ [][MetaNext]_metaVars
-----------------------------------------------------------------------------
(***************************************************************************)
(* Properties                                                              *)
(***************************************************************************)
\* Crash safety of the tmp + rename protocol when constructions do not
\* overlap: a reader of _meta.json sees the fingerprint of the construction
\* that last finished, wherever an earlier one crashed (_write_meta).
MetaIsLastOpened ==
    ~overlapped =>
        (meta = NoFile /\ opened = NoFile) \/ (meta # NoFile /\ content[meta] = opened)

\* The on_mismatch="error" guard, as long as nothing overlaps: a strict
\* construction is never the one that moves a store from one configuration to
\* another (_reconcile_meta).
StrictNeverRebrands ==
    [][\A w \in Writers :
          (~overlapped /\ strict[w] /\ pc[w] = "replace" /\ pc'[w] = "opened" /\ opened # NoFile)
            => opened = want[w]]_metaVars

\* However constructions overlap and crash, a truncated or garbled _meta.json
\* takes two of them: one that truncated the file and has not finished, and
\* another that finished by renaming that file.  One construction on its own
\* never leaves the store without a readable fingerprint (_write_meta).
TornNeedsOverlap ==
    (meta # NoFile /\ content[meta] = Unreadable) =>
        \E v, w \in Writers : /\ v # w
                              /\ fd[w] = meta /\ pc[w] # "opened"
                              /\ pc[v] = "opened"

=============================================================================
