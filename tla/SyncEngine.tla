----------------------------- MODULE SyncEngine -----------------------------
(***************************************************************************)
(* The decisions of a sync session: reconcile and the two conflict         *)
(* strategies (syncd/sync/sync_engine.py), and the selections the shared   *)
(* base class of the providers builds from them                            *)
(* (syncd/sync/providers/_common.py).  An index is a function from Path to *)
(* Entry.                                                                  *)
(***************************************************************************)
EXTENDS FileIndex

CONSTANT Path

Index == [Path -> Entry]
EmptyIndex == [p \in Path |-> NoEntry]

\* reconcile(local, remote)
Reconcile(local, remote) ==
    CASE Equals(local.clock, remote.clock)        -> "keep_local"
      [] HappensBefore(remote.clock, local.clock) -> "keep_local"
      [] HappensBefore(local.clock, remote.clock) -> "accept_remote"
      [] OTHER                                    -> "conflict"

\* resolve_last_write_wins(local, remote)
ResolveLastWriteWins(local, remote) ==
    IF remote.mtime > local.mtime THEN "accept_remote" ELSE "keep_local"

\* _resolve_conflict: equal contents are no conflict; keep-both always takes
\* the remote version (the copy it makes first is CopyAside of SyncSession).
ResolveConflict(strategy, local, remote) ==
    CASE local.sum = remote.sum  -> "keep_local"
      [] strategy = "keep-both"  -> "accept_remote"
      [] OTHER                   -> ResolveLastWriteWins(local, remote)

\* Whatever arrives is taken, as in the pull phase (variant).
AcceptAll(strategy, local, remote) == Live(remote)

\* The version the remote offers replaces ours.
Accept(strategy, local, remote) ==
    \/ Reconcile(local, remote) = "accept_remote"
    \/ /\ Reconcile(local, remote) = "conflict"
       /\ ResolveConflict(strategy, local, remote) = "accept_remote"

\* The live paths with a given content.  The code's dict from checksum to
\* path keeps one of them, whichever it iterates over last.
PathsOf(index, sum) == {p \in Path : Live(index[p]) /\ index[p].sum = sum}

\* The remote's tombstones are asked for as well (variant).
NeededDead(strategy, local, remote, corrupted, p) ==
    IF Live(local[p])
    THEN \/ Accept(strategy, local[p], remote[p])
         \/ Reconcile(local[p], remote[p]) = "keep_local" /\ p \in corrupted
    ELSE /\ PathsOf(local, remote[p].sum) = {}
         /\ Reconcile(local[p], remote[p]) = "accept_remote"

\* Corrupted paths are not asked for again (variant).
NeededUnlessOurs(strategy, local, remote, corrupted, p) ==
    /\ Live(remote[p])
    /\ IF Live(local[p])
       THEN Accept(strategy, local[p], remote[p])
       ELSE /\ PathsOf(local, remote[p].sum) = {}
            /\ Reconcile(local[p], remote[p]) = "accept_remote"

\* _compute_needed, for one path.  A path we do not hold is skipped when its
\* content is here under some other name.
Needed(strategy, local, remote, corrupted, p) ==
    /\ Live(remote[p])
    /\ IF Live(local[p])
       THEN \/ Accept(strategy, local[p], remote[p])
            \/ Reconcile(local[p], remote[p]) = "keep_local" /\ p \in corrupted
       ELSE /\ PathsOf(local, remote[p].sum) = {}
            /\ Reconcile(local[p], remote[p]) = "accept_remote"

\* _apply_remote_deletions, for one path: the remote's tombstone is newer and
\* the content is not alive at the remote under another name.
Superseded(local, remote, p) ==
    /\ Dead(remote[p]) /\ Live(local[p])
    /\ PathsOf(remote, local[p].sum) = {}
    /\ Reconcile(local[p], remote[p]) = "accept_remote"
=============================================================================
