--------------------------- MODULE ConnectionStore ---------------------------
(***************************************************************************)
(* The commands that keep connections and proxies: a row in SQLite, and    *)
(* beside it, in the credential store of the system, a secret and the      *)
(* bookmarks of the files that the row names (commands.rs, db.rs,          *)
(* bookmark.rs, the credential part of ssh.rs, the import of backup.rs and *)
(* of team_share.rs).  No transaction spans the two stores: a command is a *)
(* sequence of steps, any of which may be refused, and what has been done  *)
(* in the credential store is then undone by hand, as well as it goes.     *)
(* A statement that writes a row and reads it back may have written it and *)
(* be refused all the same (db.rs:191, 203, 440): the credential store is  *)
(* then put back, and the row stays.                                       *)
(***************************************************************************)
EXTENDS Integers, Sequences, NoValue

CONSTANTS
    Entry,      \* ids of connections and proxies
    Proxies,    \* those of proxies
    Value,      \* secrets, and paths of files: a bookmark is that of a path
    LongPath,   \* those whose bookmark is too long for the store of Windows
    Command,    \* the window's calls that may run at the same time
    MaxCalls,   \* calls in a behaviour
    MaxFaults   \* refusals of the credential store or the database

VARIABLES
    row,        \* the tables connections, with the options in workspace_state, and proxies
    vault,      \* the credential store: the entries of each id
    job,        \* the commands called
    calls,      \* how many there were
    lacking,    \* what a row may refer to in vain, <<id, "secret">> or <<id, "key">>: of
                \* an import, or of a row left by a command that could not read it back,
                \* and the key of a copy of either
    faults,
    tainted     \* ids whose entries no single command answers for: two commands
                \* overlapped, or undoing, or half a deletion, was refused, or it is a
                \* copy of such an id

storeVars == <<row, vault, job, calls, lacking, faults, tainted>>

Secret == {"secret", "key", "certificate", "drive"}
Auth == {"password", "key", "certificate", "agent", "rdp"}
Row == [auth : Auth, path : Value \union {None}, ref : BOOLEAN,
        drive : Value \union {None}, deleted : BOOLEAN]
CommandName == {"save", "saveAgent", "purge", "duplicate", "options", "proxySave", "proxyPlain",
         "proxyDelete", "share", "import"}

ASSUME EntryAssumption ==
    /\ Proxies \subseteq Entry /\ LongPath \subseteq Value
    /\ None \notin Entry /\ None \notin Value /\ None \notin Row /\ None \notin CommandName
    /\ MaxCalls \in Nat /\ MaxFaults \in Nat

NoEntries == [k \in Secret |-> None]

RowOf(auth, path, ref, drive, deleted) ==
    [auth |-> auth, path |-> path, ref |-> ref, drive |-> drive, deleted |-> deleted]

(***************************************************************************)
(* What each command does, step by step, and what it restores when a step  *)
(* is refused: the entries read before the first step (duplicate: none).   *)
(***************************************************************************)
Script(cmd) ==
    CASE cmd = "save"        -> <<"secret", "key", "certificate", "row">>
      [] cmd = "saveAgent"   -> <<"forget", "noKey", "noCertificate", "row">>
      [] cmd = "purge"       -> <<"forget", "noKey", "noCertificate", "noDrive", "delete">>
      [] cmd = "duplicate"   -> <<"insert", "copyKey", "copyCertificate", "copyDrive",
                                  "options", "copySecret", "reference">>
      [] cmd = "options"     -> <<"drive", "options">>
      [] cmd = "proxySave"   -> <<"secret", "row">>
      [] cmd = "proxyPlain"  -> <<"forget", "row">>
      [] cmd = "proxyDelete" -> <<"forget", "delete">>
      [] cmd = "share"       -> <<"secret", "insert", "audit">>
      [] cmd = "import"      -> <<"first", "second", "rows">>

Undoes(cmd, step) ==
    CASE cmd = "share" -> IF step = "secret" THEN {} ELSE {"secret"}
      [] cmd = "duplicate" ->
           CASE step \in {"insert", "copyKey"} -> {}
             [] step = "copyCertificate" -> {"key"}
             [] step = "copyDrive" -> {"key", "certificate"}
             [] step = "reference" -> Secret
             [] OTHER -> {"key", "certificate", "drive"}
      [] cmd = "options" -> {"drive"}
      [] cmd = "import" -> {"secret"}
      [] OTHER ->
           CASE step \in {"secret", "forget"} -> {}
             [] step \in {"key", "noKey"} -> IF cmd = "save" THEN {"secret", "key"} ELSE {"secret"}
             [] step = "noCertificate" -> {"secret", "key"}
             [] step = "certificate" -> {"secret", "key", "certificate"}
             [] step = "noDrive" -> Secret
             [] step = "row" -> {"secret", "key", "certificate"}
             [] step = "delete" -> Secret

\* Commands that insert a row take it away again.
UndoesRow(cmd, step) ==
    \/ cmd = "duplicate" /\ step # "insert"
    \/ cmd = "share" /\ step = "audit"

(***************************************************************************)
(* A call: its id and, for a copy, the id it copies; what it is given; the *)
(* row and the entries it read when it began.                              *)
(***************************************************************************)
NoCall == [cmd |-> None, at |-> 0, e |-> None, from |-> None, auth |-> None, secret |-> None,
           path |-> None, row |-> None, read |-> NoEntries, changed |-> <<>>, before |-> None]

Running(j) == job[j].cmd # None
Failed(j) == job[j].at = -1
Step(j) == Script(job[j].cmd)[job[j].at]
Touches(j) == {job[j].e, job[j].from} \ {None}
LiveRow(e) == row[e] # None /\ ~row[e].deleted

StoreInit ==
    /\ row = [e \in Entry |-> None]
    /\ vault = [e \in Entry |-> NoEntries]
    /\ job = [j \in Command |-> NoCall]
    /\ calls = 0 /\ lacking = {}
    /\ faults = 0 /\ tainted = {}

\* What can be put back later.
Loaded(cmd, e) == IF cmd \in {"duplicate", "share"} THEN NoEntries ELSE vault[e]

\* get_connection reads only live rows; the entries are loaded before any is changed.
Begin(j, cmd, e, from, auth, secret, path) ==
    /\ ~Running(j) /\ calls < MaxCalls /\ calls' = calls + 1
    /\ job' = [job EXCEPT ![j] =
                 [cmd |-> cmd, at |-> 1, e |-> e, from |-> from, auth |-> auth,
                  secret |-> secret, path |-> path,
                  row |-> IF from # None THEN row[from] ELSE IF LiveRow(e) THEN row[e] ELSE None,
                  read |-> Loaded(cmd, e), changed |-> <<>>, before |-> vault]]
    /\ LET touched == {e, from} \ {None}
           met == {i \in Command : Running(i) /\ Touches(i) \intersect touched # {}}
       IN  tainted' = tainted
             \union (UNION {Touches(i) \union touched : i \in met})
             \union (IF cmd = "duplicate" /\ from \in tainted THEN {e} ELSE {})
    /\ lacking' = lacking \union
         CASE cmd = "import" -> {<<e, "key">>, <<from, "key">>}
           [] cmd = "duplicate" /\ <<from, "key">> \in lacking -> {<<e, "key">>}
           [] OTHER -> {}
    /\ UNCHANGED <<row, vault, faults>>

\* connection_save; an RDP connection needs a password, and only agents have none to keep.
Save(j) ==
    \E e \in Entry \ Proxies, auth \in Auth, secret \in Value \union {None}, path \in Value :
      /\ auth = "rdp" /\ secret = None => LiveRow(e) /\ row[e].ref
      /\ auth = "agent" => secret = None
      /\ Begin(j, IF auth = "agent" THEN "saveAgent" ELSE "save", e, None, auth, secret,
               IF auth \in {"key", "certificate"} THEN path ELSE None)

\* connection_duplicate: a live source, and an id that no row has.
Duplicate(j) ==
    \E e, from \in Entry \ Proxies :
      /\ LiveRow(from) /\ e # from /\ row[e] = None
      /\ Begin(j, "duplicate", e, from, row[from].auth, None, row[from].path)

Purge(j) == \E e \in Entry \ Proxies : Begin(j, "purge", e, None, None, None, None)

\* rdp_options_save
SaveOptions(j) ==
    \E e \in Entry, path \in Value \union {None} :
      /\ LiveRow(e) /\ row[e].auth = "rdp"
      /\ Begin(j, "options", e, None, "rdp", None, path)

\* proxy_save: a jump host, or a proxy without a user, has no secret.
SaveProxyRow(j) ==
    \E e \in Proxies, secret \in Value \union {None} :
      \/ Begin(j, "proxySave", e, None, "password", secret, None)
      \/ secret = None /\ Begin(j, "proxyPlain", e, None, "agent", None, None)

DeleteProxy(j) == \E e \in Proxies : Begin(j, "proxyDelete", e, None, None, None, None)

\* apply_share: an id of its own, with or without a secret.
ApplyShare(j) ==
    \E e \in Entry \ Proxies, secret \in Value \union {None} :
      /\ row[e] = None
      /\ Begin(j, "share", e, None, "password", secret, None)

\* import_file: a file with two connections, perhaps of one id; from is the other one here.
Import(j) ==
    \E e, from \in Entry \ Proxies, auth \in {"password", "key"},
       secret \in Value \union {None}, path \in Value :
      /\ Begin(j, "import", e, from, auth, secret, IF auth = "key" THEN path ELSE None)

(***************************************************************************)
(* The steps.  effect is the id's entries afterwards.                      *)
(***************************************************************************)
\* Fault: the path is not compared.
HasBookmark(j, k) == job[j].read[k] # None /\ job[j].row # None

\* The key's bookmark is that of the path already; so is the certificate's, or the drive's.
Unchanged(j, k) ==
    LET c == job[j] IN
    /\ c.read[k] # None /\ c.row # None
    /\ CASE k = "key" -> c.row.auth \in {"key", "certificate"} /\ c.row.path = c.path
         [] k = "certificate" -> c.row.auth = "certificate" /\ c.row.path = c.path
         [] k = "drive" -> c.row.drive = c.path

Given(j) == job[j].secret # None
AuthChanged(j) == job[j].cmd = "save" /\ job[j].row # None /\ job[j].row.auth # job[j].auth

\* save_credential or delete_credential, only when there is a new secret or another method.
SecretAfter(j) ==
    LET c == job[j] IN
    IF c.secret # None THEN c.secret ELSE IF AuthChanged(j) THEN None ELSE vault[c.e].secret

\* save_path_record: on Windows a record of more than 2560 bytes is no error, and nothing
\* is stored.
BookmarkOf(path) == IF path \in LongPath THEN None ELSE path

BookmarkAfter(j, k) ==
    LET c == job[j] IN
    IF Unchanged(j, k) THEN vault[c.e][k]
    ELSE IF k = "key" /\ c.auth \notin {"key", "certificate"} THEN None
    ELSE IF k = "certificate" /\ c.auth # "certificate" THEN None
    ELSE BookmarkOf(c.path)

\* copy_value: what the source does not have is left as it is.
CopyAfter(j, k) ==
    IF vault[job[j].from][k] = None THEN vault[job[j].e][k] ELSE vault[job[j].from][k]

EntriesAfter(j) ==
    LET e == job[j].e
        With(k, v) == [vault EXCEPT ![e][k] = v]
    IN  CASE Step(j) = "secret" -> With("secret", SecretAfter(j))
          [] Step(j) = "key" -> With("key", BookmarkAfter(j, "key"))
          [] Step(j) = "certificate" -> With("certificate", BookmarkAfter(j, "certificate"))
          [] Step(j) = "drive" -> With("drive", BookmarkAfter(j, "drive"))
          [] Step(j) = "forget" -> With("secret", None)
          [] Step(j) = "noKey" -> With("key", None)
          [] Step(j) = "noCertificate" -> With("certificate", None)
          [] Step(j) = "noDrive" -> With("drive", None)
          [] Step(j) = "copyKey" -> With("key", CopyAfter(j, "key"))
          [] Step(j) = "copyCertificate" -> With("certificate", CopyAfter(j, "certificate"))
          [] Step(j) = "copyDrive" ->
               IF job[j].auth = "rdp" THEN With("drive", CopyAfter(j, "drive")) ELSE vault
          [] Step(j) = "copySecret" -> With("secret", CopyAfter(j, "secret"))
          [] Step(j) = "first" /\ Given(j) -> With("secret", job[j].secret)
          [] Step(j) = "second" /\ Given(j) -> [vault EXCEPT ![job[j].from].secret = job[j].secret]
          [] OTHER -> vault

(***************************************************************************)
(* The statements.  The upsert of save_connection and import_connections:  *)
(* no reference for an agent, none kept from another method; the row lives *)
(* again.                                                                  *)
(***************************************************************************)
Upsert(old, auth, path, ref) ==
    RowOf(auth, path,
          IF auth = "agent" THEN FALSE
          ELSE IF old # None /\ old.auth # auth THEN ref
          ELSE ref \/ (old # None /\ old.ref),
          IF old = None THEN None ELSE old.drive,
          FALSE)

\* None of these may be refused by what the statement finds in the table.
Accepted(j) ==
    LET e == job[j].e IN
    CASE Step(j) = "insert" -> row[e] = None
      [] Step(j) = "reference" -> LiveRow(e)
      [] Step(j) = "delete" -> row[e] # None /\ (e \in Proxies \/ row[e].deleted)
      [] OTHER -> TRUE

Inserted(c) == RowOf(c.auth, c.path, c.secret # None, None, FALSE)

\* What save_named_state stores: the options given, or those of the source.
Options(c) == IF c.cmd = "options" THEN c.path ELSE c.row.drive

RowsAfter(j) ==
    LET c == job[j]  e == c.e IN
    CASE Step(j) = "row" -> [row EXCEPT ![e] = Upsert(row[e], c.auth, c.path, Given(j))]
      [] Step(j) = "rows" ->   \* one id that the file has twice: the second upsert changes nothing
           [x \in Entry |-> IF x \in {e, c.from} THEN Upsert(row[x], c.auth, c.path, Given(j))
                            ELSE row[x]]
      [] Step(j) = "delete" -> [row EXCEPT ![e] = None]
      [] Step(j) = "insert" -> [row EXCEPT ![e] = Inserted(c)]
      [] Step(j) = "reference" -> [row EXCEPT ![e].ref = TRUE]
      [] Step(j) = "options" /\ row[e] # None ->
           [row EXCEPT ![e].drive = Options(c)]
      [] OTHER -> row

\* A copy without a secret is done before it saves one.
NextStep(j) ==
    IF job[j].cmd = "duplicate" /\ Step(j) = "copySecret" /\ vault[job[j].from].secret = None
    THEN Len(Script("duplicate")) + 1 ELSE job[j].at + 1

\* import_file remembers what it has overwritten, once for each connection of the file.
ChangedAfter(j) ==
    LET c == job[j] IN
    CASE Given(j) /\ Step(j) = "first" -> Append(c.changed, <<c.e, vault[c.e].secret>>)
      [] Given(j) /\ Step(j) = "second" -> Append(c.changed, <<c.from, vault[c.from].secret>>)
      [] OTHER -> c.changed

GoOn(j) ==
    /\ Running(j) /\ Accepted(j)
    /\ vault' = EntriesAfter(j)
    /\ row' = RowsAfter(j)
    /\ job' = [job EXCEPT ![j] =
                 IF NextStep(j) > Len(Script(job[j].cmd)) THEN NoCall
                 ELSE [@ EXCEPT !.at = NextStep(j), !.changed = ChangedAfter(j)]]
    /\ UNCHANGED <<calls, lacking, faults, tainted>>

(***************************************************************************)
(* A step is refused: what the code restores is restored, except for what  *)
(* the store refuses to restore (the errors of undoing are ignored).       *)
(***************************************************************************)
\* Fault: rollback_credentials from the first to the last.
LastOf(changed, e) ==
    LET last == CHOOSE i \in DOMAIN changed :
                  changed[i][1] = e /\ \A k \in DOMAIN changed : k > i => changed[k][1] # e
    IN  changed[last][2]

\* rollback_credentials goes from the last to the first, so that the first value of an
\* id stays.
FirstOf(changed, e) ==
    LET first == CHOOSE i \in DOMAIN changed :
                   changed[i][1] = e /\ \A k \in 1..(i - 1) : changed[k][1] # e
    IN  changed[first][2]

\* restore_credential only when the secret has been touched.
ToRestore(j) ==
    LET c == job[j] IN
    IF c.cmd \in {"save", "proxySave"} /\ c.secret = None /\ ~AuthChanged(j)
    THEN Undoes(c.cmd, Step(j)) \ {"secret"} ELSE Undoes(c.cmd, Step(j))

Restored(j, kinds) ==
    LET c == job[j] IN
    IF c.cmd = "import"
    THEN [e \in Entry |-> IF \E i \in DOMAIN c.changed : c.changed[i][1] = e /\ "secret" \in kinds
                          THEN [vault[e] EXCEPT !.secret = FirstOf(c.changed, e)] ELSE vault[e]]
    ELSE [vault EXCEPT ![c.e] = [k \in Secret |-> IF k \in kinds THEN c.read[k] ELSE @[k]]]

\* What is undone of this step and those before it: entries, and the row.
ToUndo(j) ==
    ToRestore(j) \union (IF UndoesRow(job[j].cmd, Step(j)) THEN {"row"} ELSE {})

\* written: the statement has written the row, and could not read it back.
Refuse(j, lost, written) ==
    LET e == job[j].e
        rows == IF written THEN RowsAfter(j) ELSE row
        gone == "row" \in ToUndo(j) \ lost IN
    /\ vault' = Restored(j, ToRestore(j) \ lost)
    /\ row' = IF gone THEN [rows EXCEPT ![e] = None] ELSE rows
    /\ job' = [job EXCEPT ![j] = [NoCall EXCEPT !.at = -1]]
    /\ lacking' = IF written /\ ~gone THEN lacking \union ({e} \X {"secret", "key"}) ELSE lacking
    /\ tainted' = IF lost = {} THEN tainted ELSE tainted \union Touches(j)
    /\ UNCHANGED calls

\* Steps that call neither store.
Skipped(j) ==
    \/ Step(j) \in {"copyDrive", "options"} /\ job[j].cmd = "duplicate" /\ job[j].auth # "rdp"
    \/ Step(j) = "secret" /\ ~Given(j) /\ ~AuthChanged(j)
    \/ Step(j) \in {"key", "certificate", "drive"} /\ Unchanged(j, Step(j))
    \/ Step(j) \in {"first", "second"} /\ ~Given(j)

\* save_connection, insert_connection, set_connection_credential_ref and save_proxy end with
\* get_connection or get_proxy.
ReadsBack(j) == Step(j) \in {"row", "insert", "reference"}

\* The table refuses, or the call to one of the stores fails.
RefuseStep(j) ==
    /\ Running(j) /\ ~Skipped(j)
    /\ \E lost \in {{}} \union {{k} : k \in Secret \union {"row"}}, written \in BOOLEAN :
         LET cost == (IF Accepted(j) THEN 1 ELSE 0) + (IF lost = {} THEN 0 ELSE 1) IN
         /\ lost \subseteq ToUndo(j)
         /\ written => ReadsBack(j) /\ Accepted(j)
         /\ faults + cost <= MaxFaults /\ faults' = faults + cost
         /\ Refuse(j, lost, written)

\* delete_proxy refuses while a connection, or a deleted one, goes through the proxy.
ProxyInUse(j) ==
    /\ Running(j) /\ job[j].cmd = "proxyDelete" /\ Step(j) = "delete"
    /\ Refuse(j, {}, FALSE) /\ UNCHANGED faults

\* delete_credential on macOS: the vault is written, the entry of earlier versions refuses.
HalfForget(j) ==
    /\ Running(j) /\ Step(j) = "forget"
    /\ faults < MaxFaults /\ faults' = faults + 1
    /\ vault' = [vault EXCEPT ![job[j].e].secret = None]
    /\ job' = [job EXCEPT ![j] = [NoCall EXCEPT !.at = -1]]
    /\ tainted' = tainted \union {job[j].e}
    /\ UNCHANGED <<row, calls, lacking>>

(***************************************************************************)
(* Commands of one statement: connection_delete, connection_restore.       *)
(***************************************************************************)
Delete(j) ==
    \E e \in Entry \ Proxies :
      /\ ~Running(j) /\ calls < MaxCalls /\ calls' = calls + 1 /\ row[e] # None
      /\ row' = [row EXCEPT ![e].deleted = TRUE]
      /\ job' = [job EXCEPT ![j] = NoCall]
      /\ UNCHANGED <<vault, lacking, faults, tainted>>

Restore(j) ==
    \E e \in Entry \ Proxies :
      /\ ~Running(j) /\ calls < MaxCalls /\ calls' = calls + 1 /\ row[e] # None /\ row[e].deleted
      /\ row' = [row EXCEPT ![e].deleted = FALSE]
      /\ job' = [job EXCEPT ![j] = NoCall]
      /\ UNCHANGED <<vault, lacking, faults, tainted>>

StoreNext ==
    \E j \in Command :
      \/ Save(j) \/ Duplicate(j) \/ Purge(j) \/ SaveOptions(j) \/ SaveProxyRow(j)
      \/ DeleteProxy(j) \/ ApplyShare(j) \/ Import(j) \/ Delete(j) \/ Restore(j)
      \/ GoOn(j) \/ RefuseStep(j) \/ ProxyInUse(j) \/ HalfForget(j)

StoreSpec == StoreInit /\ [][StoreNext]_storeVars

(***************************************************************************)
(* Properties.                                                             *)
(***************************************************************************)
StoreTypeOK ==
    /\ row \in [Entry -> Row \union {None}]
    /\ vault \in [Entry -> [Secret -> Value \union {None}]]
    /\ \A j \in Command :
         /\ job[j].at \in -1..8
         /\ Running(j) => /\ job[j].cmd \in CommandName /\ job[j].e \in Entry
                          /\ job[j].from \in Entry \union {None}
    /\ calls \in 0..MaxCalls /\ faults \in 0..MaxFaults /\ tainted \subseteq Entry

\* A command that ends in an error leaves the credential store as it found it, at whatever
\* step it was refused: the rollbacks of connection_save, connection_duplicate,
\* connection_purge, proxy_save, proxy_delete, rdp_options_save, apply_share and
\* import_file.  A copy or a shared connection leaves no row either, but for one that was
\* inserted and could not be read back (db.rs:203): nobody removes that one.
FailedCommandUndoes ==
    [][\A j \in Command :
         ~Failed(j) /\ Failed(j)' /\ Touches(j) \intersect tainted' = {} =>
           /\ \A e \in Touches(j) : vault'[e] = job[j].before[e]
           /\ job[j].cmd \in {"duplicate", "share"} =>
                \/ row'[job[j].e] = None
                \/ Step(j) = "insert" /\ <<job[j].e, "secret">> \in lacking']_storeVars

\* Between commands the two stores agree, whatever commands came before and however they
\* ended: a row that refers to a secret has it, one that names a key has the bookmark of
\* that very file, if the store takes it, and an id without a row has nothing left in the
\* credential store (PRIVACY.md: a permanent deletion clears its entries).  The first two
\* do not hold of what `lacking` names: an import brings no bookmark, and a row that
\* connection_save, connection_duplicate, proxy_save or apply_share wrote but could not
\* read back (db.rs:191, 203, 440) refers to the secret and the bookmark that they then
\* took away.  The third holds of those too.
StoresAgree ==
    \A e \in Entry :
      e \notin tainted /\ (\A j \in Command : Running(j) => e \notin Touches(j)) =>
        IF row[e] = None THEN vault[e] = NoEntries
        ELSE /\ row[e].ref => vault[e].secret # None \/ <<e, "secret">> \in lacking
             /\ row[e].auth \in {"key", "certificate"} =>
                  vault[e].key = BookmarkOf(row[e].path) \/ <<e, "key">> \in lacking
=============================================================================
