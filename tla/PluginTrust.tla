----------------------------- MODULE PluginTrust -----------------------------
(***************************************************************************)
(* Plugins (plugin.rs): a publisher whose key the user trusts, a plugin of *)
(* that publisher, and the requests its runs leave for the user to         *)
(* approve.  The trusted keys and the registry are two documents in the    *)
(* database.  A command reads a document, changes it and writes it back    *)
(* whole; nothing locks it in between.  While the settings page is open,   *)
(* its busy buttons wait for each other, but those that disable, remove    *)
(* and revoke do not.                                                      *)
(*                                                                         *)
(* The manifest and the module are files that may change at any time; they *)
(* are read several times by one command.  A version stands for a manifest *)
(* and for the module that its signature covers, and for the permissions   *)
(* that it asks for.  What the module does in its sandbox is left out,     *)
(* but for the requests it makes.                                          *)
(***************************************************************************)
EXTENDS Naturals, FiniteSets, NoValue

CONSTANTS
    Version,     \* versions of the plugin
    Call,        \* commands that run at the same time
    MaxAsked,    \* MAX_PENDING_PROXY_REQUESTS (32)
    MaxChanges   \* bound of the model: changes of the files

ASSUME PluginAssumption == None \notin Version /\ MaxAsked \in Nat /\ MaxChanges \in Nat

VARIABLES
    files,       \* the version of the manifest and of the module on the disk
    publisher,   \* the trusted keys: of this publisher
    plugin,      \* the registry: the record of this plugin, or None
    call,        \* the commands that run
    asked,       \* pending requests: the digest of the plugin that made them
    changes

pluginVars == <<files, publisher, plugin, call, asked, changes>>
documents == <<publisher, plugin>>

Ready ==
    [op |-> "none", at |-> "ready", record |-> None, trusted |-> FALSE,
     report |-> None, module |-> None, digest |-> None, bytes |-> None]

Record ==
    [report : Version, digest : Version, module : Version,
     status : {"verified", "unsigned", "publisher-revoked", "invalidated"},
     executable : BOOLEAN, enabled : BOOLEAN, granted : SUBSET Version]

\* The record of a registration is the manifest that was read until there is a record.
CallState ==
    [op : {"none", "import", "revoke", "disable", "remove", "enable", "run", "register", "approve"},
     at : {"ready", "save", "report", "module", "key", "digest", "invalidate", "record",
           "enable", "run", "fetch", "directory", "execute", "ask", "validate", "approved"},
     record : Record \union Version \union {None}, trusted : BOOLEAN,
     report : Version \union {None}, module : Version \union {None},
     digest : Version \union {None}, bytes : Version \union {None}]

PluginTypeOK ==
    /\ files \in [manifest : Version, module : Version]
    /\ publisher \in {"unknown", "trusted", "revoked"}
    /\ plugin # None => plugin \in Record /\ (plugin.enabled => plugin.executable)
    /\ call \in [Call -> CallState]
    /\ asked \subseteq (1..MaxAsked) \X Version /\ Cardinality(asked) <= MaxAsked

PluginInit ==
    /\ \E v \in Version : files = [manifest |-> v, module |-> v]
    /\ publisher \in {"unknown", "trusted"} /\ plugin = None
    /\ call = [c \in Call |-> Ready]
    /\ asked = {} /\ changes = 0

Reaches(c, at) == call' = [call EXCEPT ![c].at = at]
Returns(c) == call' = [call EXCEPT ![c] = Ready]
Notes(c, at, field, value) == call' = [call EXCEPT ![c].at = at, ![c][field] = value]
Quiet == UNCHANGED <<files, asked, changes>>

\* Buttons that are disabled while one of them is busy.
Busy == {"import", "register", "enable", "run", "approve"}

Begins(c, op, at, entry) ==
    /\ call[c] = Ready
    /\ op \in Busy => \A d \in Call : call[d].op \notin Busy
    /\ call' = [call EXCEPT ![c] = [Ready EXCEPT !.op = op, !.at = at, !.record = entry]]
    /\ UNCHANGED documents /\ Quiet

(***************************************************************************)
(* Read, change, write back.                                               *)
(***************************************************************************)
Invalid(r, status) ==
    [r EXCEPT !.enabled = FALSE, !.executable = FALSE, !.granted = {}, !.status = status]

Import(c) == publisher # "trusted" /\ Begins(c, "import", "save", None)

Revoke(c) == publisher # "unknown" /\ Begins(c, "revoke", "save", plugin)

Disable(c) == plugin # None /\ Begins(c, "disable", "save", plugin)

Remove(c) == plugin # None /\ Begins(c, "remove", "save", plugin)

Enable(c) == plugin # None /\ Begins(c, "enable", "report", plugin)

Run(c) ==
    /\ plugin # None /\ plugin.enabled /\ plugin.executable
    /\ Begins(c, "run", "report", plugin)

\* The manifest and the digest of the module, before the package is verified.
Register(c) ==
    /\ call[c] = Ready /\ \A d \in Call : call[d].op \notin Busy
    /\ call' = [call EXCEPT ![c].op = "register", ![c].at = "report",
                            ![c].record = files.manifest, ![c].module = files.module]
    /\ UNCHANGED documents /\ Quiet

SaveDocuments(c) ==
    LET r == call[c].record IN
    /\ call[c].at = "save"
    /\ CASE call[c].op = "import" -> publisher' = "trusted" /\ UNCHANGED plugin
         [] call[c].op = "revoke" ->
              /\ publisher' = "revoked"
              /\ plugin' = IF r = None THEN None ELSE Invalid(r, "publisher-revoked")
         [] call[c].op = "disable" ->
              plugin' = [r EXCEPT !.enabled = FALSE, !.granted = {}] /\ UNCHANGED publisher
         [] call[c].op = "remove" -> plugin' = None /\ UNCHANGED publisher
         [] OTHER -> plugin' = r /\ UNCHANGED publisher
    /\ Returns(c) /\ Quiet

-----------------------------------------------------------------------------
(***************************************************************************)
(* verify_package: the manifest, the module, the trusted key, and the      *)
(* manifest once more for its digest.                                      *)
(***************************************************************************)
ReadReport(c) ==
    /\ call[c].at = "report"
    /\ Notes(c, "module", "report", files.manifest)
    /\ UNCHANGED documents /\ Quiet

HashModule(c) ==
    /\ call[c].at = "module"
    /\ Notes(c, "key", IF call[c].op = "register" THEN "bytes" ELSE "module", files.module)
    /\ UNCHANGED documents /\ Quiet

Signed(c) ==
    /\ publisher = "trusted"
    /\ call[c].report = IF call[c].op = "register" THEN call[c].bytes ELSE call[c].module

CheckSignature(c) ==
    /\ call[c].at = "key"
    /\ CASE Signed(c) -> call' = [call EXCEPT ![c].at = "digest", ![c].trusted = TRUE]
         [] ~Signed(c) /\ call[c].op = "register" ->
              call' = [call EXCEPT ![c].at = "digest", ![c].report = call[c].record]
         [] OTHER -> Reaches(c, "invalidate")
    /\ UNCHANGED documents /\ Quiet

\* enable and run compare the package with the record.
Matches(c, digest) ==
    /\ digest = call[c].record.digest
    /\ call[c].report = call[c].record.report
    /\ call[c].module = call[c].record.module

ReadDigest(c) ==
    LET digest == files.manifest IN
    /\ call[c].at = "digest"
    /\ CASE call[c].op = "register" -> Notes(c, "record", "digest", digest)
         [] call[c].op # "register" /\ Matches(c, digest) -> Reaches(c, call[c].op)
         [] OTHER -> Reaches(c, "invalidate")
    /\ UNCHANGED documents /\ Quiet

(***************************************************************************)
(* register: what verifies replaces the manifest, not the digest of the    *)
(* module that is recorded.                                                *)
(***************************************************************************)
NewRecord(c) ==
    [report |-> call[c].report, digest |-> call[c].digest, module |-> call[c].module,
     status |-> IF call[c].trusted THEN "verified" ELSE "unsigned",
     executable |-> call[c].trusted, enabled |-> FALSE, granted |-> {}]

LoadRegistry(c) ==
    /\ call[c].at = "record"
    /\ Notes(c, "save", "record", NewRecord(c))
    /\ UNCHANGED documents /\ Quiet

LoadInvalid(c) ==
    /\ call[c].at = "invalidate"
    /\ IF plugin = None THEN Returns(c)
       ELSE Notes(c, "save", "record", Invalid(plugin, "invalidated"))
    /\ UNCHANGED documents /\ Quiet

\* What the user confirmed must be asked for by the manifest that was verified; the
\* registry is read again.
LoadEnabled(c) ==
    /\ call[c].at = "enable"
    /\ \/ /\ plugin # None
          /\ \E granted \in {{}, {call[c].report}} :
                Notes(c, "save", "record",
                      [plugin EXCEPT !.status = "verified", !.executable = TRUE,
                                     !.enabled = TRUE, !.granted = granted])
       \/ Returns(c)
    /\ UNCHANGED documents /\ Quiet

-----------------------------------------------------------------------------
(***************************************************************************)
(* A run: the module is read once more, what the user gave for this run is *)
(* fetched, and the module is executed; it may leave a request.            *)
(***************************************************************************)
\* Mutant: what is read now is what was hashed before.
Unchecked(run) == TRUE

SameModule(run) == run.bytes = run.module

ReadModule(c) ==
    LET read == [call EXCEPT ![c].bytes = files.module] IN
    /\ call[c].at = "run"
    /\ call' = [read EXCEPT ![c].at = IF SameModule(read[c]) THEN "fetch" ELSE "invalidate"]
    /\ UNCHANGED documents /\ Quiet

\* Whatever the permissions need and the user did not give, or that fails, ends the run.
GoesOn(c, at) == (Reaches(c, at) \/ Returns(c)) /\ UNCHANGED documents /\ Quiet

FetchResource(c) == call[c].at = "fetch" /\ GoesOn(c, "directory")

ReadDirectory(c) == call[c].at = "directory" /\ GoesOn(c, "execute")

\* Only a function whose permission is granted can be imported and called.
MayAsk(r) == r.granted # {}

Execute(c) ==
    /\ call[c].at = "execute"
    /\ \/ MayAsk(call[c].record) /\ Reaches(c, "ask")
       \/ Returns(c)
    /\ UNCHANGED documents /\ Quiet

\* A request is kept for at most two minutes.
Ask(c) ==
    LET free == (1..MaxAsked) \ {a[1] : a \in asked} IN
    /\ call[c].at = "ask"
    /\ asked' = IF free = {} THEN asked
                ELSE asked \union {<<CHOOSE n \in free : TRUE, call[c].record.digest>>}
    /\ Returns(c)
    /\ UNCHANGED <<documents, files, changes>>

\* The user's decision takes the request; an approval then looks at the record.
Decide(c) ==
    /\ call[c] = Ready
    /\ \E a \in asked :
          /\ asked' = asked \ {a}
          /\ \/ UNCHANGED call
             \/ /\ \A d \in Call : call[d].op \notin Busy
                /\ call' = [call EXCEPT ![c].op = "approve", ![c].at = "validate",
                                        ![c].digest = a[2]]
    /\ UNCHANGED <<documents, files, changes>>

Valid(c) ==
    /\ plugin # None /\ plugin.enabled /\ plugin.executable
    /\ plugin.digest = call[c].digest /\ MayAsk(plugin)

\* An approval that is valid sends the one input, or makes the one diagnosis; without it
\* the request is gone.
Validate(c) ==
    /\ call[c].at = "validate"
    /\ IF Valid(c) THEN Reaches(c, "approved") ELSE Returns(c)
    /\ UNCHANGED documents /\ Quiet

Approved(c) == call[c].at = "approved" /\ Returns(c) /\ UNCHANGED documents /\ Quiet

RequestExpires ==
    /\ \E a \in asked : asked' = asked \ {a}
    /\ UNCHANGED <<documents, files, call, changes>>

\* An editor, an update or a build writes one of the files, or both.
FileChanges ==
    /\ changes < MaxChanges /\ changes' = changes + 1
    /\ files' \in [manifest : Version, module : Version]
    /\ UNCHANGED <<documents, call, asked>>

CallStep(c) ==
    \/ Import(c) \/ Revoke(c) \/ Disable(c) \/ Remove(c) \/ Enable(c) \/ Run(c) \/ Register(c)
    \/ SaveDocuments(c)
    \/ ReadReport(c) \/ HashModule(c) \/ CheckSignature(c) \/ ReadDigest(c) \/ LoadRegistry(c)
    \/ LoadInvalid(c) \/ LoadEnabled(c)
    \/ ReadModule(c) \/ FetchResource(c) \/ ReadDirectory(c) \/ Execute(c) \/ Ask(c)
    \/ Decide(c) \/ Validate(c) \/ Approved(c)

PluginNext == (\E c \in Call : CallStep(c)) \/ RequestExpires \/ FileChanges

PluginSpec == PluginInit /\ [][PluginNext]_pluginVars

-----------------------------------------------------------------------------
(***************************************************************************)
(* What runs is a module that the signature of its manifest covers, and    *)
(* both are those that were registered, whichever version each of the      *)
(* reads of the two files has found and whatever older registry a command  *)
(* has written back.  (The permissions are not in it: enable reads the     *)
(* registry again after it has verified, and gives what the user confirmed *)
(* for one version to the record that another command put back.)           *)
(***************************************************************************)
RunsWhatWasSigned ==
    \A c \in Call :
        call[c].at = "execute" =>
            /\ call[c].bytes = call[c].report
            /\ call[c].report = call[c].record.report /\ call[c].bytes = call[c].record.module
=============================================================================
