----------------------- MODULE ConnectionStore_proofs -----------------------
(***************************************************************************)
(* What holds of the stored connections, for any number of ids, values and *)
(* commands that run at the same time: between commands a row and the      *)
(* entries of the credential store agree, and a command that fails undoes  *)
(* what it has done.  The invariant says what each command has made of its *)
(* ids so far; a step of one call leads it on, or out.                     *)
(***************************************************************************)
EXTENDS ConnectionStore, SequenceTheorems, TLAPS

(***************************************************************************)
(* Stored connections.  What a call is given, and what it has read, is of  *)
(* one kind for each command and never changes while it runs.              *)
(***************************************************************************)
Maybe == Value \union {None}
EntryState == [Secret -> Maybe]
ProxyCommands == {"proxySave", "proxyPlain", "proxyDelete"}

CallState ==
    [cmd : CommandName, at : 1..7, e : Entry, from : Entry \union {None}, auth : Auth \union {None},
     secret : Maybe, path : Maybe, row : Row \union {None}, read : EntryState,
     changed : Seq(Entry \X Maybe), before : [Entry -> EntryState]]

\* A proxy has no file, neither in its row nor in the credential store.
NoFiles(entries) == \A k \in Secret \ {"secret"} : entries[k] = None
PlainRow(r) == r # None => r.auth \in {"password", "agent"}

\* What import_file remembers: the ids whose secrets it has written, with those they had.
Listed(c, n, ch) ==
    IF c.secret = None \/ n = 1 THEN ch = <<>>
    ELSE \E s, t \in Maybe : ch = IF n = 2 THEN <<<<c.e, s>>>> ELSE <<<<c.e, s>>, <<c.from, t>>>>

Steps(cmd) == Len(Script(cmd))

\* What each command is given.
Called(c) ==
    /\ c \in CallState
    /\ c.at <= Steps(c.cmd)
    /\ c.read = IF c.cmd \in {"duplicate", "share"} THEN NoEntries ELSE c.before[c.e]
    /\ \A p \in Proxies : NoFiles(c.before[p])
    /\ c.from # None <=> c.cmd \in {"duplicate", "import"}
    /\ c.e \in Proxies <=> c.cmd \in ProxyCommands
    /\ c.cmd = "import" => c.from \notin Proxies /\ Listed(c, c.at, c.changed)
    /\ c.cmd \in {"save", "saveAgent", "duplicate", "options", "proxySave", "proxyPlain", "share", "import"}
         => c.auth \in Auth
    /\ c.cmd = "save" => c.auth # "agent"
    /\ c.cmd \in {"saveAgent", "proxyPlain"} => c.auth = "agent"
    /\ c.cmd \in {"proxySave", "share"} => c.auth = "password"
    /\ c.cmd = "duplicate" => /\ c.e # c.from /\ c.row # None /\ c.secret = None
                              /\ c.auth = c.row.auth /\ c.path = c.row.path

(***************************************************************************)
(* A row and entries that fit together.                                    *)
(***************************************************************************)
Fits(x, r, v, imp) ==
    IF r = None THEN v = NoEntries
    ELSE /\ r.ref => v.secret # None \/ <<x, "secret">> \in imp
         /\ r.auth \in {"key", "certificate"} =>
              v.key = BookmarkOf(r.path) \/ <<x, "key">> \in imp

\* A row as it was, perhaps deleted or restored, or with other options.
SameRow(r, old) ==
    /\ r = None <=> old = None
    /\ r # None => r.auth = old.auth /\ r.path = old.path /\ r.ref = old.ref

RowWritten(c, x) ==
    /\ x = c.e
    /\ (c.cmd = "duplicate" /\ c.at > 1) \/ (c.cmd = "share" /\ c.at > 2)

\* The kinds that the steps before this one have written for x.
DuplicateWrites == <<{}, {}, {"key"}, {"key", "certificate"}, {"key", "certificate", "drive"},
                     {"key", "certificate", "drive"}, Secret>>
OtherKinds == <<"secret", "key", "certificate", "drive">>
OtherWrites == <<{}, {"secret"}, {"secret", "key"}, {"secret", "key", "certificate"}, Secret>>

Written(c, x) ==
    CASE c.cmd = "import" -> IF c.changed # <<>> THEN {"secret"} ELSE {}
      [] c.cmd # "import" /\ x # c.e -> {}
      [] c.cmd = "duplicate" /\ x = c.e -> DuplicateWrites[c.at]
      [] c.cmd = "options" /\ x = c.e -> IF c.at = 1 THEN {} ELSE {"drive"}
      [] c.cmd = "share" /\ x = c.e -> IF c.at = 1 THEN {} ELSE {"secret"}
      [] OTHER -> OtherWrites[c.at]

\* The secret, and the key's bookmark, that a command leaves behind.
NewSecret(c) ==
    IF c.secret # None THEN c.secret
    ELSE IF c.cmd = "save" /\ c.row # None /\ c.row.auth # c.auth THEN None
    ELSE c.before[c.e].secret

KeptKey(c) ==
    /\ c.read["key"] # None /\ c.row # None
    /\ c.row.auth \in {"key", "certificate"} /\ c.row.path = c.path

NewKey(c) ==
    IF KeptKey(c) THEN c.before[c.e].key
    ELSE IF c.auth \notin {"key", "certificate"} THEN None ELSE BookmarkOf(c.path)

\* What import_file remembers is what x had.
Remembers(c, x) ==
    c.secret # None /\ c.at > 1 =>
      /\ x = c.e => c.changed[1][2] = c.before[x].secret
      /\ c.at > 2 /\ x = c.from /\ x # c.e => c.changed[2][2] = c.before[x].secret

(***************************************************************************)
(* What call c has made of x so far, when x, whose row is r and whose      *)
(* entries are v, belongs to it alone.                                     *)
(***************************************************************************)
SoFar(c, x, r, v, imp) ==
    /\ ~RowWritten(c, x) => Fits(x, r, c.before[x], imp)
    /\ \A k \in Secret : k \notin Written(c, x) => v[k] = c.before[x][k]
    /\ c.cmd \in {"save", "proxySave", "share"} /\ c.at > 1 => v.secret = NewSecret(c)
    /\ c.cmd = "save" =>
         /\ c.row # None => r # None /\ SameRow(r, c.row)
         /\ c.at > 2 => v.key = NewKey(c)
    /\ c.cmd = "purge" =>
         /\ c.at > 1 => v.secret = None
         /\ c.at > 2 => v.key = None
         /\ c.at > 3 => v.certificate = None
         /\ c.at > 4 => v.drive = None
    /\ c.cmd = "options" => r # None
    /\ c.cmd = "proxyDelete" /\ c.at > 1 => v.secret = None
    /\ c.cmd = "share" =>
         /\ c.before[x] = NoEntries
         /\ IF c.at > 2 THEN r # None /\ r.auth = "password" /\ r.ref = (c.secret # None)
                        ELSE r = None
    /\ c.cmd = "duplicate" /\ x = c.from => r # None /\ SameRow(r, c.row)
    /\ c.cmd = "duplicate" /\ x = c.e =>
         /\ c.before[x] = NoEntries
         /\ <<c.from, "key">> \in imp => <<x, "key">> \in imp
         /\ c.at > 2 => v.key = c.before[c.from].key
         /\ c.at > 6 => v.secret # None
         /\ IF c.at > 1 THEN r # None /\ r.auth = c.auth /\ r.path = c.path /\ ~r.ref ELSE r = None
    /\ c.cmd = "import" =>
         /\ <<x, "key">> \in imp /\ Remembers(c, x)
         /\ c.secret # None /\ ((x = c.e /\ c.at > 1) \/ (x = c.from /\ c.at > 2)) => v.secret = c.secret
         /\ c.secret # None /\ x # c.e /\ c.at < 3 => v.secret = c.before[x].secret

(***************************************************************************)
(* Inductive: of two calls that meet, everything is tainted, so what is    *)
(* not belongs to one call, or to none and then fits.                      *)
(***************************************************************************)
Ended == {NoCall, [NoCall EXCEPT !.at = -1]}

StoresOK ==
    /\ row \in [Entry -> Row \union {None}]
    /\ vault \in [Entry -> EntryState]
    /\ \A p \in Proxies : PlainRow(row[p]) /\ NoFiles(vault[p])

CallsOK ==
    /\ job \in [Command -> CallState \union Ended]
    /\ \A j \in Command : Running(j) => Called(job[j])
    /\ tainted \subseteq Entry
    /\ lacking \subseteq Entry \X {"secret", "key"}

CallsApart ==
    /\ \A i, j \in Command :
         i # j /\ Running(i) /\ Running(j) /\ Touches(i) \intersect Touches(j) # {} =>
           Touches(i) \subseteq tainted
    /\ \A j \in Command :
         job[j].cmd = "duplicate" /\ job[j].from \in tainted => job[j].e \in tainted

Free(x) == \A j \in Command : Running(j) => x \notin Touches(j)

EntryOK(x) ==
    x \notin tainted =>
      /\ Free(x) => Fits(x, row[x], vault[x], lacking)
      /\ \A j \in Command : Running(j) /\ x \in Touches(j) => SoFar(job[j], x, row[x], vault[x], lacking)

StoreInv == StoresOK /\ CallsOK /\ CallsApart /\ \A x \in Entry : EntryOK(x)
(***************************************************************************)
(* What the proofs use of records and of the scripts.                      *)
(***************************************************************************)
LEMMA Scripts ==
    /\ Steps("save") = 4
    /\ Script("save")[1] = "secret" /\ Script("save")[2] = "key"
    /\ Script("save")[3] = "certificate" /\ Script("save")[4] = "row"
    /\ Steps("saveAgent") = 4
    /\ Script("saveAgent")[1] = "forget" /\ Script("saveAgent")[2] = "noKey"
    /\ Script("saveAgent")[3] = "noCertificate" /\ Script("saveAgent")[4] = "row"
    /\ Steps("purge") = 5
    /\ Script("purge")[1] = "forget" /\ Script("purge")[2] = "noKey"
    /\ Script("purge")[3] = "noCertificate" /\ Script("purge")[4] = "noDrive"
    /\ Script("purge")[5] = "delete"
    /\ Steps("duplicate") = 7
    /\ Script("duplicate")[1] = "insert" /\ Script("duplicate")[2] = "copyKey"
    /\ Script("duplicate")[3] = "copyCertificate" /\ Script("duplicate")[4] = "copyDrive"
    /\ Script("duplicate")[5] = "options" /\ Script("duplicate")[6] = "copySecret"
    /\ Script("duplicate")[7] = "reference"
    /\ Steps("options") = 2
    /\ Script("options")[1] = "drive" /\ Script("options")[2] = "options"
    /\ Steps("proxySave") = 2
    /\ Script("proxySave")[1] = "secret" /\ Script("proxySave")[2] = "row"
    /\ Steps("proxyPlain") = 2
    /\ Script("proxyPlain")[1] = "forget" /\ Script("proxyPlain")[2] = "row"
    /\ Steps("proxyDelete") = 2
    /\ Script("proxyDelete")[1] = "forget" /\ Script("proxyDelete")[2] = "delete"
    /\ Steps("share") = 3
    /\ Script("share")[1] = "secret" /\ Script("share")[2] = "insert"
    /\ Script("share")[3] = "audit"
    /\ Steps("import") = 3
    /\ Script("import")[1] = "first" /\ Script("import")[2] = "second"
    /\ Script("import")[3] = "rows"
BY DEF Script, Steps

LEMMA ScriptLengths == \A m \in CommandName : Steps(m) \in 2..7
BY Scripts DEF CommandName

LEMMA EntryFields ==
    ASSUME NEW v \in EntryState
    PROVE  /\ v.secret \in Maybe /\ v.key \in Maybe /\ v.certificate \in Maybe /\ v.drive \in Maybe
           /\ \A k \in Secret : v[k] \in Maybe
BY DEF EntryState, Secret

LEMMA EntriesEqual ==
    ASSUME NEW v \in EntryState, NEW w \in EntryState, \A k \in Secret : v[k] = w[k]
    PROVE  v = w
BY DEF EntryState, Secret

LEMMA EntryEmpty ==
    /\ NoEntries \in EntryState /\ \A k \in Secret : NoEntries[k] = None
    /\ NoEntries.secret = None /\ NoEntries.key = None
BY DEF NoEntries, EntryState, Secret, Maybe

LEMMA CallFields ==
    ASSUME NEW c \in CallState
    PROVE  /\ c.cmd \in CommandName /\ c.at \in 1..7 /\ c.e \in Entry /\ c.from \in Entry \union {None}
           /\ c.auth \in Auth \union {None} /\ c.secret \in Maybe /\ c.path \in Maybe
           /\ c.row \in Row \union {None} /\ c.read \in EntryState
           /\ c.changed \in Seq(Entry \X Maybe) /\ c.before \in [Entry -> EntryState]
BY DEF CallState

LEMMA BookmarkKept ==
    ASSUME NEW path \in Maybe
    PROVE  BookmarkOf(path) \in Maybe
BY DEF BookmarkOf, Maybe

LEMMA RowFields ==
    ASSUME NEW r \in Row
    PROVE  /\ r.auth \in Auth /\ r.path \in Maybe /\ r.ref \in BOOLEAN /\ r.drive \in Maybe
           /\ r.deleted \in BOOLEAN
BY DEF Row, Maybe

LEMMA RowOfIsRow ==
    ASSUME NEW auth \in Auth, NEW path \in Maybe, NEW ref \in BOOLEAN, NEW drive \in Maybe,
           NEW deleted \in BOOLEAN
    PROVE  /\ RowOf(auth, path, ref, drive, deleted) \in Row
           /\ RowOf(auth, path, ref, drive, deleted).auth = auth
           /\ RowOf(auth, path, ref, drive, deleted).path = path
           /\ RowOf(auth, path, ref, drive, deleted).ref = ref
           /\ RowOf(auth, path, ref, drive, deleted).drive = drive
BY DEF RowOf, Row, Maybe

\* What runs is a call, with an id that can be None no more.
LEMMA RunningOrEnded ==
    /\ NoCall.cmd = None /\ [NoCall EXCEPT !.at = -1].cmd = None
    /\ \A d \in Ended : d.cmd = None
    /\ \A c \in CallState : c.cmd # None
BY EntryAssumption DEF Ended, NoCall, CallState

(***************************************************************************)
(* A step of one call.  What it leads to is enough for the invariant: it   *)
(* changes nothing but its own ids, and these are as far as the call has   *)
(* come, or fit when it is at an end.                                      *)
(***************************************************************************)
OnlyTouches(j) ==
    \A x \in Entry \ Touches(j) : row'[x] = row[x] /\ vault'[x] = vault[x]

Continues(c, d) == d.cmd = c.cmd /\ d.e = c.e /\ d.from = c.from

LeadsOn(j, d) ==
    /\ Called(d) /\ Continues(job[j], d)
    /\ tainted' = tainted
    /\ \A x \in Touches(j) \ tainted : SoFar(d, x, row'[x], vault'[x], lacking)

LeadsOut(j, d) ==
    /\ d \in Ended
    /\ tainted' \in {tainted, tainted \union Touches(j)}
    /\ \A x \in Touches(j) \ tainted' : Fits(x, row'[x], vault'[x], lacking)

\* As LeadsOut, for a call that leaves a row that it could not read back.
LeavesLoose(j, d) ==
    /\ d \in Ended
    /\ tainted' \in {tainted, tainted \union Touches(j)}
    /\ \A x \in Touches(j) \ tainted' : Fits(x, row'[x], vault'[x], lacking')

LacksMore(j) ==
    /\ lacking \subseteq lacking' /\ lacking' \subseteq Entry \X {"secret", "key"}
    /\ \A x \in Entry \ Touches(j), k \in {"secret", "key"} :
         <<x, k>> \in lacking' => <<x, k>> \in lacking

LEMMA TouchesCall ==
    ASSUME StoreInv, NEW j \in Command, Running(j)
    PROVE  /\ Called(job[j]) /\ job[j] \in CallState
           /\ job[j].e \in Entry /\ job[j].e \in Touches(j)
           /\ job[j].from # None => job[j].from \in Entry /\ job[j].from \in Touches(j)
           /\ Touches(j) \subseteq Entry
           /\ \A x \in Touches(j) : x = job[j].e \/ (x = job[j].from /\ x # None)
<1>1. Called(job[j]) BY DEF StoreInv, CallsOK
<1>2. job[j] \in CallState BY <1>1 DEF Called
<1>3. job[j].e \in Entry /\ job[j].from \in Entry \union {None} BY <1>2, CallFields
<1> QED BY <1>1, <1>2, <1>3, EntryAssumption DEF Touches

LEMMA FitsMore ==
    ASSUME NEW x, NEW r, NEW v, NEW imp, NEW more, imp \subseteq more, Fits(x, r, v, imp)
    PROVE  Fits(x, r, v, more)
BY DEF Fits

LEMMA SoFarMore ==
    ASSUME NEW c, NEW x, NEW r, NEW v, NEW imp, NEW more, imp \subseteq more,
           SoFar(c, x, r, v, imp),
           c.cmd = "duplicate" /\ <<c.from, "key">> \in more => <<c.from, "key">> \in imp
    PROVE  SoFar(c, x, r, v, more)
<1>1. ~RowWritten(c, x) => Fits(x, r, c.before[x], more) BY FitsMore DEF SoFar
<1>2. c.cmd = "import" => <<x, "key">> \in more BY DEF SoFar
<1>3. c.cmd = "duplicate" /\ x = c.e => (<<c.from, "key">> \in more => <<x, "key">> \in more)
  BY DEF SoFar
<1> QED BY <1>1, <1>2, <1>3 DEF SoFar

LEMMA OneCallGoes ==
    ASSUME StoreInv, NEW j \in Command, Running(j), NEW d,
           job' = [job EXCEPT ![j] = d], LacksMore(j),
           StoresOK', OnlyTouches(j),
           (LeadsOn(j, d) /\ lacking' = lacking) \/ LeavesLoose(j, d)
    PROVE  StoreInv'
<1>1. job \in [Command -> CallState \union Ended] /\ tainted \subseteq Entry
  BY DEF StoreInv, CallsOK
<1>2. /\ \A i \in Command : job'[i] = IF i = j THEN d ELSE job[i]
      /\ job' \in [Command -> CallState \union Ended]
  BY <1>1 DEF LeadsOn, LeavesLoose, Called
<1>3. /\ \A i \in Command : i # j => (Running(i)' <=> Running(i)) /\ Touches(i)' = Touches(i)
      /\ Running(j)' => LeadsOn(j, d) /\ lacking' = lacking /\ Touches(j)' = Touches(j)
      /\ LeavesLoose(j, d) => ~Running(j)'
  BY <1>2, RunningOrEnded DEF Running, Touches, LeadsOn, LeavesLoose, Called, Continues
<1>4. tainted' \in {tainted, tainted \union Touches(j)} /\ (Running(j)' => tainted' = tainted)
  BY <1>3 DEF LeadsOn, LeavesLoose
<1>5. Touches(j) \subseteq Entry BY TouchesCall
<1>6. CallsOK'
  <2>1. ASSUME NEW i \in Command, Running(i)' PROVE Called(job'[i])
    <3>1. CASE i = j BY <2>1, <3>1, <1>2, <1>3 DEF LeadsOn
    <3>2. CASE i # j BY <2>1, <3>2, <1>2, <1>3 DEF StoreInv, CallsOK
    <3> QED BY <3>1, <3>2
  <2>2. \A i \in Command : Running(i)' => Called(job[i])'
    BY <2>1 DEF Called, CallState, Maybe, NoEntries
  <2> QED BY <2>2, <1>1, <1>2, <1>4, <1>5 DEF CallsOK, LacksMore
<1>7. CallsApart'
  <2>1. ASSUME NEW i \in Command, NEW k \in Command, i # k, Running(i)', Running(k)',
               Touches(i)' \intersect Touches(k)' # {}
        PROVE  Touches(i)' \subseteq tainted'
    BY <2>1, <1>3, <1>4 DEF StoreInv, CallsApart
  <2>2. ASSUME NEW i \in Command, job'[i].cmd = "duplicate", job'[i].from \in tainted'
        PROVE  job'[i].e \in tainted'
    <3>1. Running(i)' BY <2>2, EntryAssumption DEF Running, CommandName
    <3>2. CASE i = j
      BY <3>1, <3>2, <2>2, <1>2, <1>3, <1>4 DEF StoreInv, CallsApart, LeadsOn, Continues
    <3>3. CASE i # j
      <4>1. Running(i) /\ job'[i] = job[i] BY <3>1, <3>3, <1>2, <1>3
      <4>2. /\ job[i].e \in Touches(i)
            /\ job[i].from \in tainted' /\ job[i].from \in Entry => job[i].from \in Touches(i)
        BY <4>1, TouchesCall, EntryAssumption
      <4>3. CASE job[i].from \in tainted
        BY <4>1, <4>3, <2>2, <1>4 DEF StoreInv, CallsApart
      <4>4. CASE job[i].from \notin tainted
        <5>1. job[i].from \in Touches(j) BY <4>1, <4>4, <2>2, <1>4
        <5>2. Touches(i) \subseteq tainted
          BY <5>1, <4>1, <4>2, <3>3, <2>2, <1>5 DEF StoreInv, CallsApart
        <5> QED BY <5>2, <4>1, <4>2, <1>4
      <4> QED BY <4>3, <4>4
    <3> QED BY <3>2, <3>3
  <2> QED BY <2>1, <2>2 DEF CallsApart
<1>8. ASSUME NEW x \in Entry, x \notin tainted' PROVE EntryOK(x)'
  <2>1. x \notin tainted BY <1>8, <1>4
  <2>2. CASE x \in Touches(j)
    <3>1. ASSUME NEW i \in Command, i # j, Running(i) PROVE x \notin Touches(i)
      BY <3>1, <2>1, <2>2 DEF StoreInv, CallsApart
    <3>2. CASE Running(j)'
      <4>1. SoFar(job'[j], x, row'[x], vault'[x], lacking')
        <5>1. LeadsOn(j, d) /\ lacking' = lacking BY <3>2, <1>3
        <5> QED BY <5>1, <2>1, <2>2, <1>2 DEF LeadsOn
      <4> QED BY <4>1, <3>1, <3>2, <2>2, <1>3 DEF EntryOK, Free
    <3>3. CASE ~Running(j)'
      <4>1. LeavesLoose(j, d)
        BY <3>3, <1>2, EntryAssumption DEF LeadsOn, Called, Running, CallState
      <4>2. Fits(x, row'[x], vault'[x], lacking') BY <4>1, <2>2, <1>8 DEF LeavesLoose
      <4> QED BY <4>2, <3>1, <3>3, <2>2, <1>3 DEF EntryOK, Free
    <3> QED BY <3>2, <3>3
  <2>3. CASE x \notin Touches(j)
    <3>1. row'[x] = row[x] /\ vault'[x] = vault[x] BY <2>3 DEF OnlyTouches
    <3>2. EntryOK(x) /\ lacking \subseteq lacking' BY DEF StoreInv, LacksMore
    <3>3. \A i \in Command : Running(i)' /\ x \in Touches(i)' =>
            Running(i) /\ x \in Touches(i) /\ job'[i] = job[i] /\ i # j
      BY <2>3, <1>2, <1>3
    <3>4. Free(x)' => Free(x) BY <2>3, <1>3 DEF Free
    <3>5. Free(x)' => Fits(x, row'[x], vault'[x], lacking')
      BY <3>1, <3>2, <3>4, <2>1, FitsMore DEF EntryOK
    <3>6. ASSUME NEW i \in Command, Running(i)', x \in Touches(i)'
          PROVE  SoFar(job'[i], x, row'[x], vault'[x], lacking')
      <4>1. /\ Running(i) /\ x \in Touches(i) /\ job'[i] = job[i] /\ i # j
            /\ SoFar(job[i], x, row[x], vault[x], lacking)
        BY <3>2, <3>3, <3>6, <2>1 DEF EntryOK
      <4>2. Touches(i) \intersect Touches(j) = {}
        BY <4>1, <2>1 DEF StoreInv, CallsApart
      <4>3. ASSUME job[i].cmd = "duplicate", <<job[i].from, "key">> \in lacking'
            PROVE  <<job[i].from, "key">> \in lacking
        <5>1. job[i].from # None BY <4>1, <4>3, TouchesCall DEF Called
        <5>2. job[i].from \in Entry \ Touches(j) BY <5>1, <4>1, <4>2, TouchesCall
        <5> QED BY <5>2, <4>3 DEF LacksMore
      <4> QED BY <4>1, <4>3, <3>1, <3>2, SoFarMore
    <3> QED BY <3>5, <3>6 DEF EntryOK
  <2> QED BY <2>2, <2>3
<1> QED BY <1>6, <1>7, <1>8 DEF StoreInv, EntryOK

LEMMA OneCallKeeps ==
    ASSUME StoreInv, NEW j \in Command, Running(j), NEW d,
           job' = [job EXCEPT ![j] = d], lacking' = lacking,
           StoresOK', OnlyTouches(j), LeadsOn(j, d) \/ LeadsOut(j, d)
    PROVE  StoreInv'
<1>1. LacksMore(j) BY DEF LacksMore, StoreInv, CallsOK
<1>2. LeadsOut(j, d) => LeavesLoose(j, d) BY DEF LeadsOut, LeavesLoose
<1> QED BY <1>1, <1>2, OneCallGoes

(***************************************************************************)
(* What a step writes.                                                     *)
(***************************************************************************)
Writes(e, k, v) == vault' = [vault EXCEPT ![e][k] = v]

Wrote(e, k, v) ==
    /\ vault' \in [Entry -> EntryState] /\ vault'[e] \in EntryState
    /\ \A x \in Entry \ {e} : vault'[x] = vault[x]
    /\ vault'[e][k] = v
    /\ \A q \in Secret \ {k} : vault'[e][q] = vault[e][q]
    /\ (e \in Proxies => k = "secret") => \A p \in Proxies : NoFiles(vault'[p])

LEMMA EntryWritten ==
    ASSUME StoresOK, NEW e \in Entry, NEW k \in Secret, NEW v \in Maybe, Writes(e, k, v)
    PROVE  Wrote(e, k, v)
<1> USE DEF Writes
<1>1. vault \in [Entry -> EntryState] /\ vault[e] \in EntryState BY DEF StoresOK
<1>2. vault'[e] = [vault[e] EXCEPT ![k] = v] BY <1>1
<1>3. vault'[e] \in EntryState BY <1>1, <1>2 DEF EntryState
<1>4. \A x \in Entry \ {e} : vault'[x] = vault[x] BY <1>1
<1>5. vault'[e][k] = v /\ \A q \in Secret \ {k} : vault'[e][q] = vault[e][q]
  BY <1>1, <1>2 DEF EntryState
<1>6. vault' \in [Entry -> EntryState] BY <1>1, <1>3, <1>4
<1>7. ASSUME e \in Proxies => k = "secret" PROVE \A p \in Proxies : NoFiles(vault'[p])
  BY <1>7, <1>4, <1>5, EntryAssumption DEF StoresOK, NoFiles
<1> QED BY <1>3, <1>4, <1>5, <1>6, <1>7 DEF Wrote

LEMMA RowPut ==
    ASSUME StoresOK, NEW e \in Entry, NEW r \in Row \union {None}, row' = [row EXCEPT ![e] = r],
           e \in Proxies => PlainRow(r)
    PROVE  /\ row' \in [Entry -> Row \union {None}]
           /\ \A x \in Entry \ {e} : row'[x] = row[x]
           /\ row'[e] = r
           /\ \A p \in Proxies : PlainRow(row'[p])
BY EntryAssumption DEF StoresOK

Moved(c, d, n, ch) ==
    /\ Called(d) /\ Continues(c, d) /\ d.at = n /\ d.changed = ch
    /\ d.auth = c.auth /\ d.secret = c.secret /\ d.path = c.path /\ d.row = c.row
    /\ d.read = c.read /\ d.before = c.before

LEMMA Advanced ==
    ASSUME NEW c \in CallState, Called(c), NEW n \in 1..7, n <= Steps(c.cmd),
           NEW ch \in Seq(Entry \X Maybe), c.cmd = "import" => Listed(c, n, ch)
    PROVE  Moved(c, [c EXCEPT !.at = n, !.changed = ch], n, ch)
<1> DEFINE d == [c EXCEPT !.at = n, !.changed = ch]
<1>1. /\ d \in CallState /\ d.at = n /\ d.changed = ch /\ d.cmd = c.cmd /\ d.e = c.e
      /\ d.from = c.from /\ d.auth = c.auth /\ d.secret = c.secret /\ d.path = c.path
      /\ d.row = c.row /\ d.read = c.read /\ d.before = c.before
  BY DEF CallState
<1> HIDE DEF d
<1>2. Called(d) BY <1>1 DEF Called, Listed
<1>3. Moved(c, d, n, ch) BY <1>1, <1>2 DEF Moved, Continues
<1> QED BY <1>3 DEF d

LEMMA ShortSequences ==
    ASSUME NEW S, NEW a \in S, NEW b \in S
    PROVE  /\ Append(<<>>, a) = <<a>> /\ Append(<<a>>, b) = <<a, b>>
           /\ <<a>> # <<>> /\ <<a, b>> # <<>>
<1>1. <<>> \in Seq(S) /\ <<a>> \in Seq(S) OBVIOUS
<1>2. Append(<<>>, a) = <<a>> BY <1>1
<1>3. Append(<<a>>, b) = <<a, b>>
  <2>1. Append(<<a>>, b) \in Seq(S) /\ <<a, b>> \in Seq(S) /\ Len(<<a>>) = 1 /\ Len(<<a, b>>) = 2
    BY <1>1
  <2>2. Len(Append(<<a>>, b)) = 2 /\ Append(<<a>>, b)[1] = a /\ Append(<<a>>, b)[2] = b
    BY <1>1, <2>1
  <2>3. \A i \in 1..2 : Append(<<a>>, b)[i] = <<a, b>>[i] BY <2>2
  <2> QED BY <2>1, <2>2, <2>3, SeqEqual
<1> QED BY <1>2, <1>3

LEMMA ListGrows ==
    ASSUME StoreInv, NEW j \in Command, Running(j), job[j].cmd = "import",
           job[j].at < Steps(job[j].cmd), Called(job[j])
    PROVE  /\ Listed(job[j], job[j].at + 1, ChangedAfter(j))
           /\ job[j].secret # None /\ job[j].at = 1 =>
                ChangedAfter(j) = <<<<job[j].e, vault[job[j].e].secret>>>>
           /\ job[j].secret # None /\ job[j].at = 2 =>
                \E s \in Maybe :
                  /\ job[j].changed = <<<<job[j].e, s>>>>
                  /\ ChangedAfter(j) = <<<<job[j].e, s>>, <<job[j].from, vault[job[j].from].secret>>>>
<1> DEFINE c == job[j]
           e == c.e
           f == c.from
<1>1. /\ c \in CallState /\ e \in Entry /\ f \in Entry /\ c.at \in 1..7
      /\ Listed(c, c.at, c.changed)
  BY TouchesCall, CallFields DEF Called
<1>2. vault[e].secret \in Maybe /\ vault[f].secret \in Maybe
  BY <1>1, EntryFields DEF StoreInv, StoresOK
<1>3. c.at \in 1..2 BY <1>1, Scripts
<1>4. (c.at = 1 => Step(j) = "first") /\ (c.at = 2 => Step(j) = "second")
  BY <1>3, Scripts DEF Step
<1>5. CASE c.secret = None BY <1>1, <1>5 DEF Listed, ChangedAfter, Given
<1>6. CASE c.secret # None /\ c.at = 1
  <2>1. ChangedAfter(j) = Append(<<>>, <<e, vault[e].secret>>)
    BY <1>1, <1>4, <1>6 DEF Listed, ChangedAfter, Given
  <2>2. <<e, vault[e].secret>> \in Entry \X Maybe BY <1>1, <1>2
  <2>3. ChangedAfter(j) = <<<<e, vault[e].secret>>>>
    <3> HIDE DEF e
    <3> QED BY <2>1, <2>2, ShortSequences
  <2> QED BY <2>3, <1>2, <1>6 DEF Listed
<1>7. CASE c.secret # None /\ c.at = 2
  <2>1. PICK s \in Maybe : c.changed = <<<<e, s>>>> BY <1>1, <1>7 DEF Listed
  <2>2. ChangedAfter(j) = Append(<<<<e, s>>>>, <<f, vault[f].secret>>)
    BY <2>1, <1>4, <1>7 DEF ChangedAfter, Given
  <2>3. <<e, s>> \in Entry \X Maybe /\ <<f, vault[f].secret>> \in Entry \X Maybe BY <1>1, <1>2
  <2>4. ChangedAfter(j) = <<<<e, s>>, <<f, vault[f].secret>>>>
    <3> HIDE DEF e, f
    <3> QED BY <2>2, <2>3, ShortSequences
  <2> QED BY <2>1, <2>4, <1>2, <1>7 DEF Listed
<1> QED BY <1>3, <1>5, <1>6, <1>7

\* A step that is not the last one, in a command whose steps follow one another.
LEMMA NextAt ==
    ASSUME StoreInv, NEW j \in Command, Running(j), GoOn(j),
           job[j].at < Steps(job[j].cmd), NextStep(j) = job[j].at + 1
    PROVE  \E d : job' = [job EXCEPT ![j] = d] /\ Moved(job[j], d, job[j].at + 1, ChangedAfter(j))
<1> DEFINE c == job[j]
           d == [c EXCEPT !.at = c.at + 1, !.changed = ChangedAfter(j)]
<1>1. Called(c) /\ c \in CallState /\ c.e \in Entry BY TouchesCall
<1>2. c.at \in 1..7 /\ c.changed \in Seq(Entry \X Maybe) /\ c.from \in Entry \union {None}
  BY <1>1, CallFields
<1>3. Steps(c.cmd) \in 2..7 BY <1>1, ScriptLengths, CallFields
<1>4. ChangedAfter(j) \in Seq(Entry \X Maybe)
  <2>1. \A x \in Entry : vault[x].secret \in Maybe BY EntryFields DEF StoreInv, StoresOK
  <2>2. <<c.e, vault[c.e].secret>> \in Entry \X Maybe BY <2>1, <1>1
  <2>3. Step(j) = "second" => <<c.from, vault[c.from].secret>> \in Entry \X Maybe
    <3>1. ASSUME Step(j) = "second" PROVE c.cmd = "import"
      <4>1. c.cmd \in CommandName /\ c.at <= Steps(c.cmd) BY <1>1, CallFields DEF Called
      <4>2. Script(c.cmd)[c.at] = "second" BY <3>1 DEF Step
      <4> HIDE DEF c
      <4> QED BY <4>1, <4>2, <1>2, Scripts DEF CommandName
    <3> QED BY <3>1, <2>1, <1>1, <1>2 DEF Called
  <2> QED BY <2>2, <2>3, <1>2 DEF ChangedAfter
<1>5. c.at + 1 \in 1..7 /\ c.at + 1 <= Steps(c.cmd)
  <2>1. \A n \in 1..7, m \in 2..7 : n < m => n + 1 \in 1..7 /\ n + 1 <= m OBVIOUS
  <2> QED BY <2>1, <1>2, <1>3
<1>8. c.cmd = "import" => Listed(c, c.at + 1, ChangedAfter(j))
  BY <1>1, ListGrows DEF Called
<1>6. Moved(c, d, c.at + 1, ChangedAfter(j)) BY <1>1, <1>4, <1>5, <1>8, Advanced
<1>7. job' = [job EXCEPT ![j] = d]
  <2>1. ~(NextStep(j) > Steps(job[j].cmd)) BY <1>2, <1>3
  <2> QED BY <2>1 DEF GoOn, Steps
<1> QED BY <1>6, <1>7

LEMMA LastStep ==
    ASSUME StoreInv, NEW j \in Command, Running(j), GoOn(j),
           job[j].at = Steps(job[j].cmd), NextStep(j) = job[j].at + 1
    PROVE  job' = [job EXCEPT ![j] = NoCall] /\ NoCall \in Ended
<1>1. job[j].at \in 1..7 BY TouchesCall, CallFields
<1>2. \A n \in 1..7 : n + 1 > n OBVIOUS
<1>3. NextStep(j) > Steps(job[j].cmd) BY <1>1, <1>2
<1> QED BY <1>3 DEF GoOn, Ended, Steps

\* A step that writes one entry of the call's own id, and none of its rows.
LEMMA OneEntryStep ==
    ASSUME StoreInv, NEW j \in Command, Running(j), NEW e, e = job[j].e,
           NEW k \in Secret, NEW v \in Maybe, k = "secret" \/ e \notin Proxies,
           Writes(e, k, v), row' = row
    PROVE  StoresOK' /\ OnlyTouches(j) /\ e \in Entry /\ vault[e] \in EntryState /\ Wrote(e, k, v)
<1>1. e \in Entry /\ e \in Touches(j) /\ StoresOK BY TouchesCall DEF StoreInv
<1>2. Wrote(e, k, v) BY <1>1, EntryWritten
<1>3. StoresOK' BY <1>1, <1>2 DEF StoresOK, Wrote
<1>4. OnlyTouches(j) BY <1>1, <1>2 DEF OnlyTouches, Wrote
<1> QED BY <1>1, <1>2, <1>3, <1>4 DEF StoresOK

\* A step that writes one row of the call's own id, and none of its entries.
PutsRow(e, r) == row' = [row EXCEPT ![e] = r] /\ vault' = vault

LEMMA OneRowStep ==
    ASSUME StoreInv, NEW j \in Command, Running(j), NEW e, e = job[j].e,
           NEW r \in Row \union {None}, e \in Proxies => PlainRow(r), PutsRow(e, r)
    PROVE  StoresOK' /\ OnlyTouches(j) /\ row'[e] = r
<1>1. e \in Entry /\ e \in Touches(j) /\ StoresOK BY TouchesCall DEF StoreInv
<1>2. /\ row' \in [Entry -> Row \union {None}]
      /\ \A x \in Entry \ {e} : row'[x] = row[x]
      /\ row'[e] = r
      /\ \A p \in Proxies : PlainRow(row'[p])
  BY <1>1, RowPut DEF PutsRow
<1>3. StoresOK' BY <1>1, <1>2 DEF StoresOK, PutsRow
<1>4. OnlyTouches(j) BY <1>1, <1>2 DEF OnlyTouches, PutsRow
<1> QED BY <1>1, <1>2, <1>3, <1>4 DEF StoresOK

\* A step that writes nothing.
LEMMA NoStoreStep ==
    ASSUME StoreInv, NEW j \in Command, row' = row, vault' = vault
    PROVE  StoresOK' /\ OnlyTouches(j)
BY DEF StoreInv, StoresOK, OnlyTouches

\* What a call of one id touches is its id, and what it has made of it.
LEMMA OfOneId ==
    ASSUME StoreInv, NEW j \in Command, Running(j), job[j].cmd \notin {"duplicate", "import"}
    PROVE  /\ Touches(j) = {job[j].e}
           /\ \A x \in Touches(j) \ tainted :
                x = job[j].e /\ SoFar(job[j], x, row[x], vault[x], lacking)
<1>1. job[j].from = None BY TouchesCall DEF Called
<1>2. Touches(j) = {job[j].e} /\ job[j].e \in Entry BY <1>1, TouchesCall, EntryAssumption DEF Touches
<1>3. EntryOK(job[j].e) BY <1>2 DEF StoreInv
<1> QED BY <1>2, <1>3 DEF EntryOK

LEMMA GoOnFacts ==
    ASSUME StoreInv, NEW j \in Command, Running(j), GoOn(j), NEW c, c = job[j], NEW e, e = c.e
    PROVE  /\ Called(c) /\ c \in CallState /\ e \in Entry /\ c.at \in 1..7 /\ c.at <= Steps(c.cmd)
           /\ c.secret \in Maybe /\ c.path \in Maybe /\ c.row \in Row \union {None}
           /\ c.before \in [Entry -> EntryState] /\ c.before[e] \in EntryState
           /\ vault[e] \in EntryState /\ row[e] \in Row \union {None}
           /\ Step(j) = Script(c.cmd)[c.at]
           /\ lacking' = lacking /\ tainted' = tainted
           /\ vault' = EntriesAfter(j) /\ row' = RowsAfter(j)
<1>1. Called(c) /\ c \in CallState /\ e \in Entry BY TouchesCall
<1>2. /\ c.at \in 1..7 /\ c.secret \in Maybe /\ c.path \in Maybe /\ c.row \in Row \union {None}
      /\ c.before \in [Entry -> EntryState]
  BY <1>1, CallFields
<1>3. c.at <= Steps(c.cmd) BY <1>1 DEF Called
<1>4. vault[e] \in EntryState /\ row[e] \in Row \union {None} BY <1>1 DEF StoreInv, StoresOK
<1> QED BY <1>1, <1>2, <1>3, <1>4 DEF GoOn, Step

(***************************************************************************)
(* Commands of one id.  A step that writes an entry, and is not the last;  *)
(* the last one, which writes the row.                                     *)
(***************************************************************************)
Rewrites(old, new, k, v) ==
    new \in EntryState /\ new[k] = v /\ \A q \in Secret \ {k} : new[q] = old[q]

LEMMA EntryStepKeeps ==
    ASSUME StoreInv, NEW j \in Command, Running(j), GoOn(j), job[j].cmd \notin {"duplicate", "import"},
           NEW e, e = job[j].e, job[j].at < Steps(job[j].cmd), NextStep(j) = job[j].at + 1,
           NEW k \in Secret, NEW v \in Maybe, k = "secret" \/ e \notin Proxies,
           Writes(e, k, v), row' = row,
           \A d, w :
             /\ e \notin tainted /\ SoFar(job[j], e, row[e], vault[e], lacking)
             /\ Moved(job[j], d, job[j].at + 1, ChangedAfter(j))
             /\ Rewrites(vault[e], w, k, v)
             => SoFar(d, e, row[e], w, lacking)
    PROVE  StoreInv'
<1>1. StoresOK' /\ OnlyTouches(j) /\ Wrote(e, k, v) BY OneEntryStep
<1>2. PICK d : job' = [job EXCEPT ![j] = d] /\ Moved(job[j], d, job[j].at + 1, ChangedAfter(j))
  BY NextAt
<1>3. lacking' = lacking /\ tainted' = tainted BY DEF GoOn
<1>4. Rewrites(vault[e], vault'[e], k, v) BY <1>1 DEF Wrote, Rewrites
<1>5. ASSUME NEW x \in Touches(j) \ tainted PROVE SoFar(d, x, row'[x], vault'[x], lacking)
  <2>1. x = e /\ SoFar(job[j], x, row[x], vault[x], lacking) BY OfOneId
  <2> QED BY <2>1, <1>2, <1>4
<1>6. LeadsOn(j, d) BY <1>2, <1>3, <1>5 DEF LeadsOn, Moved
<1> QED BY <1>1, <1>2, <1>3, <1>6, OneCallKeeps

LEMMA RowStepKeeps ==
    ASSUME StoreInv, NEW j \in Command, Running(j), GoOn(j), job[j].cmd \notin {"duplicate", "import"},
           NEW e, e = job[j].e, job[j].at = Steps(job[j].cmd), NextStep(j) = job[j].at + 1,
           NEW r \in Row \union {None}, e \in Proxies => PlainRow(r),
           PutsRow(e, r),
           e \notin tainted /\ SoFar(job[j], e, row[e], vault[e], lacking) => Fits(e, r, vault[e], lacking)
    PROVE  StoreInv'
<1>1. StoresOK' /\ OnlyTouches(j) /\ row'[e] = r BY OneRowStep, Zenon
<1>0. vault' = vault BY DEF PutsRow
<1>2. job' = [job EXCEPT ![j] = NoCall] /\ NoCall \in Ended BY LastStep
<1>3. lacking' = lacking /\ tainted' = tainted BY DEF GoOn
<1>4. \A x \in Touches(j) \ tainted' : Fits(x, row'[x], vault'[x], lacking)
  BY <1>0, <1>1, <1>3, OfOneId
<1>5. LeadsOut(j, NoCall) BY <1>2, <1>3, <1>4 DEF LeadsOut
<1> QED BY <1>1, <1>2, <1>3, <1>5, OneCallKeeps

(***************************************************************************)
(* The steps that several commands have.                                   *)
(***************************************************************************)
LEMMA SecretStep ==
    ASSUME StoreInv, NEW j \in Command, Running(j), GoOn(j),
           job[j].cmd \in {"save", "proxySave", "share"}, Step(j) = "secret"
    PROVE  StoreInv'
<1> DEFINE c == job[j]
           e == c.e
<1>1. /\ Called(c) /\ c \in CallState /\ e \in Entry /\ c.at \in 1..7 /\ c.at <= Steps(c.cmd)
      /\ c.secret \in Maybe /\ c.before[e] \in EntryState /\ vault[e] \in EntryState
      /\ Step(j) = Script(c.cmd)[c.at] /\ vault' = EntriesAfter(j) /\ row' = RowsAfter(j)
  BY GoOnFacts
<1>2. c.at = 1
  <2> HIDE DEF c
  <2>1. c.cmd \in {"save", "proxySave", "share"} /\ Script(c.cmd)[c.at] = "secret" BY <1>1 DEF c
  <2> QED BY <2>1, <1>1, Scripts
<1>3. row' = row BY <1>1 DEF RowsAfter
<1>4. SecretAfter(j) \in Maybe BY <1>1, EntryFields DEF SecretAfter, Maybe
<1>5. Writes(e, "secret", SecretAfter(j)) BY <1>1 DEF EntriesAfter, Writes
<1>6. NextStep(j) = c.at + 1 /\ c.at < Steps(c.cmd) BY <1>2, Scripts DEF NextStep
<1>7. ASSUME NEW d, NEW w, SoFar(c, e, row[e], vault[e], lacking),
             Moved(c, d, c.at + 1, ChangedAfter(j)), Rewrites(vault[e], w, "secret", SecretAfter(j))
      PROVE  SoFar(d, e, row[e], w, lacking)
  <2>1. vault[e].secret = c.before[e].secret
    BY <1>7, <1>2 DEF SoFar, Written, OtherWrites, Secret
  <2>2. w.secret = NewSecret(d)
    BY <2>1, <1>7, <1>2 DEF NewSecret, SecretAfter, AuthChanged, Moved, Continues, Rewrites
  <2> QED
    BY <2>2, <1>7, <1>2
    DEF SoFar, Moved, Continues, RowWritten, Written, OtherWrites, Secret, Rewrites
<1>8. "secret" \in Secret BY DEF Secret
<1> QED BY <1>1, <1>3, <1>4, <1>5, <1>6, <1>7, <1>8, EntryStepKeeps

\* The commands that empty the entries of their id, kind by kind.
LEMMA ForgetSteps ==
    \A m \in {"saveAgent", "purge", "proxyPlain", "proxyDelete"}, n \in 1..7 :
      n < Steps(m) =>
        /\ n \in 1..4
        /\ n = 1 => Script(m)[n] = "forget"
        /\ n = 2 => Script(m)[n] = "noKey" /\ m \in {"saveAgent", "purge"}
        /\ n = 3 => Script(m)[n] = "noCertificate" /\ m \in {"saveAgent", "purge"}
        /\ n = 4 => Script(m)[n] = "noDrive" /\ m = "purge"
<1> TAKE m \in {"saveAgent", "purge", "proxyPlain", "proxyDelete"}, n \in 1..7
<1>1. CASE m = "saveAgent" BY <1>1, Scripts
<1>2. CASE m = "purge" BY <1>2, Scripts
<1>3. CASE m \in {"proxyPlain", "proxyDelete"} BY <1>3, Scripts
<1> QED BY <1>1, <1>2, <1>3

LEMMA ForgetStep ==
    ASSUME StoreInv, NEW j \in Command, Running(j), GoOn(j),
           job[j].cmd \in {"saveAgent", "purge", "proxyPlain", "proxyDelete"},
           job[j].at < Steps(job[j].cmd)
    PROVE  StoreInv'
<1> DEFINE c == job[j]
           e == c.e
<1>1. /\ Called(c) /\ c \in CallState /\ e \in Entry /\ c.at \in 1..7
      /\ Step(j) = Script(c.cmd)[c.at] /\ vault' = EntriesAfter(j) /\ row' = RowsAfter(j)
  BY GoOnFacts
<1>2. /\ c.at \in 1..4
      /\ c.at = 1 => Step(j) = "forget"
      /\ c.at = 2 => Step(j) = "noKey" /\ c.cmd \in {"saveAgent", "purge"}
      /\ c.at = 3 => Step(j) = "noCertificate" /\ c.cmd \in {"saveAgent", "purge"}
      /\ c.at = 4 => Step(j) = "noDrive" /\ c.cmd = "purge"
  BY <1>1, ForgetSteps
<1>3. row' = row BY <1>1, <1>2 DEF RowsAfter
<1>4. NextStep(j) = c.at + 1 BY DEF NextStep
<1>5. None \in Maybe BY DEF Maybe
<1>6. c.cmd \in {"saveAgent", "purge"} => e \notin Proxies BY <1>1 DEF Called, ProxyCommands
<1>7. PICK k \in Secret :
        /\ Writes(e, k, None) /\ (k = "secret" \/ e \notin Proxies)
        /\ k = OtherKinds[c.at]
  <2>1. CASE c.at = 1
    <3>1. Writes(e, "secret", None) BY <2>1, <1>1, <1>2 DEF EntriesAfter, Writes
    <3> QED BY <2>1, <3>1 DEF Secret, OtherKinds
  <2>2. CASE c.at = 2
    <3>1. Writes(e, "key", None) BY <2>2, <1>1, <1>2 DEF EntriesAfter, Writes
    <3> QED BY <2>2, <3>1, <1>2, <1>6 DEF Secret, OtherKinds
  <2>3. CASE c.at = 3
    <3>1. Writes(e, "certificate", None) BY <2>3, <1>1, <1>2 DEF EntriesAfter, Writes
    <3> QED BY <2>3, <3>1, <1>2, <1>6 DEF Secret, OtherKinds
  <2>4. CASE c.at = 4
    <3>1. Writes(e, "drive", None) BY <2>4, <1>1, <1>2 DEF EntriesAfter, Writes
    <3> QED BY <2>4, <3>1, <1>2, <1>6 DEF Secret, OtherKinds
  <2> QED BY <2>1, <2>2, <2>3, <2>4, <1>2
<1>8. ASSUME NEW d, NEW w, SoFar(c, e, row[e], vault[e], lacking),
             Moved(c, d, c.at + 1, ChangedAfter(j)), Rewrites(vault[e], w, k, None)
      PROVE  SoFar(d, e, row[e], w, lacking)
  <2>1. CASE c.at = 1
    BY <2>1, <1>7, <1>8, <1>2
    DEF SoFar, Moved, Continues, RowWritten, Written, OtherWrites, OtherKinds, Secret, Rewrites
  <2>2. CASE c.at = 2
    BY <2>2, <1>7, <1>8, <1>2
    DEF SoFar, Moved, Continues, RowWritten, Written, OtherWrites, OtherKinds, Secret, Rewrites
  <2>3. CASE c.at = 3
    BY <2>3, <1>7, <1>8, <1>2
    DEF SoFar, Moved, Continues, RowWritten, Written, OtherWrites, OtherKinds, Secret, Rewrites
  <2>4. CASE c.at = 4
    BY <2>4, <1>7, <1>8, <1>2
    DEF SoFar, Moved, Continues, RowWritten, Written, OtherWrites, OtherKinds, Secret, Rewrites
  <2> QED BY <2>1, <2>2, <2>3, <2>4, <1>2
<1> QED BY <1>1, <1>3, <1>4, <1>5, <1>7, <1>8, EntryStepKeeps

LEMMA UpsertIsRow ==
    ASSUME NEW old \in Row \union {None}, NEW auth \in Auth, NEW path \in Maybe, NEW ref \in BOOLEAN
    PROVE  /\ Upsert(old, auth, path, ref) \in Row
           /\ Upsert(old, auth, path, ref).auth = auth
           /\ Upsert(old, auth, path, ref).path = path
           /\ Upsert(old, auth, path, ref).ref =>
                auth # "agent" /\ (ref \/ (old # None /\ old.auth = auth /\ old.ref))
<1> DEFINE kept == IF auth = "agent" THEN FALSE
                   ELSE IF old # None /\ old.auth # auth THEN ref
                   ELSE ref \/ (old # None /\ old.ref)
           drive == IF old = None THEN None ELSE old.drive
<1>1. kept \in BOOLEAN BY RowFields
<1>2. drive \in Maybe BY RowFields DEF Maybe
<1>3. Upsert(old, auth, path, ref) =
        [auth |-> auth, path |-> path, ref |-> kept, drive |-> drive, deleted |-> FALSE]
  BY DEF Upsert, RowOf
<1> HIDE DEF kept, drive
<1>4. /\ Upsert(old, auth, path, ref) \in Row
      /\ Upsert(old, auth, path, ref).auth = auth
      /\ Upsert(old, auth, path, ref).path = path
  BY <1>1, <1>2, <1>3 DEF Row, Maybe
<1>5. Upsert(old, auth, path, ref).ref = kept BY <1>3
<1> QED BY <1>4, <1>5 DEF kept

(***************************************************************************)
(* connection_save goes on.                                                *)
(***************************************************************************)
LEMMA SaveGoesOn ==
    ASSUME StoreInv, NEW j \in Command, Running(j), GoOn(j), job[j].cmd = "save"
    PROVE  StoreInv'
<1> DEFINE c == job[j]
           e == c.e
<1>1. /\ Called(c) /\ c \in CallState /\ e \in Entry /\ c.at \in 1..7 /\ c.at <= Steps(c.cmd)
      /\ c.secret \in Maybe /\ c.path \in Maybe /\ c.row \in Row \union {None}
      /\ c.before[e] \in EntryState /\ vault[e] \in EntryState /\ row[e] \in Row \union {None}
      /\ Step(j) = Script(c.cmd)[c.at]
      /\ vault' = EntriesAfter(j) /\ row' = RowsAfter(j)
  BY GoOnFacts
<1>2. e \notin Proxies /\ c.auth \in Auth \ {"agent"} /\ c.read = c.before[e]
  BY <1>1 DEF Called, ProxyCommands
<1>3. c.at \in 1..4 BY <1>1, Scripts
<1>4. \A k \in Secret : vault[e][k] \in Maybe BY <1>1, EntryFields
<1>5. CASE c.at = 1 BY <1>1, <1>5, Scripts, SecretStep
<1>6. CASE c.at = 2
  <2>1. Step(j) = "key" BY <1>1, <1>6, Scripts
  <2>2. row' = row BY <2>1, <1>1 DEF RowsAfter
  <2>3. BookmarkAfter(j, "key") \in Maybe
    <3>1. BookmarkOf(c.path) \in Maybe BY <1>1, <1>2, CallFields, BookmarkKept
    <3> QED BY <3>1, <1>1, <1>4 DEF BookmarkAfter, Maybe, Secret
  <2>4. Writes(e, "key", BookmarkAfter(j, "key")) BY <2>1, <1>1 DEF EntriesAfter, Writes
  <2>5. NextStep(j) = c.at + 1 /\ c.at < Steps(c.cmd) BY <1>6, Scripts DEF NextStep
  <2>6. ASSUME NEW d, NEW w, SoFar(c, e, row[e], vault[e], lacking),
               Moved(c, d, c.at + 1, ChangedAfter(j)),
               Rewrites(vault[e], w, "key", BookmarkAfter(j, "key"))
        PROVE  SoFar(d, e, row[e], w, lacking)
    <3>1. vault[e].key = c.before[e].key
      BY <2>6, <1>6 DEF SoFar, Written, OtherWrites, Secret
    <3>2. w.key = NewKey(d)
      BY <3>1, <2>6, <1>6 DEF NewKey, KeptKey, Unchanged, BookmarkAfter, Moved, Continues, Rewrites
    <3>3. w.secret = NewSecret(d)
      BY <2>6, <1>6 DEF NewSecret, SoFar, Moved, Continues, Rewrites, Secret
    <3> QED
      BY <3>2, <3>3, <2>6, <1>6
      DEF SoFar, Moved, Continues, RowWritten, Written, OtherWrites, Secret, Rewrites
  <2>7. "key" \in Secret BY DEF Secret
  <2> QED BY <2>2, <2>3, <2>4, <2>5, <2>6, <2>7, <1>1, <1>2, EntryStepKeeps
<1>7. CASE c.at = 3
  <2>1. Step(j) = "certificate" BY <1>1, <1>7, Scripts
  <2>2. row' = row BY <2>1, <1>1 DEF RowsAfter
  <2>3. BookmarkAfter(j, "certificate") \in Maybe
    <3>1. BookmarkOf(c.path) \in Maybe BY <1>1, <1>2, CallFields, BookmarkKept
    <3> QED BY <3>1, <1>1, <1>4 DEF BookmarkAfter, Maybe, Secret
  <2>4. Writes(e, "certificate", BookmarkAfter(j, "certificate"))
    BY <2>1, <1>1 DEF EntriesAfter, Writes
  <2>5. NextStep(j) = c.at + 1 /\ c.at < Steps(c.cmd) BY <1>7, Scripts DEF NextStep
  <2>6. ASSUME NEW d, NEW w, SoFar(c, e, row[e], vault[e], lacking),
               Moved(c, d, c.at + 1, ChangedAfter(j)),
               Rewrites(vault[e], w, "certificate", BookmarkAfter(j, "certificate"))
        PROVE  SoFar(d, e, row[e], w, lacking)
    <3>1. w.key = NewKey(d) /\ w.secret = NewSecret(d)
      BY <2>6, <1>7 DEF NewKey, KeptKey, NewSecret, SoFar, Moved, Continues, Rewrites, Secret
    <3> QED
      BY <3>1, <2>6, <1>7
      DEF SoFar, Moved, Continues, RowWritten, Written, OtherWrites, Secret, Rewrites
  <2>7. "certificate" \in Secret BY DEF Secret
  <2> QED BY <2>2, <2>3, <2>4, <2>5, <2>6, <2>7, <1>1, <1>2, EntryStepKeeps
<1>8. CASE c.at = 4
  <2> DEFINE r == Upsert(row[e], c.auth, c.path, Given(j))
  <2>1. Step(j) = "row" BY <1>1, <1>8, Scripts
  <2>2. PutsRow(e, r) BY <2>1, <1>1 DEF EntriesAfter, RowsAfter, PutsRow
  <2>3. NextStep(j) = c.at + 1 /\ c.at = Steps(c.cmd) BY <1>8, Scripts DEF NextStep
  <2>4. /\ r \in Row /\ r.auth = c.auth /\ r.path = c.path
        /\ r.ref => Given(j) \/ (row[e] # None /\ row[e].auth = c.auth /\ row[e].ref)
    <3>1. Given(j) \in BOOLEAN BY DEF Given
    <3>2. c.auth \in Auth /\ row[e] \in Row \union {None} /\ c.path \in Maybe BY <1>1, <1>2
    <3> HIDE DEF c, e
    <3> QED BY <3>1, <3>2, UpsertIsRow
  <2>5. ASSUME SoFar(c, e, row[e], vault[e], lacking) PROVE Fits(e, r, vault[e], lacking)
    <3>1. /\ vault[e].secret = NewSecret(c) /\ vault[e].key = NewKey(c)
          /\ Fits(e, row[e], c.before[e], lacking)
          /\ c.row # None => row[e] # None /\ SameRow(row[e], c.row)
      BY <2>5, <1>8 DEF SoFar, RowWritten
    <3>2. r.ref => vault[e].secret # None \/ <<e, "secret">> \in lacking
      BY <3>1, <2>4 DEF NewSecret, Fits, SameRow, Given
    <3>3. r.auth \in {"key", "certificate"} =>
            vault[e].key = BookmarkOf(r.path) \/ <<e, "key">> \in lacking
      BY <3>1, <2>4, <1>2 DEF NewKey, KeptKey, Fits, SameRow
    <3>4. r # None BY <2>4, EntryAssumption
    <3> QED BY <3>2, <3>3, <3>4 DEF Fits
  <2> HIDE DEF r
  <2> QED BY <2>2, <2>3, <2>4, <2>5, <1>1, <1>2, RowStepKeeps
<1> QED BY <1>3, <1>5, <1>6, <1>7, <1>8
(***************************************************************************)
(* The other commands of one id.                                           *)
(***************************************************************************)
LEMMA SaveAgentGoesOn ==
    ASSUME StoreInv, NEW j \in Command, Running(j), GoOn(j),
           job[j].cmd \in {"saveAgent", "proxyPlain"}
    PROVE  StoreInv'
<1> DEFINE c == job[j]
           e == c.e
           r == Upsert(row[e], c.auth, c.path, Given(j))
<1>1. /\ Called(c) /\ c \in CallState /\ e \in Entry /\ c.at \in 1..7 /\ c.at <= Steps(c.cmd)
      /\ c.path \in Maybe /\ row[e] \in Row \union {None}
      /\ Step(j) = Script(c.cmd)[c.at]
      /\ vault' = EntriesAfter(j) /\ row' = RowsAfter(j)
  BY GoOnFacts
<1>2. CASE c.at < Steps(c.cmd) BY <1>2, ForgetStep
<1>3. CASE c.at = Steps(c.cmd)
  <2>1. Step(j) = "row" BY <1>1, <1>3, Scripts
  <2>2. PutsRow(e, r) BY <2>1, <1>1 DEF EntriesAfter, RowsAfter, PutsRow
  <2>3. NextStep(j) = c.at + 1 BY DEF NextStep
  <2>4. c.auth = "agent" /\ "agent" \in Auth /\ Given(j) \in BOOLEAN
    BY <1>1 DEF Called, Auth, Given
  <2>5. r \in Row /\ r.auth = "agent" /\ ~r.ref
    <3> HIDE DEF c, e
    <3> QED BY <2>4, <1>1, UpsertIsRow
  <2>6. PlainRow(r) BY <2>5 DEF PlainRow
  <2>7. Fits(e, r, vault[e], lacking) BY <2>5, EntryAssumption DEF Fits
  <2> HIDE DEF r
  <2> QED BY <2>2, <2>3, <2>5, <2>6, <2>7, <1>3, RowStepKeeps
<1> QED BY <1>1, <1>2, <1>3, ScriptLengths, CallFields

LEMMA ProxySaveGoesOn ==
    ASSUME StoreInv, NEW j \in Command, Running(j), GoOn(j), job[j].cmd = "proxySave"
    PROVE  StoreInv'
<1> DEFINE c == job[j]
           e == c.e
           r == Upsert(row[e], c.auth, c.path, Given(j))
<1>1. /\ Called(c) /\ c \in CallState /\ e \in Entry /\ c.at \in 1..7 /\ c.at <= Steps(c.cmd)
      /\ c.path \in Maybe /\ row[e] \in Row \union {None}
      /\ Step(j) = Script(c.cmd)[c.at]
      /\ vault' = EntriesAfter(j) /\ row' = RowsAfter(j)
  BY GoOnFacts
<1>2. c.at \in 1..2 BY <1>1, Scripts
<1>3. CASE c.at = 1 BY <1>1, <1>3, Scripts, SecretStep
<1>4. CASE c.at = 2
  <2>1. Step(j) = "row" BY <1>1, <1>4, Scripts
  <2>2. PutsRow(e, r) BY <2>1, <1>1 DEF EntriesAfter, RowsAfter, PutsRow
  <2>3. NextStep(j) = c.at + 1 /\ c.at = Steps(c.cmd) BY <1>4, Scripts DEF NextStep
  <2>4. c.auth = "password" /\ "password" \in Auth /\ Given(j) \in BOOLEAN
    BY <1>1 DEF Called, Auth, Given
  <2>5. /\ r \in Row /\ r.auth = "password"
        /\ r.ref => Given(j) \/ (row[e] # None /\ row[e].ref)
    <3> HIDE DEF c, e
    <3> QED BY <2>4, <1>1, UpsertIsRow
  <2>6. PlainRow(r) BY <2>5 DEF PlainRow
  <2>7. ASSUME SoFar(c, e, row[e], vault[e], lacking) PROVE Fits(e, r, vault[e], lacking)
    <3>1. vault[e].secret = NewSecret(c) /\ Fits(e, row[e], c.before[e], lacking)
      BY <2>7, <1>4 DEF SoFar, RowWritten
    <3>2. r.ref => vault[e].secret # None \/ <<e, "secret">> \in lacking
      BY <3>1, <2>5 DEF NewSecret, Fits, Given
    <3> QED BY <3>2, <2>5, EntryAssumption DEF Fits
  <2> HIDE DEF r
  <2> QED BY <2>2, <2>3, <2>5, <2>6, <2>7, RowStepKeeps
<1> QED BY <1>2, <1>3, <1>4

LEMMA PurgeGoesOn ==
    ASSUME StoreInv, NEW j \in Command, Running(j), GoOn(j),
           job[j].cmd \in {"purge", "proxyDelete"}
    PROVE  StoreInv'
<1> DEFINE c == job[j]
           e == c.e
<1>1. /\ Called(c) /\ c \in CallState /\ e \in Entry /\ c.at \in 1..7 /\ c.at <= Steps(c.cmd)
      /\ vault[e] \in EntryState /\ row[e] \in Row \union {None}
      /\ Step(j) = Script(c.cmd)[c.at]
      /\ vault' = EntriesAfter(j) /\ row' = RowsAfter(j)
  BY GoOnFacts
<1>2. CASE c.at < Steps(c.cmd) BY <1>2, ForgetStep
<1>3. CASE c.at = Steps(c.cmd)
  <2>1. Step(j) = "delete" /\ (c.cmd = "purge" => c.at = 5) /\ (c.cmd = "proxyDelete" => c.at = 2)
    BY <1>1, <1>3, Scripts
  <2>2. PutsRow(e, None) BY <2>1, <1>1 DEF EntriesAfter, RowsAfter, PutsRow
  <2>3. NextStep(j) = c.at + 1 BY DEF NextStep
  <2>4. ASSUME SoFar(c, e, row[e], vault[e], lacking) PROVE vault[e] = NoEntries
    <3>1. ASSUME NEW k \in Secret PROVE vault[e][k] = None
      <4>1. CASE c.cmd = "purge" BY <4>1, <3>1, <2>1, <2>4 DEF SoFar, Secret
      <4>2. CASE c.cmd = "proxyDelete"
        <5>1. vault[e].secret = None BY <4>2, <2>1, <2>4 DEF SoFar
        <5>2. e \in Proxies BY <4>2, <1>1 DEF Called, ProxyCommands
        <5>3. NoFiles(vault[e]) BY <5>2 DEF StoreInv, StoresOK
        <5> QED BY <5>1, <5>3 DEF NoFiles, Secret
      <4> QED BY <4>1, <4>2
    <3> QED BY <3>1, <1>1, EntryEmpty, EntriesEqual
  <2>5. ASSUME SoFar(c, e, row[e], vault[e], lacking) PROVE Fits(e, None, vault[e], lacking)
    BY <2>4, <2>5 DEF Fits
  <2>6. PlainRow(None) BY DEF PlainRow
  <2> QED BY <2>2, <2>3, <2>5, <2>6, <1>3, RowStepKeeps
<1> QED BY <1>1, <1>2, <1>3, ScriptLengths, CallFields

LEMMA OptionsGoOn ==
    ASSUME StoreInv, NEW j \in Command, Running(j), GoOn(j), job[j].cmd = "options"
    PROVE  StoreInv'
<1> DEFINE c == job[j]
           e == c.e
<1>1. /\ Called(c) /\ c \in CallState /\ e \in Entry /\ c.at \in 1..7 /\ c.at <= Steps(c.cmd)
      /\ c.path \in Maybe /\ vault[e] \in EntryState /\ row[e] \in Row \union {None}
      /\ Step(j) = Script(c.cmd)[c.at]
      /\ vault' = EntriesAfter(j) /\ row' = RowsAfter(j)
  BY GoOnFacts
<1>2. e \notin Proxies BY <1>1 DEF Called, ProxyCommands
<1>3. c.at \in 1..2 BY <1>1, Scripts
<1>4. CASE c.at = 1
  <2>1. Step(j) = "drive" BY <1>1, <1>4, Scripts
  <2>2. row' = row BY <2>1, <1>1 DEF RowsAfter
  <2>3. BookmarkAfter(j, "drive") \in Maybe
    <3>1. BookmarkOf(c.path) \in Maybe BY <1>1, CallFields, BookmarkKept
    <3> QED BY <3>1, <1>1, EntryFields DEF BookmarkAfter, Maybe, Secret
  <2>4. Writes(e, "drive", BookmarkAfter(j, "drive")) BY <2>1, <1>1 DEF EntriesAfter, Writes
  <2>5. NextStep(j) = c.at + 1 /\ c.at < Steps(c.cmd) BY <1>4, Scripts DEF NextStep
  <2>6. ASSUME NEW d, NEW w, SoFar(c, e, row[e], vault[e], lacking),
               Moved(c, d, c.at + 1, ChangedAfter(j)),
               Rewrites(vault[e], w, "drive", BookmarkAfter(j, "drive"))
        PROVE  SoFar(d, e, row[e], w, lacking)
    BY <2>6, <1>4 DEF SoFar, Moved, Continues, RowWritten, Written, Secret, Rewrites
  <2>7. "drive" \in Secret BY DEF Secret
  <2> QED BY <2>2, <2>3, <2>4, <2>5, <2>6, <2>7, <1>1, <1>2, EntryStepKeeps
<1>5. CASE c.at = 2
  <2> DEFINE r == IF row[e] # None THEN [row[e] EXCEPT !.drive = c.path] ELSE None
  <2>1. Step(j) = "options" BY <1>1, <1>5, Scripts
  <2>2. PutsRow(e, r)
    <3>1. row \in [Entry -> Row \union {None}] BY DEF StoreInv, StoresOK
    <3>2. Options(c) = c.path BY DEF Options
    <3>3. CASE row[e] # None
      BY <3>2, <3>3, <2>1, <1>1 DEF EntriesAfter, RowsAfter, PutsRow
    <3>4. CASE row[e] = None
      <4>1. row' = row /\ vault' = vault BY <3>4, <2>1, <1>1 DEF EntriesAfter, RowsAfter
      <4> QED BY <3>1, <3>4, <4>1, <1>1 DEF PutsRow
    <3> QED BY <3>3, <3>4
  <2>3. NextStep(j) = c.at + 1 /\ c.at = Steps(c.cmd) BY <1>5, Scripts DEF NextStep
  <2>4. r \in Row \union {None} BY <1>1 DEF Row, Maybe
  <2>5. ASSUME SoFar(c, e, row[e], vault[e], lacking) PROVE Fits(e, r, vault[e], lacking)
    <3>1. /\ row[e] # None /\ Fits(e, row[e], c.before[e], lacking)
          /\ vault[e].secret = c.before[e].secret /\ vault[e].key = c.before[e].key
      BY <2>5, <1>5 DEF SoFar, RowWritten, Written, Secret
    <3>2. row[e] \in Row BY <3>1, <1>1
    <3>3. r \in Row /\ r.auth = row[e].auth /\ r.path = row[e].path /\ r.ref = row[e].ref
      BY <3>1, <3>2, <1>1 DEF Row, Maybe
    <3> HIDE DEF r
    <3> QED BY <3>1, <3>3, EntryAssumption DEF Fits
  <2> HIDE DEF r
  <2> QED BY <2>2, <2>3, <2>4, <2>5, <1>2, RowStepKeeps
<1> QED BY <1>3, <1>4, <1>5

LEMMA ShareGoesOn ==
    ASSUME StoreInv, NEW j \in Command, Running(j), GoOn(j), job[j].cmd = "share"
    PROVE  StoreInv'
<1> DEFINE c == job[j]
           e == c.e
<1>1. /\ Called(c) /\ c \in CallState /\ e \in Entry /\ c.at \in 1..7 /\ c.at <= Steps(c.cmd)
      /\ c.path \in Maybe /\ c.secret \in Maybe /\ vault[e] \in EntryState
      /\ Step(j) = Script(c.cmd)[c.at]
      /\ vault' = EntriesAfter(j) /\ row' = RowsAfter(j)
      /\ lacking' = lacking /\ tainted' = tainted
  BY GoOnFacts
<1>2. e \notin Proxies /\ c.auth = "password" BY <1>1 DEF Called, ProxyCommands
<1>3. c.at \in 1..3 BY <1>1, Scripts
<1>4. NextStep(j) = c.at + 1 BY DEF NextStep
<1>5. CASE c.at = 1 BY <1>1, <1>5, Scripts, SecretStep
<1>6. CASE c.at = 2
  <2> DEFINE r == Inserted(c)
  <2>1. Step(j) = "insert" BY <1>1, <1>6, Scripts
  <2>2. PutsRow(e, r) /\ vault' = vault BY <2>1, <1>1 DEF EntriesAfter, RowsAfter, PutsRow
  <2>3. c.at < Steps(c.cmd) BY <1>6, Scripts
  <2>4. PICK d : job' = [job EXCEPT ![j] = d] /\ Moved(c, d, c.at + 1, ChangedAfter(j))
    BY <2>3, <1>4, NextAt
  <2>5. r \in Row /\ r.auth = "password" /\ r.ref = (c.secret # None)
    BY <1>1, <1>2 DEF Inserted, RowOf, Row, Auth, Maybe
  <2>6. StoresOK' /\ OnlyTouches(j) /\ row'[e] = r
    <3> HIDE DEF r, c, e
    <3>1. r \in Row \union {None} /\ (e \in Proxies => PlainRow(r)) BY <2>5, <1>2
    <3> QED BY <3>1, <2>2, OneRowStep DEF c, e
  <2>7. ASSUME NEW x \in Touches(j) \ tainted PROVE SoFar(d, x, row'[x], vault'[x], lacking)
    <3>1. x = e /\ SoFar(c, x, row[x], vault[x], lacking) BY OfOneId
    <3>2. r # None BY <2>5, EntryAssumption
    <3>3. d.cmd = "share" /\ d.at = 3 /\ d.e = e /\ d.secret = c.secret /\ d.before = c.before
          /\ d.row = c.row /\ d.auth = c.auth
      BY <2>4, <1>6 DEF Moved, Continues
    <3>4. NewSecret(d) = NewSecret(c) BY <3>3 DEF NewSecret
    <3> HIDE DEF r
    <3> QED
      BY <3>1, <3>2, <3>3, <3>4, <2>2, <2>5, <2>6, <1>6
      DEF SoFar, RowWritten, Written, OtherWrites, Secret
  <2>8. LeadsOn(j, d) BY <2>4, <2>7, <1>1 DEF LeadsOn, Moved
  <2> QED BY <2>4, <2>6, <2>8, <1>1, OneCallKeeps
<1>7. CASE c.at = 3
  <2>1. Step(j) = "audit" BY <1>1, <1>7, Scripts
  <2>2. row' = row /\ vault' = vault BY <2>1, <1>1 DEF EntriesAfter, RowsAfter
  <2>3. c.at = Steps(c.cmd) BY <1>7, Scripts
  <2>4. job' = [job EXCEPT ![j] = NoCall] /\ NoCall \in Ended BY <2>3, <1>4, LastStep
  <2>5. ASSUME NEW x \in Touches(j) \ tainted PROVE Fits(x, row[x], vault[x], lacking)
    <3>1. x = e /\ SoFar(c, x, row[x], vault[x], lacking) BY OfOneId
    <3>2. /\ row[e] # None /\ row[e].auth = "password" /\ row[e].ref = (c.secret # None)
          /\ vault[e].secret = NewSecret(c) /\ c.before[e] = NoEntries
      BY <3>1, <1>7 DEF SoFar
    <3>3. NewSecret(c) = c.secret BY <3>2, EntryEmpty DEF NewSecret
    <3> QED BY <3>1, <3>2, <3>3 DEF Fits
  <2>6. LeadsOut(j, NoCall) BY <2>2, <2>4, <2>5, <1>1 DEF LeadsOut
  <2> QED BY <2>2, <2>4, <2>6, <1>1, NoStoreStep, OneCallKeeps
<1> QED BY <1>3, <1>5, <1>6, <1>7

(***************************************************************************)
(* connection_duplicate goes on.  The copy is as good as its source, which *)
(* nobody touches while the copy is claimed for.                           *)
(***************************************************************************)
LEMMA OfTheCopy ==
    ASSUME StoreInv, NEW j \in Command, Running(j), job[j].cmd = "duplicate",
           NEW c, c = job[j], NEW e, e = c.e, NEW f, f = c.from
    PROVE  /\ Called(c) /\ c \in CallState /\ e \in Entry /\ f \in Entry /\ e # f
           /\ e \notin Proxies /\ Touches(j) = {e, f}
           /\ c.row \in Row /\ c.auth = c.row.auth /\ c.path = c.row.path /\ c.secret = None
           /\ c.auth \in Auth /\ c.path \in Maybe /\ c.row.drive \in Maybe
           /\ vault[e] \in EntryState /\ vault[f] \in EntryState
           /\ c.before[e] \in EntryState /\ c.before[f] \in EntryState
           /\ \A x \in Touches(j) \ tainted : SoFar(c, x, row[x], vault[x], lacking)
           /\ e \notin tainted => /\ SoFar(c, e, row[e], vault[e], lacking)
                                  /\ SoFar(c, f, row[f], vault[f], lacking)
<1>1. Called(c) /\ c \in CallState /\ e \in Entry BY TouchesCall
<1>2. /\ c.row \in Row \union {None} /\ c.path \in Maybe /\ c.from \in Entry \union {None}
      /\ c.before \in [Entry -> EntryState]
  BY <1>1, CallFields
<1>3. /\ f # None /\ e # f /\ e \notin Proxies /\ c.row # None /\ c.auth = c.row.auth
      /\ c.path = c.row.path /\ c.secret = None /\ c.auth \in Auth
  BY <1>1 DEF Called, ProxyCommands
<1>4. f \in Entry /\ c.row \in Row /\ c.row.drive \in Maybe BY <1>2, <1>3, RowFields
<1>5. Touches(j) = {e, f} BY <1>1, <1>3, EntryAssumption DEF Touches
<1>6. \A x \in Touches(j) \ tainted : SoFar(c, x, row[x], vault[x], lacking)
  BY <1>1, <1>4, <1>5 DEF StoreInv, EntryOK
<1>7. e \notin tainted => f \notin tainted BY DEF StoreInv, CallsApart
<1> QED BY <1>1, <1>2, <1>3, <1>4, <1>5, <1>6, <1>7 DEF StoreInv, StoresOK

\* The source stays as it is while the copy goes on.
LEMMA CopyStepKeeps ==
    ASSUME StoreInv, NEW j \in Command, Running(j), GoOn(j), job[j].cmd = "duplicate",
           NEW c, c = job[j], NEW e, e = c.e, NEW f, f = c.from,
           c.at < Steps(c.cmd), NextStep(j) = c.at + 1, StoresOK', OnlyTouches(j),
           row'[f] = row[f], vault'[f] = vault[f],
           \A d : /\ e \notin tainted
                  /\ SoFar(c, e, row[e], vault[e], lacking) /\ SoFar(c, f, row[f], vault[f], lacking)
                  /\ Moved(c, d, c.at + 1, ChangedAfter(j))
                  => SoFar(d, e, row'[e], vault'[e], lacking)
    PROVE  StoreInv'
<1>1. PICK d : job' = [job EXCEPT ![j] = d] /\ Moved(c, d, c.at + 1, ChangedAfter(j))
  BY NextAt
<1>2. lacking' = lacking /\ tainted' = tainted BY DEF GoOn
<1>3. ASSUME NEW x \in Touches(j) \ tainted PROVE SoFar(d, x, row'[x], vault'[x], lacking)
  <2>1. CASE x = e BY <2>1, <1>1, OfTheCopy
  <2>2. CASE x = f
    <3>1. SoFar(c, f, row[f], vault[f], lacking) /\ f # e BY <2>2, OfTheCopy
    <3>2. d.cmd = "duplicate" /\ d.e = e /\ d.from = f /\ d.row = c.row /\ d.before = c.before
      BY <1>1 DEF Moved, Continues
    <3>3. SoFar(c, f, row[f], vault[f], lacking) => SoFar(d, f, row[f], vault[f], lacking)
      <4> HIDE DEF Fits
      <4>1. c.cmd = "duplicate" /\ c.e # f /\ c.from = f BY <3>1
      <4>2. ~RowWritten(c, f) /\ ~RowWritten(d, f) /\ Written(c, f) = {} /\ Written(d, f) = {}
        BY <3>1, <3>2 DEF RowWritten, Written
      <4> QED BY <4>1, <4>2, <3>1, <3>2 DEF SoFar
    <3> QED BY <2>2, <3>1, <3>3
  <2> QED BY <2>1, <2>2, OfTheCopy
<1>4. LeadsOn(j, d) BY <1>1, <1>2, <1>3 DEF LeadsOn, Moved
<1> QED BY <1>1, <1>2, <1>4, OneCallKeeps

\* The copy's row and entries when it is done.
LEMMA CopyFits ==
    ASSUME StoreInv, NEW j \in Command, Running(j), job[j].cmd = "duplicate",
           NEW c, c = job[j], NEW e, e = c.e, c.at > 2, e \notin tainted,
           NEW r \in Row, r.auth = c.auth, r.path = c.path,
           NEW v, v.key = vault[e].key, r.ref => v.secret # None
    PROVE  Fits(e, r, v, lacking)
<1> DEFINE f == c.from
<1>1. /\ SoFar(c, e, row[e], vault[e], lacking) /\ SoFar(c, f, row[f], vault[f], lacking)
      /\ e # f /\ c.auth = c.row.auth /\ c.path = c.row.path
  BY OfTheCopy
<1>2. v.key = c.before[f].key /\ (<<f, "key">> \in lacking => <<e, "key">> \in lacking) BY <1>1 DEF SoFar
<1>3. Fits(f, row[f], c.before[f], lacking) /\ row[f] # None /\ SameRow(row[f], c.row)
  BY <1>1 DEF SoFar, RowWritten
<1> QED BY <1>1, <1>2, <1>3, EntryAssumption DEF Fits, SameRow

\* What the copy has is what the source has, and what it lacks is left as it is.
LEMMA CopyEntryKeeps ==
    ASSUME StoreInv, NEW j \in Command, Running(j), GoOn(j), job[j].cmd = "duplicate",
           NEW c, c = job[j], NEW e, e = c.e, c.at < Steps(c.cmd), NextStep(j) = c.at + 1,
           NEW k \in Secret, Writes(e, k, CopyAfter(j, k)), row' = row,
           \/ c.at = 2 /\ k = "key"
           \/ c.at = 3 /\ k = "certificate"
           \/ c.at = 4 /\ k = "drive"
           \/ c.at = 6 /\ k = "secret" /\ vault[c.from].secret # None
    PROVE  StoreInv'
<1> DEFINE f == c.from
<1>1. /\ e \in Entry /\ f \in Entry /\ e # f /\ e \notin Proxies
      /\ vault[e] \in EntryState /\ vault[f] \in EntryState
  BY OfTheCopy
<1>2. CopyAfter(j, k) \in Maybe BY <1>1, EntryFields DEF CopyAfter
<1>3. StoresOK' /\ OnlyTouches(j) /\ Wrote(e, k, CopyAfter(j, k)) BY <1>1, <1>2, OneEntryStep
<1>4. /\ vault'[f] = vault[f] /\ row'[f] = row[f] /\ row'[e] = row[e]
      /\ vault'[e][k] = CopyAfter(j, k) /\ \A q \in Secret \ {k} : vault'[e][q] = vault[e][q]
  BY <1>1, <1>3 DEF Wrote
<1>5. ASSUME NEW d, SoFar(c, e, row[e], vault[e], lacking), SoFar(c, f, row[f], vault[f], lacking),
             Moved(c, d, c.at + 1, ChangedAfter(j))
      PROVE  SoFar(d, e, row'[e], vault'[e], lacking)
  <2>1. /\ d.cmd = "duplicate" /\ d.e = e /\ d.from = f /\ d.row = c.row /\ d.before = c.before
        /\ d.auth = c.auth /\ d.path = c.path /\ d.at = c.at + 1
    BY <1>5 DEF Moved, Continues
  <2>2. c.before[e] = NoEntries /\ vault[f].key = c.before[f].key
    BY <1>5, <1>1 DEF SoFar, Written, Secret
  <2>7. d.from # e BY <2>1, <1>1
  <2>3. CASE c.at = 2 /\ k = "key"
    <3>1. vault[e].key = None
      BY <2>2, <2>3, <1>5, EntryEmpty DEF SoFar, Written, DuplicateWrites, Secret
    <3>2. vault'[e].key = c.before[f].key BY <3>1, <2>2, <2>3, <1>4 DEF CopyAfter, f
    <3>3. d.at = 3 /\ \A q \in Secret \ {"key"} : vault'[e][q] = vault[e][q]
      BY <2>1, <2>3, <1>4
    <3> QED
      BY <3>2, <3>3, <2>1, <2>3, <1>4, <1>5, <2>7
      DEF SoFar, RowWritten, Written, DuplicateWrites, Secret
  <2>4. CASE c.at = 3 /\ k = "certificate"
    <3>1. d.at = 4 /\ \A q \in Secret \ {"certificate"} : vault'[e][q] = vault[e][q]
      BY <2>1, <2>4, <1>4
    <3> QED
      BY <3>1, <2>1, <2>4, <1>4, <1>5, <2>7
      DEF SoFar, RowWritten, Written, DuplicateWrites, Secret
  <2>5. CASE c.at = 4 /\ k = "drive"
    <3>1. d.at = 5 /\ \A q \in Secret \ {"drive"} : vault'[e][q] = vault[e][q]
      BY <2>1, <2>5, <1>4
    <3> QED
      BY <3>1, <2>1, <2>5, <1>4, <1>5, <2>7
      DEF SoFar, RowWritten, Written, DuplicateWrites, Secret
  <2>6. CASE c.at = 6 /\ k = "secret" /\ vault[f].secret # None
    <3>1. vault'[e].secret # None BY <2>6, <1>4 DEF CopyAfter, f
    <3>2. d.at = 7 /\ \A q \in Secret \ {"secret"} : vault'[e][q] = vault[e][q]
      BY <2>1, <2>6, <1>4
    <3> QED
      BY <3>1, <3>2, <2>1, <2>6, <1>4, <1>5, <2>7
      DEF SoFar, RowWritten, Written, DuplicateWrites, Secret
  <2> QED BY <2>3, <2>4, <2>5, <2>6 DEF f
<1> QED BY <1>3, <1>4, <1>5, CopyStepKeeps

LEMMA DuplicateGoesOn ==
    ASSUME StoreInv, NEW j \in Command, Running(j), GoOn(j), job[j].cmd = "duplicate"
    PROVE  StoreInv'
<1> DEFINE c == job[j]
           e == c.e
           f == c.from
<1>1. /\ c.at \in 1..7 /\ c.at <= Steps(c.cmd) /\ Step(j) = Script(c.cmd)[c.at]
      /\ vault' = EntriesAfter(j) /\ row' = RowsAfter(j) /\ row[e] \in Row \union {None}
      /\ lacking' = lacking /\ tainted' = tainted
  BY GoOnFacts
<1>2. /\ e \in Entry /\ f \in Entry /\ e # f /\ e \notin Proxies /\ Touches(j) = {e, f}
      /\ c.row \in Row /\ c.auth \in Auth /\ c.path \in Maybe /\ c.secret = None
      /\ c.row.drive \in Maybe /\ vault[e] \in EntryState
      /\ \A x \in Touches(j) \ tainted : SoFar(c, x, row[x], vault[x], lacking)
  BY OfTheCopy
<1>3. row \in [Entry -> Row \union {None}] BY DEF StoreInv, StoresOK
<1>4. CASE c.at = 1
  <2> DEFINE r == Inserted(c)
  <2>1. Step(j) = "insert" BY <1>1, <1>4, Scripts
  <2>2. PutsRow(e, r) /\ vault' = vault BY <2>1, <1>1 DEF EntriesAfter, RowsAfter, PutsRow
  <2>3. c.at < Steps(c.cmd) /\ NextStep(j) = c.at + 1 BY <2>1, <1>4, Scripts DEF NextStep
  <2>4. r \in Row /\ r.auth = c.auth /\ r.path = c.path /\ ~r.ref
    BY <1>2 DEF Inserted, RowOf, Row, Maybe
  <2> HIDE DEF r
  <2>5. StoresOK' /\ OnlyTouches(j) /\ row'[e] = r
    <3>1. r \in Row \union {None} /\ (e \in Proxies => PlainRow(r)) BY <2>4, <1>2
    <3> QED BY <3>1, <2>2, OneRowStep
  <2>6. row'[f] = row[f] /\ vault'[f] = vault[f] BY <2>2, <1>2, <1>3 DEF PutsRow
  <2>7. ASSUME NEW d, SoFar(c, e, row[e], vault[e], lacking), Moved(c, d, c.at + 1, ChangedAfter(j))
        PROVE  SoFar(d, e, row'[e], vault'[e], lacking)
    <3>1. /\ d.cmd = "duplicate" /\ d.e = e /\ d.from = f /\ d.row = c.row /\ d.before = c.before
          /\ d.auth = c.auth /\ d.path = c.path /\ d.at = 2
      BY <2>7, <1>4 DEF Moved, Continues
    <3>2. r # None BY <2>4, EntryAssumption
    <3> QED
      BY <3>1, <3>2, <2>2, <2>4, <2>5, <2>7, <1>2, <1>4
      DEF SoFar, RowWritten, Written, DuplicateWrites, Secret
  <2> QED BY <2>3, <2>5, <2>6, <2>7, CopyStepKeeps
<1>5. CASE c.at = 2
  <2>1. Step(j) = "copyKey" BY <1>1, <1>5, Scripts
  <2>2. Writes(e, "key", CopyAfter(j, "key")) /\ row' = row
    BY <2>1, <1>1 DEF EntriesAfter, RowsAfter, Writes
  <2>3. c.at < Steps(c.cmd) /\ NextStep(j) = c.at + 1 BY <2>1, <1>5, Scripts DEF NextStep
  <2>4. "key" \in Secret BY DEF Secret
  <2> QED BY <2>2, <2>3, <2>4, <1>5, CopyEntryKeeps
<1>6. CASE c.at = 3
  <2>1. Step(j) = "copyCertificate" BY <1>1, <1>6, Scripts
  <2>2. Writes(e, "certificate", CopyAfter(j, "certificate")) /\ row' = row
    BY <2>1, <1>1 DEF EntriesAfter, RowsAfter, Writes
  <2>3. c.at < Steps(c.cmd) /\ NextStep(j) = c.at + 1 BY <2>1, <1>6, Scripts DEF NextStep
  <2>4. "certificate" \in Secret BY DEF Secret
  <2> QED BY <2>2, <2>3, <2>4, <1>6, CopyEntryKeeps
<1>7. CASE c.at = 4
  <2>1. Step(j) = "copyDrive" BY <1>1, <1>7, Scripts
  <2>2. row' = row BY <2>1, <1>1 DEF RowsAfter
  <2>3. c.at < Steps(c.cmd) /\ NextStep(j) = c.at + 1 BY <2>1, <1>7, Scripts DEF NextStep
  <2>4. CASE c.auth = "rdp"
    <3>1. Writes(e, "drive", CopyAfter(j, "drive"))
      BY <2>1, <2>4, <1>1 DEF EntriesAfter, Writes
    <3>2. "drive" \in Secret BY DEF Secret
    <3> QED BY <3>1, <3>2, <2>2, <2>3, <1>7, CopyEntryKeeps
  <2>5. CASE c.auth # "rdp"
    <3>1. vault' = vault BY <2>1, <2>5, <1>1 DEF EntriesAfter
    <3>2. ASSUME NEW d, SoFar(c, e, row[e], vault[e], lacking),
                 Moved(c, d, c.at + 1, ChangedAfter(j))
          PROVE  SoFar(d, e, row'[e], vault'[e], lacking)
      <4>1. /\ d.cmd = "duplicate" /\ d.e = e /\ d.from = f /\ d.row = c.row /\ d.before = c.before
            /\ d.auth = c.auth /\ d.path = c.path /\ d.at = 5
        BY <3>2, <1>7 DEF Moved, Continues
      <4> QED
        BY <4>1, <3>1, <3>2, <2>2, <1>2, <1>7
        DEF SoFar, RowWritten, Written, DuplicateWrites, Secret
    <3>3. StoresOK' /\ OnlyTouches(j) BY <2>2, <3>1, NoStoreStep
    <3> QED BY <3>1, <3>2, <3>3, <2>2, <2>3, CopyStepKeeps
  <2> QED BY <2>4, <2>5
<1>8. CASE c.at = 5
  <2> DEFINE r == IF row[e] # None THEN [row[e] EXCEPT !.drive = c.row.drive] ELSE None
  <2>1. Step(j) = "options" BY <1>1, <1>8, Scripts
  <2>2. vault' = vault BY <2>1, <1>1 DEF EntriesAfter
  <2>3. PutsRow(e, r)
    <3>1. Options(c) = c.row.drive BY DEF Options
    <3>2. CASE row[e] # None BY <3>1, <3>2, <2>1, <2>2, <1>1 DEF RowsAfter, PutsRow
    <3>3. CASE row[e] = None
      <4>1. row' = row BY <3>3, <2>1, <1>1 DEF RowsAfter
      <4> QED BY <3>3, <4>1, <2>2, <1>2, <1>3 DEF PutsRow
    <3> QED BY <3>2, <3>3
  <2>4. c.at < Steps(c.cmd) /\ NextStep(j) = c.at + 1 BY <2>1, <1>8, Scripts DEF NextStep
  <2>5. r \in Row \union {None} BY <1>1, <1>2 DEF Row, Maybe
  <2>6. row[e] # None => /\ r # None /\ r.auth = row[e].auth /\ r.path = row[e].path
                         /\ r.ref = row[e].ref
    <3>1. ASSUME row[e] # None PROVE r \in Row BY <3>1, <1>1, <1>2 DEF Row, Maybe
    <3>2. ASSUME row[e] # None
          PROVE r.auth = row[e].auth /\ r.path = row[e].path /\ r.ref = row[e].ref
      BY <3>2, <1>1 DEF Row
    <3> QED BY <3>1, <3>2, EntryAssumption
  <2> HIDE DEF r
  <2>7. StoresOK' /\ OnlyTouches(j) /\ row'[e] = r BY <2>3, <2>5, <1>2, OneRowStep
  <2>8. row'[f] = row[f] /\ vault'[f] = vault[f] BY <2>2, <2>3, <1>2, <1>3 DEF PutsRow
  <2>9. ASSUME NEW d, SoFar(c, e, row[e], vault[e], lacking), Moved(c, d, c.at + 1, ChangedAfter(j))
        PROVE  SoFar(d, e, row'[e], vault'[e], lacking)
    <3>1. /\ d.cmd = "duplicate" /\ d.e = e /\ d.from = f /\ d.row = c.row /\ d.before = c.before
          /\ d.auth = c.auth /\ d.path = c.path /\ d.at = 6
      BY <2>9, <1>8 DEF Moved, Continues
    <3>2. row[e] # None /\ row[e].auth = c.auth /\ row[e].path = c.path /\ ~row[e].ref
      BY <2>9, <1>8 DEF SoFar
    <3> QED
      BY <3>1, <3>2, <2>2, <2>6, <2>7, <2>9, <1>2, <1>8
      DEF SoFar, RowWritten, Written, DuplicateWrites, Secret
  <2> QED BY <2>4, <2>7, <2>8, <2>9, CopyStepKeeps
<1>9. CASE c.at = 6
  <2>1. Step(j) = "copySecret" BY <1>1, <1>9, Scripts
  <2>2. Writes(e, "secret", CopyAfter(j, "secret")) /\ row' = row
    BY <2>1, <1>1 DEF EntriesAfter, RowsAfter, Writes
  <2>3. "secret" \in Secret BY DEF Secret
  <2>4. CASE vault[f].secret # None
    <3>1. c.at < Steps(c.cmd) /\ NextStep(j) = c.at + 1 BY <2>4, <1>9, Scripts DEF NextStep
    <3> QED BY <3>1, <2>2, <2>3, <2>4, <1>9, CopyEntryKeeps
  <2>5. CASE vault[f].secret = None
    <3>1. NextStep(j) = Steps("duplicate") + 1 BY <2>1, <2>5 DEF NextStep, Steps
    <3>2. job' = [job EXCEPT ![j] = NoCall] /\ NoCall \in Ended
      <4>1. NextStep(j) > Steps(c.cmd)
        <5>1. \A n \in 2..7 : n + 1 > n OBVIOUS
        <5>2. Steps("duplicate") \in 2..7 BY Scripts
        <5> QED BY <3>1, <5>1, <5>2
      <4> QED BY <4>1 DEF GoOn, Ended, Steps
    <3>3. CopyAfter(j, "secret") = vault[e].secret BY <2>5 DEF CopyAfter
    <3>4. CopyAfter(j, "secret") \in Maybe BY <3>3, <1>2, EntryFields
    <3>5. StoresOK' /\ OnlyTouches(j) /\ Wrote(e, "secret", CopyAfter(j, "secret"))
      BY <3>4, <2>2, <2>3, <1>2, OneEntryStep
    <3>6. vault'[f] = vault[f] /\ vault'[e].key = vault[e].key
      BY <3>5, <1>2 DEF Wrote, Secret
    <3>7. ASSUME NEW x \in Touches(j) \ tainted PROVE Fits(x, row'[x], vault'[x], lacking)
      <4>1. SoFar(c, x, row[x], vault[x], lacking) BY <1>2
      <4>2. CASE x = e
        <5>1. row[e] # None /\ row[e].auth = c.auth /\ row[e].path = c.path /\ ~row[e].ref
          BY <4>1, <4>2, <1>9 DEF SoFar
        <5>2. row[e] \in Row BY <5>1, <1>1
        <5>3. c.at > 2 BY <1>9
        <5> HIDE DEF c, e, f
        <5> QED BY <5>1, <5>2, <5>3, <3>6, <2>2, <4>2, CopyFits DEF c, e, f
      <4>3. CASE x = f
        <5>1. Fits(f, row[f], c.before[f], lacking) BY <4>1, <4>3, <1>2 DEF SoFar, RowWritten
        <5>2. vault[f].secret = c.before[f].secret /\ vault[f].key = c.before[f].key
              /\ \A k \in Secret : vault[f][k] = c.before[f][k]
          BY <4>1, <4>3, <1>2 DEF SoFar, Written, Secret
        <5>3. vault[f] = c.before[f] BY <5>2, EntriesEqual, OfTheCopy
        <5> QED BY <5>1, <5>3, <3>6, <2>2, <4>3
      <4> QED BY <4>2, <4>3, <1>2
    <3>8. LeadsOut(j, NoCall) BY <3>2, <3>7, <1>1 DEF LeadsOut
    <3> QED BY <3>2, <3>5, <3>8, <1>1, OneCallKeeps
  <2> QED BY <2>4, <2>5
<1>10. CASE c.at = 7
  <2> DEFINE r == [row[e] EXCEPT !.ref = TRUE]
  <2>1. Step(j) = "reference" BY <1>1, <1>10, Scripts
  <2>2. LiveRow(e) BY <2>1 DEF GoOn, Accepted
  <2>3. row[e] \in Row /\ row[e] # None BY <2>2, <1>1 DEF LiveRow
  <2>4. r \in Row /\ r.auth = row[e].auth /\ r.path = row[e].path BY <2>3 DEF Row
  <2>5. PutsRow(e, r) /\ vault' = vault BY <2>1, <1>1 DEF EntriesAfter, RowsAfter, PutsRow
  <2>6. c.at = Steps(c.cmd) /\ NextStep(j) = c.at + 1 BY <2>1, <1>10, Scripts DEF NextStep
  <2> HIDE DEF r
  <2>7. job' = [job EXCEPT ![j] = NoCall] /\ NoCall \in Ended BY <2>6, LastStep
  <2>8. StoresOK' /\ OnlyTouches(j) /\ row'[e] = r
    <3>1. r \in Row \union {None} BY <2>4
    <3> QED BY <3>1, <2>5, <1>2, OneRowStep
  <2>9. row'[f] = row[f] BY <2>5, <1>2, <1>3 DEF PutsRow
  <2>10. ASSUME NEW x \in Touches(j) \ tainted PROVE Fits(x, row'[x], vault'[x], lacking)
    <3>1. SoFar(c, x, row[x], vault[x], lacking) BY <1>2
    <3>2. CASE x = e
      <4>1. row[e].auth = c.auth /\ row[e].path = c.path /\ vault[e].secret # None
        BY <3>1, <3>2, <1>10 DEF SoFar
      <4>2. c.at > 2 BY <1>10
      <4> HIDE DEF c, e, f
      <4> QED BY <4>1, <4>2, <3>2, <2>4, <2>5, <2>8, CopyFits DEF c, e, f
    <3>3. CASE x = f
      <4>1. Fits(f, row[f], c.before[f], lacking) BY <3>1, <3>3, <1>2 DEF SoFar, RowWritten
      <4>2. \A k \in Secret : vault[f][k] = c.before[f][k]
        BY <3>1, <3>3, <1>2 DEF SoFar, Written
      <4>3. vault[f] = c.before[f] BY <4>2, EntriesEqual, OfTheCopy
      <4> QED BY <4>1, <4>3, <2>5, <2>9, <3>3
    <3> QED BY <3>2, <3>3, <1>2
  <2>11. LeadsOut(j, NoCall) BY <2>7, <2>10, <1>1 DEF LeadsOut
  <2> QED BY <2>7, <2>8, <2>11, <1>1, OneCallKeeps
<1> QED BY <1>1, <1>4, <1>5, <1>6, <1>7, <1>8, <1>9, <1>10

(***************************************************************************)
(* import_file goes on: a file with the ids e and f, perhaps the same.     *)
(***************************************************************************)
LEMMA OfTheFile ==
    ASSUME StoreInv, NEW j \in Command, Running(j), job[j].cmd = "import",
           NEW c, c = job[j], NEW e, e = c.e, NEW f, f = c.from
    PROVE  /\ e \in Entry /\ f \in Entry /\ e \notin Proxies /\ f \notin Proxies
           /\ Touches(j) = {e, f}
           /\ c.auth \in Auth /\ c.path \in Maybe /\ c.secret \in Maybe
           /\ c.read \in EntryState /\ c.before \in [Entry -> EntryState]
           /\ vault[e] \in EntryState /\ vault[f] \in EntryState
           /\ \A x \in Touches(j) \ tainted : SoFar(c, x, row[x], vault[x], lacking)
<1>1. Called(c) /\ c \in CallState /\ e \in Entry BY TouchesCall
<1>2. /\ c.path \in Maybe /\ c.secret \in Maybe /\ c.from \in Entry \union {None}
      /\ c.read \in EntryState /\ c.before \in [Entry -> EntryState]
  BY <1>1, CallFields
<1>3. f # None /\ e \notin Proxies /\ f \notin Proxies /\ c.auth \in Auth
  BY <1>1 DEF Called, ProxyCommands
<1>4. f \in Entry BY <1>2, <1>3
<1>5. Touches(j) = {e, f} BY <1>1, <1>4, EntryAssumption DEF Touches
<1>6. \A x \in Touches(j) \ tainted : SoFar(c, x, row[x], vault[x], lacking)
  BY <1>1, <1>4, <1>5 DEF StoreInv, EntryOK
<1> QED BY <1>1, <1>2, <1>3, <1>4, <1>5, <1>6 DEF StoreInv, StoresOK

\* A file without secrets changes no entry.
LEMMA NoSecretGoesOn ==
    ASSUME StoreInv, NEW j \in Command, Running(j), GoOn(j), job[j].cmd = "import",
           job[j].secret = None, job[j].at \in 1..2
    PROVE  StoreInv'
<1> DEFINE c == job[j]
<1>1. /\ c.at \in 1..7 /\ Step(j) = Script(c.cmd)[c.at]
      /\ vault' = EntriesAfter(j) /\ row' = RowsAfter(j) /\ tainted' = tainted
      /\ lacking' = lacking
  BY GoOnFacts
<1>2. Step(j) \in {"first", "second"} /\ c.at < Steps(c.cmd) BY <1>1, Scripts
<1>3. row' = row BY <1>1, <1>2 DEF RowsAfter
<1>4. vault' = vault BY <1>1, <1>2 DEF EntriesAfter, Given
<1>5. ChangedAfter(j) = c.changed BY DEF ChangedAfter, Given
<1>6. NextStep(j) = c.at + 1 BY DEF NextStep
<1>7. PICK d : job' = [job EXCEPT ![j] = d] /\ Moved(c, d, c.at + 1, ChangedAfter(j))
  BY <1>2, <1>6, NextAt
<1>8. ASSUME NEW x \in Touches(j) \ tainted PROVE SoFar(d, x, row'[x], vault'[x], lacking)
  <2>1. SoFar(c, x, row[x], vault[x], lacking) BY OfTheFile
  <2>2. /\ d.cmd = "import" /\ d.e = c.e /\ d.from = c.from /\ d.secret = None
        /\ d.before = c.before /\ d.changed = c.changed
    BY <1>5, <1>7 DEF Moved, Continues
  <2> QED BY <2>1, <2>2, <1>3, <1>4 DEF SoFar, RowWritten, Written, Remembers
<1>9. LeadsOn(j, d) BY <1>1, <1>7, <1>8 DEF LeadsOn, Moved
<1> QED BY <1>1, <1>3, <1>4, <1>7, <1>9, NoStoreStep, OneCallKeeps

LEMMA ImportGoesOn ==
    ASSUME StoreInv, NEW j \in Command, Running(j), GoOn(j), job[j].cmd = "import"
    PROVE  StoreInv'
<1> DEFINE c == job[j]
           e == c.e
           f == c.from
<1>1. /\ c.at \in 1..7 /\ c.at <= Steps(c.cmd) /\ Step(j) = Script(c.cmd)[c.at]
      /\ vault' = EntriesAfter(j) /\ row' = RowsAfter(j) /\ tainted' = tainted
      /\ lacking' = lacking
  BY GoOnFacts
<1>2. /\ e \in Entry /\ f \in Entry /\ e \notin Proxies /\ f \notin Proxies /\ Touches(j) = {e, f}
      /\ c.auth \in Auth /\ c.path \in Maybe /\ c.secret \in Maybe
      /\ vault[e] \in EntryState /\ vault[f] \in EntryState
      /\ \A x \in Touches(j) \ tainted : SoFar(c, x, row[x], vault[x], lacking)
  BY OfTheFile
<1>3. StoresOK /\ row \in [Entry -> Row \union {None}] BY DEF StoreInv, StoresOK
<1>4. NextStep(j) = c.at + 1 BY DEF NextStep
<1>5. c.at \in 1..3 BY <1>1, Scripts
<1>6. vault[e].secret \in Maybe /\ vault[f].secret \in Maybe BY <1>2, EntryFields
<1>7. "secret" \in Secret BY DEF Secret
<1>8. CASE c.at = 1 /\ c.secret # None
  <2>1. Step(j) = "first" /\ c.at < Steps(c.cmd) BY <1>1, <1>8, Scripts
  <2>2. row' = row BY <2>1, <1>1 DEF RowsAfter
  <2>3. Writes(e, "secret", c.secret) BY <2>1, <1>1, <1>8 DEF EntriesAfter, Given, Writes
  <2>4. StoresOK' /\ OnlyTouches(j) /\ Wrote(e, "secret", c.secret)
    <3> HIDE DEF c
    <3> QED BY <2>2, <2>3, <1>2, <1>7, OneEntryStep DEF c
  <2>5. PICK d : job' = [job EXCEPT ![j] = d] /\ Moved(c, d, c.at + 1, ChangedAfter(j))
    BY <2>1, <1>4, NextAt
  <2>6. ASSUME NEW x \in Touches(j) \ tainted PROVE SoFar(d, x, row'[x], vault'[x], lacking)
    <3>1. SoFar(c, x, row[x], vault[x], lacking) /\ x \in Entry BY <1>2
    <3>2. c.changed = <<>> BY <1>8, TouchesCall DEF Called, Listed
    <3>4. d.changed = <<<<e, vault[e].secret>>>> /\ d.changed # <<>>
      BY <2>1, <2>5, <1>8, TouchesCall, ListGrows DEF Moved
    <3>5. /\ d.cmd = "import" /\ d.e = e /\ d.from = f /\ d.secret = c.secret /\ d.at = 2
          /\ d.before = c.before
      BY <2>5, <1>8 DEF Moved, Continues
    <3>6. \A k \in Secret : vault[x][k] = c.before[x][k]
      BY <3>1, <3>2 DEF SoFar, Written
    <3>7. Remembers(d, x) BY <3>4, <3>5, <3>6 DEF Remembers, Secret
    <3>8. /\ \A k \in Secret \ {"secret"} : vault'[x][k] = c.before[x][k]
          /\ x = e => vault'[x].secret = c.secret
          /\ x # e => vault'[x].secret = c.before[x].secret
      BY <3>1, <3>6, <2>4, <1>2 DEF Wrote, Secret
    <3> QED
      BY <3>1, <3>4, <3>5, <3>7, <3>8, <2>2, <1>8 DEF SoFar, RowWritten, Written
  <2>7. LeadsOn(j, d) BY <2>5, <2>6, <1>1 DEF LeadsOn, Moved
  <2> QED BY <2>4, <2>5, <2>7, <1>1, OneCallKeeps
<1>9. CASE c.at = 2 /\ c.secret # None
  <2>1. Step(j) = "second" /\ c.at < Steps(c.cmd) BY <1>1, <1>9, Scripts
  <2>2. row' = row BY <2>1, <1>1 DEF RowsAfter
  <2>3. Writes(f, "secret", c.secret) BY <2>1, <1>1, <1>9 DEF EntriesAfter, Given, Writes
  <2>4. Wrote(f, "secret", c.secret)
    <3> HIDE DEF c, f
    <3> QED BY <2>3, <1>2, <1>3, <1>7, EntryWritten
  <2>5. StoresOK' /\ OnlyTouches(j)
    BY <2>2, <2>4, <1>2, <1>3 DEF StoresOK, OnlyTouches, Wrote
  <2>6. PICK d : job' = [job EXCEPT ![j] = d] /\ Moved(c, d, c.at + 1, ChangedAfter(j))
    BY <2>1, <1>4, NextAt
  <2>7. ASSUME NEW x \in Touches(j) \ tainted PROVE SoFar(d, x, row'[x], vault'[x], lacking)
    <3>1. SoFar(c, x, row[x], vault[x], lacking) /\ x \in Entry BY <1>2
    <3>2. PICK s \in Maybe :
            /\ c.changed = <<<<e, s>>>>
            /\ d.changed = <<<<e, s>>, <<f, vault[f].secret>>>>
      BY <2>1, <2>6, <1>9, TouchesCall, ListGrows DEF Moved
    <3>3. x = e => s = c.before[x].secret BY <3>1, <3>2, <1>9 DEF SoFar, Remembers
    <3>4. d.changed # <<>> /\ c.changed # <<>> BY <3>2
    <3>5. /\ d.cmd = "import" /\ d.e = e /\ d.from = f /\ d.secret = c.secret /\ d.at = 3
          /\ d.before = c.before
      BY <2>6, <1>9 DEF Moved, Continues
    <3>6. /\ \A k \in Secret \ {"secret"} : vault[x][k] = c.before[x][k]
          /\ x = e => vault[x].secret = c.secret
          /\ x # e => vault[x].secret = c.before[x].secret
      BY <3>1, <3>4, <1>9 DEF SoFar, Written
    <3>7. Remembers(d, x) BY <3>2, <3>3, <3>5, <3>6 DEF Remembers
    <3>8. /\ \A k \in Secret \ {"secret"} : vault'[x][k] = c.before[x][k]
          /\ vault'[x].secret = c.secret
      BY <3>1, <3>6, <2>4, <1>2 DEF Wrote, Secret
    <3> QED
      BY <3>1, <3>4, <3>5, <3>7, <3>8, <2>2, <1>9 DEF SoFar, RowWritten, Written
  <2>8. LeadsOn(j, d) BY <2>6, <2>7, <1>1 DEF LeadsOn, Moved
  <2> QED BY <2>5, <2>6, <2>8, <1>1, OneCallKeeps
<1>10. CASE c.at = 3
  <2> DEFINE new(x) == Upsert(row[x], c.auth, c.path, Given(j))
  <2>1. Step(j) = "rows" /\ c.at = Steps(c.cmd) BY <1>1, <1>10, Scripts
  <2>2. vault' = vault BY <2>1, <1>1 DEF EntriesAfter
  <2>3. row' = [x \in Entry |-> IF x \in {e, f} THEN new(x) ELSE row[x]]
    BY <2>1, <1>1 DEF RowsAfter
  <2>8. ASSUME NEW x \in Entry
        PROVE  /\ new(x) \in Row
               /\ new(x).ref => Given(j) \/ (row[x] # None /\ row[x].ref)
    <3>1. /\ Given(j) \in BOOLEAN /\ row[x] \in Row \union {None}
          /\ c.auth \in Auth /\ c.path \in Maybe
      BY <1>2, <1>3 DEF Given
    <3> HIDE DEF c
    <3> QED BY <3>1, UpsertIsRow
  <2> HIDE DEF new
  <2>4. StoresOK' /\ OnlyTouches(j) BY <2>2, <2>3, <2>8, <1>2, <1>3, EntryAssumption DEF StoresOK, OnlyTouches
  <2>5. job' = [job EXCEPT ![j] = NoCall] /\ NoCall \in Ended BY <2>1, <1>4, LastStep
  <2>6. ASSUME NEW x \in Touches(j) \ tainted PROVE Fits(x, row'[x], vault'[x], lacking)
    <3>1. SoFar(c, x, row[x], vault[x], lacking) /\ x \in Entry BY <1>2
    <3>2. <<x, "key">> \in lacking /\ Fits(x, row[x], c.before[x], lacking)
      BY <3>1 DEF SoFar, RowWritten
    <3>3. row'[x] # None /\ (row'[x].ref => Given(j) \/ (row[x] # None /\ row[x].ref))
      BY <3>1, <2>3, <2>8, <1>2, EntryAssumption
    <3>4. CASE c.secret # None
      <4>1. vault[x].secret = c.secret BY <3>1, <3>4, <1>2, <1>10 DEF SoFar
      <4> QED BY <4>1, <3>2, <3>3, <3>4, <2>2 DEF Fits
    <3>5. CASE c.secret = None
      <4>1. c.changed = <<>> BY <3>5, TouchesCall DEF Called, Listed
      <4>2. vault[x].secret = c.before[x].secret BY <4>1, <3>1 DEF SoFar, Written, Secret
      <4> QED BY <4>2, <3>2, <3>3, <3>5, <2>2 DEF Fits, Given
    <3> QED BY <3>4, <3>5
  <2>7. LeadsOut(j, NoCall) BY <2>5, <2>6, <1>1 DEF LeadsOut
  <2> QED BY <2>4, <2>5, <2>7, <1>1, OneCallKeeps
<1>11. CASE c.at \in 1..2 /\ c.secret = None BY <1>11, NoSecretGoesOn
<1> QED BY <1>5, <1>8, <1>9, <1>10, <1>11

LEMMA GoOnKeeps ==
    ASSUME StoreInv, NEW j \in Command, GoOn(j)
    PROVE  StoreInv'
<1>1. Running(j) BY DEF GoOn
<1>2. job[j].cmd \in CommandName BY <1>1, TouchesCall, CallFields
<1>3. CASE job[j].cmd = "save" BY <1>1, <1>3, SaveGoesOn
<1>4. CASE job[j].cmd \in {"saveAgent", "proxyPlain"} BY <1>1, <1>4, SaveAgentGoesOn
<1>5. CASE job[j].cmd = "proxySave" BY <1>1, <1>5, ProxySaveGoesOn
<1>6. CASE job[j].cmd \in {"purge", "proxyDelete"} BY <1>1, <1>6, PurgeGoesOn
<1>7. CASE job[j].cmd = "options" BY <1>1, <1>7, OptionsGoOn
<1>8. CASE job[j].cmd = "share" BY <1>1, <1>8, ShareGoesOn
<1>9. CASE job[j].cmd = "duplicate" BY <1>1, <1>9, DuplicateGoesOn
<1>10. CASE job[j].cmd = "import" BY <1>1, <1>10, ImportGoesOn
<1> QED BY <1>2, <1>3, <1>4, <1>5, <1>6, <1>7, <1>8, <1>9, <1>10 DEF CommandName

(***************************************************************************)
(* A step is refused.  What the steps before it have written is undone.    *)
(***************************************************************************)
LEMMA WrittenUndone ==
    ASSUME NEW c, c.cmd \in CommandName, c.at \in 1..7, c.at <= Steps(c.cmd), c.cmd # "import"
    PROVE  Written(c, c.e) \subseteq Undoes(c.cmd, Script(c.cmd)[c.at])
<1>1. CASE c.cmd = "save"
  <2>1. c.at \in 1..4 BY <1>1, Scripts
  <2> QED BY <1>1, <2>1, Scripts DEF Written, OtherWrites, Undoes, Secret
<1>2. CASE c.cmd = "saveAgent"
  <2>1. c.at \in 1..4 BY <1>2, Scripts
  <2> QED BY <1>2, <2>1, Scripts DEF Written, OtherWrites, Undoes, Secret
<1>3. CASE c.cmd = "purge"
  <2>1. c.at \in 1..5 BY <1>3, Scripts
  <2> QED BY <1>3, <2>1, Scripts DEF Written, OtherWrites, Undoes, Secret
<1>4. CASE c.cmd = "duplicate"
  <2>1. c.at \in 1..7 BY <1>4, Scripts
  <2> QED BY <1>4, <2>1, Scripts DEF Written, DuplicateWrites, Undoes, Secret
<1>5. CASE c.cmd = "options"
  <2>1. c.at \in 1..2 BY <1>5, Scripts
  <2> QED BY <1>5, <2>1, Scripts DEF Written, Undoes, Secret
<1>6. CASE c.cmd \in {"proxySave", "proxyPlain", "proxyDelete"}
  <2>1. c.at \in 1..2 BY <1>6, Scripts
  <2> QED BY <1>6, <2>1, Scripts DEF Written, OtherWrites, Undoes, Secret
<1>7. CASE c.cmd = "share"
  <2>1. c.at \in 1..3 BY <1>7, Scripts
  <2> QED BY <1>7, <2>1, Scripts DEF Written, Undoes, Secret
<1> QED BY <1>1, <1>2, <1>3, <1>4, <1>5, <1>6, <1>7 DEF CommandName

LEMMA RowUndone ==
    ASSUME NEW c, c.cmd \in CommandName, c.at \in 1..7, c.at <= Steps(c.cmd)
    PROVE  UndoesRow(c.cmd, Script(c.cmd)[c.at]) <=> RowWritten(c, c.e)
<1>1. CASE c.cmd = "duplicate" BY <1>1, Scripts DEF UndoesRow, RowWritten
<1>2. CASE c.cmd = "share"
  <2>1. c.at \in 1..3 BY <1>2, Scripts
  <2> QED BY <1>2, <2>1, Scripts DEF UndoesRow, RowWritten
<1> QED BY <1>1, <1>2 DEF UndoesRow, RowWritten

\* rollback_credentials: of what import_file remembers, the first value of an id.
LEMMA FirstValue ==
    ASSUME NEW e, NEW f, NEW s, NEW t, NEW list
    PROVE  /\ list = <<<<e, s>>>> => FirstOf(list, e) = s
           /\ list = <<<<e, s>>, <<f, t>>>> => FirstOf(list, e) = s /\ (f # e => FirstOf(list, f) = t)
<1>1. FirstOf(<<<<e, s>>>>, e) = s
  <2> DEFINE ch == <<<<e, s>>>>
             P(i) == ch[i][1] = e /\ \A k \in 1..(i - 1) : ch[k][1] # e
  <2>1. DOMAIN ch = 1..1 /\ ch[1] = <<e, s>> OBVIOUS
  <2>2. \A i \in DOMAIN ch : i = 1 BY <2>1
  <2>3. 1 \in DOMAIN ch /\ P(1) BY <2>1
  <2>4. (CHOOSE i \in DOMAIN ch : P(i)) = 1 BY <2>2, <2>3
  <2> QED BY <2>1, <2>4 DEF FirstOf
<1> DEFINE ch == <<<<e, s>>, <<f, t>>>>
<1>2. DOMAIN ch = 1..2 /\ ch[1] = <<e, s>> /\ ch[2] = <<f, t>> OBVIOUS
<1>3. FirstOf(ch, e) = s
  <2> DEFINE P(i) == ch[i][1] = e /\ \A k \in 1..(i - 1) : ch[k][1] # e
  <2>1. 1 \in DOMAIN ch /\ P(1) BY <1>2
  <2>2. \A i \in DOMAIN ch : P(i) => i = 1
    <3> HIDE DEF ch
    <3> QED BY <1>2
  <2>3. (CHOOSE i \in DOMAIN ch : P(i)) = 1 BY <2>1, <2>2
  <2> QED BY <1>2, <2>3 DEF FirstOf
<1>4. ASSUME f # e PROVE FirstOf(ch, f) = t
  <2> DEFINE P(i) == ch[i][1] = f /\ \A k \in 1..(i - 1) : ch[k][1] # f
  <2>1. 2 \in DOMAIN ch /\ P(2)
    <3> HIDE DEF ch
    <3> QED BY <1>2, <1>4
  <2>2. \A i \in DOMAIN ch : P(i) => i = 2
    <3> HIDE DEF ch
    <3> QED BY <1>2, <1>4
  <2>3. (CHOOSE i \in DOMAIN ch : P(i)) = 2 BY <2>1, <2>2
  <2> QED BY <1>2, <2>3 DEF FirstOf
<1> QED BY <1>1, <1>3, <1>4

\* What undoing leaves of an id that belongs to the call alone.
NoRowLeft(j) ==
    job[j].cmd \in {"duplicate", "share"} =>
      \/ row'[job[j].e] = None
      \/ Step(j) = "insert" /\ <<job[j].e, "secret">> \in lacking'

Undone(j) ==
    \A x \in Touches(j) \ tainted' :
      /\ vault'[x] = job[j].before[x]
      /\ Fits(x, row'[x], vault'[x], lacking')
      /\ x = job[j].e => NoRowLeft(j)

\* Which commands write a row, or insert one; only entries are restored.
LEMMA StepsOfCommands ==
    ASSUME NEW cmd \in CommandName, NEW n \in 1..7, n <= Steps(cmd)
    PROVE  /\ Script(cmd)[n] = "row" => cmd \in {"save", "saveAgent", "proxySave", "proxyPlain"}
           /\ Script(cmd)[n] = "insert" => cmd \in {"duplicate", "share"}
           /\ "row" \notin Undoes(cmd, Script(cmd)[n])
<1>1. CASE cmd = "save"
  <2>1. n \in 1..4 BY <1>1, Scripts
  <2> QED BY <1>1, <2>1, Scripts DEF Undoes, Secret
<1>2. CASE cmd = "saveAgent"
  <2>1. n \in 1..4 BY <1>2, Scripts
  <2> QED BY <1>2, <2>1, Scripts DEF Undoes, Secret
<1>3. CASE cmd = "purge"
  <2>1. n \in 1..5 BY <1>3, Scripts
  <2> QED BY <1>3, <2>1, Scripts DEF Undoes, Secret
<1>4. CASE cmd = "duplicate"
  <2>1. n \in 1..7 BY <1>4, Scripts
  <2> QED BY <1>4, <2>1, Scripts DEF Undoes, Secret
<1>5. CASE cmd = "options"
  <2>1. n \in 1..2 BY <1>5, Scripts
  <2> QED BY <1>5, <2>1, Scripts DEF Undoes, Secret
<1>6. CASE cmd = "proxySave"
  <2>1. n \in 1..2 BY <1>6, Scripts
  <2> QED BY <1>6, <2>1, Scripts DEF Undoes, Secret
<1>7. CASE cmd = "proxyPlain"
  <2>1. n \in 1..2 BY <1>7, Scripts
  <2> QED BY <1>7, <2>1, Scripts DEF Undoes, Secret
<1>8. CASE cmd = "proxyDelete"
  <2>1. n \in 1..2 BY <1>8, Scripts
  <2> QED BY <1>8, <2>1, Scripts DEF Undoes, Secret
<1>9. CASE cmd = "share"
  <2>1. n \in 1..3 BY <1>9, Scripts
  <2> QED BY <1>9, <2>1, Scripts DEF Undoes, Secret
<1>10. CASE cmd = "import"
  <2>1. n \in 1..3 BY <1>10, Scripts
  <2> QED BY <1>10, <2>1, Scripts DEF Undoes, Secret
<1> QED BY <1>1, <1>2, <1>3, <1>4, <1>5, <1>6, <1>7, <1>8, <1>9, <1>10 DEF CommandName

\* What may be written and not read back is a row of the call's own id.
LEMMA ReadBackRow ==
    ASSUME StoreInv, NEW j \in Command, Running(j), ReadsBack(j), Accepted(j)
    PROVE  \E r \in Row : /\ RowsAfter(j) = [row EXCEPT ![job[j].e] = r]
                          /\ job[j].e \in Proxies => PlainRow(r)
<1> DEFINE c == job[j]
           e == c.e
<1>1. /\ Called(c) /\ e \in Entry /\ c.cmd \in CommandName /\ c.at \in 1..7 /\ c.path \in Maybe
      /\ c.at <= Steps(c.cmd) /\ Step(j) = Script(c.cmd)[c.at]
  BY TouchesCall, CallFields DEF Called, Step
<1>2. row \in [Entry -> Row \union {None}] BY DEF StoreInv, StoresOK
<1>3. Given(j) \in BOOLEAN BY DEF Given
<1>4. CASE Step(j) = "row"
  <2>1. c.cmd \in {"save", "saveAgent", "proxySave", "proxyPlain"}
    BY <1>1, <1>4, StepsOfCommands
  <2>2. c.auth \in Auth /\ (e \in Proxies => c.auth \in {"password", "agent"})
    BY <2>1, <1>1 DEF Called, ProxyCommands
  <2> DEFINE r == Upsert(row[e], c.auth, c.path, Given(j))
  <2>3. r \in Row /\ r.auth = c.auth
    <3>1. row[e] \in Row \union {None} BY <1>1, <1>2
    <3> HIDE DEF c, e
    <3> QED BY <3>1, <2>2, <1>1, <1>3, UpsertIsRow
  <2>4. RowsAfter(j) = [row EXCEPT ![e] = r] BY <1>4 DEF RowsAfter
  <2> HIDE DEF r
  <2> QED BY <2>2, <2>3, <2>4 DEF PlainRow
<1>5. CASE Step(j) = "insert"
  <2>1. c.cmd \in {"duplicate", "share"} BY <1>1, <1>5, StepsOfCommands
  <2>2. e \notin Proxies /\ c.auth \in Auth BY <2>1, <1>1 DEF Called, ProxyCommands
  <2>3. Inserted(c) \in Row
    <3>1. None \in Maybe BY DEF Maybe
    <3> HIDE DEF c
    <3> QED BY <3>1, <2>2, <1>1, RowOfIsRow DEF Inserted
  <2>4. RowsAfter(j) = [row EXCEPT ![e] = Inserted(c)] BY <1>5 DEF RowsAfter
  <2> QED BY <2>2, <2>3, <2>4
<1>6. CASE Step(j) = "reference"
  <2>1. row[e] \in Row BY <1>1, <1>2, <1>6 DEF Accepted, LiveRow
  <2> DEFINE r == [row[e] EXCEPT !.ref = TRUE]
  <2>2. r \in Row /\ r.auth = row[e].auth BY <2>1 DEF Row
  <2>3. RowsAfter(j) = [row EXCEPT ![e] = r] BY <1>1, <1>2, <1>6 DEF RowsAfter
  <2>4. e \in Proxies => PlainRow(row[e]) BY DEF StoreInv, StoresOK
  <2> HIDE DEF r
  <2> QED BY <2>1, <2>2, <2>3, <2>4, EntryAssumption DEF PlainRow
<1> QED BY <1>4, <1>5, <1>6 DEF ReadsBack

LEMMA RefuseOther ==
    ASSUME StoreInv, NEW j \in Command, Running(j), NEW lost, NEW written \in BOOLEAN,
           written => ReadsBack(j) /\ Accepted(j), Refuse(j, lost, written),
           job[j].cmd # "import"
    PROVE  StoresOK' /\ OnlyTouches(j) /\ Undone(j)
<1> DEFINE c == job[j]
           e == c.e
           kinds == ToRestore(j) \ lost
           gone == "row" \in ToUndo(j) \ lost
<1>1. /\ Called(c) /\ c \in CallState /\ e \in Entry /\ e \in Touches(j)
      /\ c.cmd \in CommandName /\ c.at \in 1..7 /\ c.at <= Steps(c.cmd)
      /\ c.read \in EntryState /\ c.before \in [Entry -> EntryState]
      /\ c.from \in Entry \union {None} /\ Step(j) = Script(c.cmd)[c.at]
  BY TouchesCall, CallFields DEF Called, Step
<1>2. vault \in [Entry -> EntryState] /\ row \in [Entry -> Row \union {None}] BY DEF StoreInv, StoresOK
<1>3. /\ vault' = [vault EXCEPT ![e] = [k \in Secret |-> IF k \in kinds THEN c.read[k] ELSE vault[e][k]]]
      /\ lost = {} => (gone <=> RowWritten(c, e))
  <2>1. lost = {} => (gone <=> RowWritten(c, e))
    <3>1. UndoesRow(c.cmd, Step(j)) <=> RowWritten(c, e) BY <1>1, RowUndone
    <3>2. "row" \notin ToRestore(j)
      <4>1. "row" \notin Undoes(c.cmd, Step(j)) BY <1>1, StepsOfCommands
      <4> QED BY <4>1 DEF ToRestore
    <3> QED BY <3>1, <3>2 DEF ToUndo
  <2>2. vault' = Restored(j, kinds) BY DEF Refuse
  <2>3. Restored(j, kinds) =
          [vault EXCEPT ![e] = [k \in Secret |-> IF k \in kinds THEN c.read[k] ELSE vault[e][k]]]
    BY <1>1, <1>2 DEF Restored
  <2> QED BY <2>1, <2>2, <2>3
<1>4. \A k \in Secret : c.read[k] \in Maybe /\ vault[e][k] \in Maybe BY <1>1, <1>2, EntryFields
<1> DEFINE w == [k \in Secret |-> IF k \in kinds THEN c.read[k] ELSE vault[e][k]]
<1>5. w \in EntryState BY <1>4 DEF EntryState
<1>6. /\ vault' \in [Entry -> EntryState] /\ vault'[e] = w
      /\ \A x \in Entry \ {e} : vault'[x] = vault[x]
  <2> HIDE DEF w, c, e
  <2>1. vault' = [vault EXCEPT ![e] = w] BY <1>3 DEF w
  <2> QED BY <2>1, <1>1, <1>2, <1>5
<1>7. /\ row' \in [Entry -> Row \union {None}]
      /\ \A x \in Entry \ {e} : row'[x] = row[x]
      /\ gone => row'[e] = None
      /\ ~gone /\ ~written => row'[e] = row[e]
      /\ ~gone /\ written => /\ row'[e] # None /\ <<e, "secret">> \in lacking'
                             /\ <<e, "key">> \in lacking'
      /\ e \in Proxies => PlainRow(row'[e])
  <2>1. PlainRow(None) /\ (e \in Proxies => PlainRow(row[e]))
    BY DEF PlainRow, StoreInv, StoresOK
  <2>2. CASE ~written
    <3>1. row' = IF gone THEN [row EXCEPT ![e] = None] ELSE row BY <2>2 DEF Refuse
    <3> QED BY <3>1, <2>1, <2>2, <1>1, <1>2
  <2>3. CASE written
    <3>1. PICK r \in Row : /\ RowsAfter(j) = [row EXCEPT ![e] = r]
                           /\ e \in Proxies => PlainRow(r)
      BY <2>3, ReadBackRow
    <3>2. row' = IF gone THEN [RowsAfter(j) EXCEPT ![e] = None] ELSE RowsAfter(j)
      BY <2>3 DEF Refuse
    <3>3. ~gone => lacking' = lacking \union ({e} \X {"secret", "key"})
      BY <2>3 DEF Refuse
    <3> HIDE DEF gone, c, e
    <3> QED BY <3>1, <3>2, <3>3, <2>1, <2>3, <1>1, <1>2, EntryAssumption
  <2> QED BY <2>2, <2>3
<1>12. lacking \subseteq lacking' BY DEF Refuse
<1>8. StoresOK'
  <2>1. ASSUME NEW p \in Proxies PROVE PlainRow(row'[p]) /\ NoFiles(vault'[p])
    <3>1. PlainRow(row[p]) /\ NoFiles(vault[p]) /\ NoFiles(c.before[p])
      BY <1>1 DEF StoreInv, StoresOK, Called
    <3>2. CASE p = e
      <4>1. PlainRow(row'[e]) BY <3>2, <1>7
      <4>2. NoFiles(c.read) BY <3>1, <3>2, <1>1, EntryEmpty DEF Called, NoFiles
      <4>3. NoFiles(w) BY <3>1, <3>2, <4>2 DEF NoFiles
      <4> QED BY <3>2, <4>1, <4>3, <1>6
    <3>3. CASE p # e BY <3>1, <3>3, <1>6, <1>7, EntryAssumption
    <3> QED BY <3>2, <3>3
  <2> QED BY <2>1, <1>6, <1>7 DEF StoresOK
<1>9. OnlyTouches(j) BY <1>1, <1>6, <1>7 DEF OnlyTouches
<1>10. ASSUME NEW x \in Touches(j) \ tainted'
       PROVE  /\ vault'[x] = c.before[x]
              /\ Fits(x, row'[x], vault'[x], lacking')
              /\ x = e => NoRowLeft(j)
  <2>1. lost = {} /\ x \notin tainted BY DEF Refuse
  <2>2. x \in Entry /\ SoFar(c, x, row[x], vault[x], lacking)
    BY <2>1, TouchesCall DEF StoreInv, EntryOK
  <2>3. c.before[x] \in EntryState /\ vault'[x] \in EntryState BY <2>2, <1>1, <1>6
  <2>4. CASE x = e
    <3>1. ASSUME NEW k \in Secret PROVE vault'[e][k] = c.before[e][k]
      <4>1. vault'[e][k] = IF k \in ToRestore(j) THEN c.read[k] ELSE vault[e][k]
        BY <1>6, <2>1
      <4>2. c.read = c.before[e]
        BY <2>2, <2>4, <1>1 DEF SoFar, Called
      <4>3. CASE k \in Written(c, e) /\ k \notin ToRestore(j)
        <5>1. k \in Undoes(c.cmd, Step(j)) BY <4>3, <1>1, WrittenUndone
        <5>2. k = "secret" /\ c.cmd \in {"save", "proxySave"} /\ c.secret = None /\ ~AuthChanged(j)
          BY <5>1, <4>3 DEF ToRestore
        <5>3. c.at > 1
          <6>1. Written(c, e) = OtherWrites[c.at] BY <5>2, <1>1 DEF Written
          <6> QED BY <6>1, <4>3, <1>1 DEF OtherWrites
        <5>4. vault[e].secret = NewSecret(c) BY <5>2, <5>3, <2>2, <2>4 DEF SoFar
        <5>5. NewSecret(c) = c.before[e].secret BY <5>2 DEF NewSecret, AuthChanged
        <5> QED BY <5>2, <5>4, <5>5, <4>1, <4>3
      <4>4. CASE k \notin Written(c, e) BY <4>1, <4>2, <4>4, <2>2, <2>4 DEF SoFar
      <4> QED BY <4>1, <4>2, <4>3, <4>4
    <3>2. vault'[e] = c.before[e] BY <3>1, <2>3, <2>4, EntriesEqual
    <3>3. Fits(e, row'[e], c.before[e], lacking')
      <4>1. CASE RowWritten(c, e)
        <5>1. c.before[e] = NoEntries BY <4>1, <2>2, <2>4 DEF SoFar, RowWritten
        <5> QED BY <5>1, <4>1, <2>1, <1>3, <1>7 DEF Fits
      <4>2. CASE ~RowWritten(c, e) /\ ~written
        <5>1. Fits(e, row[e], c.before[e], lacking) BY <4>2, <2>2, <2>4 DEF SoFar
        <5>2. row'[e] = row[e] BY <4>2, <2>1, <1>3, <1>7
        <5> QED BY <5>1, <5>2, <1>12, FitsMore
      <4>3. CASE ~RowWritten(c, e) /\ written BY <4>3, <2>1, <1>3, <1>7 DEF Fits
      <4> QED BY <4>1, <4>2, <4>3
    <3>4. NoRowLeft(j)
      <4>1. CASE c.cmd \in {"duplicate", "share"} /\ ~gone /\ ~written
        <5>1. ~RowWritten(c, e) /\ row'[e] = row[e] BY <4>1, <2>1, <1>3, <1>7
        <5>2. row[e] = None BY <4>1, <5>1, <2>2, <2>4, <1>1 DEF SoFar, RowWritten
        <5> QED BY <5>1, <5>2 DEF NoRowLeft
      <4>2. CASE c.cmd \in {"duplicate", "share"} /\ ~gone /\ written
        <5>1. ~RowWritten(c, e) /\ ReadsBack(j) BY <4>2, <2>1, <1>3
        <5>2. Step(j) = "insert"
          <6>1. CASE c.cmd = "duplicate"
            <7>1. c.at = 1 BY <6>1, <5>1, <1>1 DEF RowWritten
            <7> QED BY <7>1, <6>1, <1>1, Scripts
          <6>2. CASE c.cmd = "share"
            <7>1. c.at \in 1..2 BY <6>2, <5>1, <1>1 DEF RowWritten
            <7>2. c.at # 1 BY <6>2, <5>1, <1>1, Scripts DEF ReadsBack
            <7> QED BY <7>1, <7>2, <6>2, <1>1, Scripts
          <6> QED BY <4>2, <6>1, <6>2
        <5> QED BY <5>2, <4>2, <1>7 DEF NoRowLeft
      <4>3. CASE gone BY <4>3, <1>7 DEF NoRowLeft
      <4>4. CASE c.cmd \notin {"duplicate", "share"} BY <4>4 DEF NoRowLeft
      <4> HIDE DEF gone
      <4> QED BY <4>1, <4>2, <4>3, <4>4
    <3> QED BY <3>2, <3>3, <3>4, <2>4
  <2>5. CASE x # e
    <3>1. vault'[x] = vault[x] /\ row'[x] = row[x] BY <2>2, <2>5, <1>6, <1>7
    <3>2. c.cmd = "duplicate"
      BY <2>5, <1>1, TouchesCall DEF Called
    <3>3. Written(c, x) = {} /\ ~RowWritten(c, x) BY <3>2, <2>5 DEF Written, RowWritten
    <3>4. vault[x] = c.before[x]
      <4>1. \A k \in Secret : vault[x][k] = c.before[x][k] BY <3>3, <2>2 DEF SoFar
      <4> QED BY <4>1, <3>1, <2>3, EntriesEqual
    <3>5. Fits(x, row[x], c.before[x], lacking) BY <3>3, <2>2 DEF SoFar
    <3>6. Fits(x, row[x], c.before[x], lacking') BY <3>5, <1>12, FitsMore
    <3> QED BY <3>1, <3>4, <3>6, <2>5
  <2> QED BY <2>4, <2>5
<1>11. Undone(j) BY <1>10 DEF Undone
<1> QED BY <1>8, <1>9, <1>11

LEMMA RefuseImport ==
    ASSUME StoreInv, NEW j \in Command, Running(j), NEW lost, NEW written \in BOOLEAN,
           written => ReadsBack(j) /\ Accepted(j), Refuse(j, lost, written),
           job[j].cmd = "import"
    PROVE  StoresOK' /\ OnlyTouches(j) /\ Undone(j)
<1> DEFINE c == job[j]
           e == c.e
           f == c.from
           ch == c.changed
           kinds == ToRestore(j) \ lost
           Hit(x) == (\E i \in DOMAIN ch : ch[i][1] = x) /\ "secret" \in kinds
<1>1. /\ Called(c) /\ c \in CallState /\ c.at \in 1..7 /\ c.at <= Steps(c.cmd)
      /\ Step(j) = Script(c.cmd)[c.at] /\ Listed(c, c.at, ch)
  BY TouchesCall, CallFields DEF Called, Step
<1>2. /\ e \in Entry /\ f \in Entry /\ e \notin Proxies /\ f \notin Proxies
      /\ Touches(j) = {e, f} /\ c.before \in [Entry -> EntryState]
      /\ \A x \in Touches(j) \ tainted : SoFar(c, x, row[x], vault[x], lacking)
  BY OfTheFile
<1>3. c.at \in 1..3 BY <1>1, Scripts
<1>4. vault \in [Entry -> EntryState] BY DEF StoreInv, StoresOK
<1>5. ToRestore(j) = {"secret"} BY DEF ToRestore, Undoes
<1>6. row' = row /\ lacking' = lacking
  <2>1. ~written BY <1>1, <1>3, Scripts DEF ReadsBack
  <2>2. "row" \notin ToUndo(j) BY <1>5 DEF ToUndo, UndoesRow
  <2> QED BY <2>1, <2>2 DEF Refuse
<1>7. vault' = [x \in Entry |-> IF Hit(x) THEN [vault[x] EXCEPT !.secret = FirstOf(ch, x)] ELSE vault[x]]
  <2>1. vault' = Restored(j, kinds) BY DEF Refuse
  <2>2. Restored(j, kinds) =
          [x \in Entry |-> IF \E i \in DOMAIN ch : ch[i][1] = x /\ "secret" \in kinds
                           THEN [vault[x] EXCEPT !.secret = FirstOf(ch, x)] ELSE vault[x]]
    BY DEF Restored
  <2> HIDE DEF kinds, ch
  <2> QED BY <2>1, <2>2
<1>8. /\ ch = <<>> => \A x \in Entry : ~Hit(x)
      /\ \A s : ch = <<<<e, s>>>> =>
           /\ FirstOf(ch, e) = s
           /\ \A x \in Entry : Hit(x) => x = e
           /\ lost = {} => Hit(e)
      /\ \A s, t : ch = <<<<e, s>>, <<f, t>>>> =>
           /\ FirstOf(ch, e) = s /\ (f # e => FirstOf(ch, f) = t)
           /\ \A x \in Entry : Hit(x) => x \in {e, f}
           /\ lost = {} => Hit(e) /\ Hit(f)
  <2>1. ch = <<>> => \A x \in Entry : ~Hit(x)
    <3> HIDE DEF kinds
    <3> QED OBVIOUS
  <2>2. ASSUME NEW s, ch = <<<<e, s>>>>
        PROVE  FirstOf(ch, e) = s /\ (\A x \in Entry : Hit(x) => x = e) /\ (lost = {} => Hit(e))
    <3>1. FirstOf(ch, e) = s BY <2>2, FirstValue
    <3>2. DOMAIN ch = 1..1 /\ ch[1] = <<e, s>> BY <2>2
    <3>3. lost = {} => "secret" \in kinds BY <1>5
    <3> HIDE DEF kinds, ch, e
    <3>4. \A i \in DOMAIN ch : ch[i][1] = e BY <3>2
    <3>5. 1 \in DOMAIN ch BY <3>2
    <3> QED BY <3>1, <3>3, <3>4, <3>5
  <2>3. ASSUME NEW s, NEW t, ch = <<<<e, s>>, <<f, t>>>>
        PROVE  /\ FirstOf(ch, e) = s /\ (f # e => FirstOf(ch, f) = t)
               /\ \A x \in Entry : Hit(x) => x \in {e, f}
               /\ lost = {} => Hit(e) /\ Hit(f)
    <3>1. FirstOf(ch, e) = s /\ (f # e => FirstOf(ch, f) = t)
      <4> HIDE DEF ch, e, f
      <4> QED BY <2>3, FirstValue
    <3>2. DOMAIN ch = 1..2 /\ ch[1] = <<e, s>> /\ ch[2] = <<f, t>> BY <2>3
    <3>3. lost = {} => "secret" \in kinds BY <1>5
    <3> HIDE DEF kinds, ch, e, f
    <3>4. \A i \in DOMAIN ch : ch[i][1] \in {e, f} BY <3>2
    <3>5. 1 \in DOMAIN ch /\ ch[1][1] = e /\ 2 \in DOMAIN ch /\ ch[2][1] = f BY <3>2
    <3> QED BY <3>1, <3>3, <3>4, <3>5
  <2> QED BY <2>1, <2>2, <2>3
<1>9. \/ ch = <<>>
      \/ \E s \in Maybe : c.secret # None /\ c.at = 2 /\ ch = <<<<e, s>>>>
      \/ \E s, t \in Maybe : c.secret # None /\ c.at = 3 /\ ch = <<<<e, s>>, <<f, t>>>>
  <2>1. CASE c.secret = None \/ c.at = 1 BY <2>1, <1>1 DEF Listed
  <2>2. CASE c.secret # None /\ c.at = 2 BY <2>2, <1>1 DEF Listed
  <2>3. CASE c.secret # None /\ c.at = 3
    <3>1. \E s, t \in Maybe : ch = <<<<e, s>>, <<f, t>>>> BY <2>3, <1>1 DEF Listed
    <3> QED BY <3>1, <2>3
  <2> QED BY <2>1, <2>2, <2>3, <1>3
<1>10. \A x \in Entry : Hit(x) => x \in Touches(j) /\ FirstOf(ch, x) \in Maybe
  <2> HIDE DEF Hit, ch, e, f
  <2> QED BY <1>2, <1>8, <1>9
<1>11. ASSUME NEW x \in Entry
       PROVE  /\ vault'[x] \in EntryState
              /\ ~Hit(x) => vault'[x] = vault[x]
              /\ Hit(x) => vault'[x].secret = FirstOf(ch, x)
              /\ \A k \in Secret \ {"secret"} : vault'[x][k] = vault[x][k]
  <2> HIDE DEF Hit, ch
  <2>1. vault[x] \in EntryState BY <1>4
  <2>2. vault'[x] = IF Hit(x) THEN [vault[x] EXCEPT !.secret = FirstOf(ch, x)] ELSE vault[x] BY <1>7
  <2> QED BY <2>1, <2>2, <1>10 DEF EntryState, Secret
<1>12. vault' \in [Entry -> EntryState]
  <2> HIDE DEF Hit, ch
  <2> QED BY <1>7, <1>11
<1>13. \A x \in Entry \ Touches(j) : vault'[x] = vault[x]
  <2> HIDE DEF Hit, ch
  <2> QED BY <1>10, <1>11
<1>14. StoresOK' /\ OnlyTouches(j)
  BY <1>2, <1>6, <1>12, <1>13, EntryAssumption DEF StoreInv, StoresOK, OnlyTouches
<1>15. ASSUME NEW x \in Touches(j) \ tainted'
       PROVE  /\ vault'[x] = c.before[x]
              /\ Fits(x, row'[x], vault'[x], lacking')
  <2>1. lost = {} /\ x \notin tainted BY DEF Refuse
  <2>2. x \in Entry /\ SoFar(c, x, row[x], vault[x], lacking) /\ x \in {e, f} BY <2>1, <1>2
  <2>3. vault'[x].secret = c.before[x].secret
    <3>1. CASE ch = <<>>
      <4>1. vault'[x] = vault[x]
        <5> HIDE DEF Hit, ch
        <5> QED BY <3>1, <2>2, <1>8, <1>11
      <4>2. Written(c, x) = {} BY <3>1 DEF Written
      <4> QED BY <4>1, <4>2, <2>2 DEF SoFar, Secret
    <3>2. ASSUME NEW s \in Maybe, c.secret # None, c.at = 2, ch = <<<<e, s>>>>
          PROVE  vault'[x].secret = c.before[x].secret
      <4>1. CASE x = e
        <5>1. ch[1][2] = s BY <3>2
        <5>2. s = c.before[x].secret BY <5>1, <4>1, <3>2, <2>2 DEF SoFar, Remembers
        <5>3. vault'[x].secret = s
          <6> HIDE DEF Hit, ch
          <6> QED BY <4>1, <3>2, <2>1, <2>2, <1>8, <1>11
        <5> QED BY <5>2, <5>3
      <4>2. CASE x # e
        <5>1. vault'[x] = vault[x]
          <6> HIDE DEF Hit, ch
          <6> QED BY <4>2, <3>2, <2>2, <1>8, <1>11
        <5>2. vault[x].secret = c.before[x].secret BY <4>2, <3>2, <2>2 DEF SoFar
        <5> QED BY <5>1, <5>2
      <4> QED BY <4>1, <4>2
    <3>3. ASSUME NEW s \in Maybe, NEW t \in Maybe, c.secret # None, c.at = 3,
                 ch = <<<<e, s>>, <<f, t>>>>
          PROVE  vault'[x].secret = c.before[x].secret
      <4>1. ch[1][2] = s /\ ch[2][2] = t BY <3>3
      <4>2. (x = e => s = c.before[x].secret) /\ (x = f /\ x # e => t = c.before[x].secret)
        BY <4>1, <3>3, <2>2 DEF SoFar, Remembers
      <4>3. vault'[x].secret = FirstOf(ch, x)
        <5> HIDE DEF Hit, ch
        <5> QED BY <3>3, <2>1, <2>2, <1>8, <1>11
      <4>4. FirstOf(ch, e) = s /\ (f # e => FirstOf(ch, f) = t)
        <5> HIDE DEF Hit, ch
        <5> QED BY <3>3, <1>8
      <4> HIDE DEF ch
      <4> QED BY <4>2, <4>3, <4>4, <2>2
    <3> QED BY <3>1, <3>2, <3>3, <1>9
  <2>4. \A k \in Secret \ {"secret"} : vault'[x][k] = c.before[x][k]
    <3>1. \A k \in Secret \ {"secret"} : k \notin Written(c, x) BY DEF Written
    <3> QED BY <3>1, <2>2, <1>11 DEF SoFar
  <2>5. vault'[x] = c.before[x]
    <3>1. vault'[x] \in EntryState /\ c.before[x] \in EntryState BY <2>2, <1>2, <1>12
    <3> QED BY <3>1, <2>3, <2>4, EntriesEqual
  <2>6. Fits(x, row[x], c.before[x], lacking) BY <2>2 DEF SoFar, RowWritten
  <2> QED BY <2>5, <2>6, <1>6
<1>16. Undone(j) BY <1>15 DEF Undone, NoRowLeft
<1> QED BY <1>14, <1>16

LEMMA RefuseKeeps ==
    ASSUME StoreInv, NEW j \in Command, Running(j), NEW lost, NEW written \in BOOLEAN,
           written => ReadsBack(j) /\ Accepted(j), Refuse(j, lost, written)
    PROVE  StoreInv' /\ Undone(j)
<1> DEFINE d == [NoCall EXCEPT !.at = -1]
<1>1. StoresOK' /\ OnlyTouches(j) /\ Undone(j) BY RefuseOther, RefuseImport
<1>2. job' = [job EXCEPT ![j] = d] BY DEF Refuse
<1>5. LacksMore(j)
  <2>1. lacking \subseteq Entry \X {"secret", "key"} BY DEF StoreInv, CallsOK
  <2>2. lacking' = lacking \/ lacking' = lacking \union ({job[j].e} \X {"secret", "key"})
    BY DEF Refuse
  <2> QED BY <2>1, <2>2, TouchesCall DEF LacksMore
<1>3. LeavesLoose(j, d)
  <2>1. d \in Ended BY DEF Ended
  <2>2. tainted' \in {tainted, tainted \union Touches(j)} BY DEF Refuse
  <2>3. \A x \in Touches(j) \ tainted' : Fits(x, row'[x], vault'[x], lacking') BY <1>1 DEF Undone
  <2> QED BY <2>1, <2>2, <2>3 DEF LeavesLoose
<1>4. StoreInv'
  <2> HIDE DEF d
  <2> QED BY <1>1, <1>2, <1>3, <1>5, OneCallGoes
<1> QED BY <1>1, <1>4

LEMMA HalfForgetKeeps ==
    ASSUME StoreInv, NEW j \in Command, HalfForget(j)
    PROVE  StoreInv' /\ job[j].e \in tainted'
<1> DEFINE c == job[j]
           e == c.e
           d == [NoCall EXCEPT !.at = -1]
<1>0. Running(j) BY DEF HalfForget
<1>1. Called(c) /\ e \in Entry /\ c.cmd \in CommandName /\ c.at \in 1..7 /\ c.at <= Steps(c.cmd)
  BY <1>0, TouchesCall, CallFields DEF Called
<1>2. c.cmd \notin {"duplicate", "import"}
  <2>1. Script(c.cmd)[c.at] = "forget" BY DEF HalfForget, Step
  <2>2. CASE c.cmd = "duplicate" BY <2>1, <2>2, <1>1, Scripts
  <2>3. CASE c.cmd = "import"
    <3>1. c.at \in 1..3 BY <2>3, <1>1, Scripts
    <3> QED BY <2>1, <2>3, <3>1, Scripts
  <2> QED BY <2>2, <2>3
<1>3. Touches(j) = {e} BY <1>0, <1>2, OfOneId
<1>4. "secret" \in Secret /\ None \in Maybe BY DEF Secret, Maybe
<1>5. Writes(e, "secret", None) /\ row' = row BY DEF HalfForget, Writes
<1>6. StoresOK' /\ OnlyTouches(j) BY <1>0, <1>4, <1>5, OneEntryStep
<1>7. tainted' = tainted \union {e} BY DEF HalfForget
<1>8. LeadsOut(j, d)
  <2>1. d \in Ended BY DEF Ended
  <2> QED BY <2>1, <1>3, <1>7 DEF LeadsOut
<1>9. job' = [job EXCEPT ![j] = d] /\ lacking' = lacking BY DEF HalfForget
<1>10. StoreInv'
  <2> HIDE DEF d
  <2> QED BY <1>0, <1>6, <1>8, <1>9, OneCallKeeps
<1> QED BY <1>7, <1>10

(***************************************************************************)
(* A command begins: with entries that fit, unless it meets another one.   *)
(***************************************************************************)
Begins(cmd, e, from, auth, secret, path) ==
    /\ cmd \in CommandName /\ e \in Entry /\ from \in Entry \union {None}
    /\ auth \in Auth \union {None} /\ secret \in Maybe /\ path \in Maybe
    /\ from # None <=> cmd \in {"duplicate", "import"}
    /\ e \in Proxies <=> cmd \in ProxyCommands
    /\ cmd = "import" => from \notin Proxies
    /\ cmd \in {"save", "saveAgent", "duplicate", "options", "proxySave", "proxyPlain", "share", "import"}
         => auth \in Auth
    /\ cmd = "save" => auth # "agent"
    /\ cmd \in {"saveAgent", "proxyPlain"} => auth = "agent"
    /\ cmd \in {"proxySave", "share"} => auth = "password"
    /\ cmd = "duplicate" => /\ e # from /\ row[from] # None /\ secret = None
                            /\ auth = row[from].auth /\ path = row[from].path
    /\ cmd \in {"duplicate", "share"} => row[e] = None
    /\ cmd = "options" => row[e] # None

\* The call as it begins.
Fresh(d, cmd, e, from, auth, secret, path) ==
    /\ Called(d) /\ d.cmd = cmd /\ d.at = 1 /\ d.e = e /\ d.from = from /\ d.auth = auth
    /\ d.secret = secret /\ d.path = path /\ d.changed = <<>> /\ d.before = vault
    /\ d.row = IF from # None THEN row[from] ELSE IF LiveRow(e) THEN row[e] ELSE None

LEMMA FreshCall ==
    ASSUME StoreInv, NEW j \in Command, NEW cmd, NEW e, NEW from, NEW auth, NEW secret, NEW path,
           Begin(j, cmd, e, from, auth, secret, path), Begins(cmd, e, from, auth, secret, path)
    PROVE  \E d : job' = [job EXCEPT ![j] = d] /\ Fresh(d, cmd, e, from, auth, secret, path)
<1> DEFINE r == IF from # None THEN row[from] ELSE IF LiveRow(e) THEN row[e] ELSE None
           rd == Loaded(cmd, e)
           d == [cmd |-> cmd, at |-> 1, e |-> e, from |-> from, auth |-> auth, secret |-> secret,
                 path |-> path, row |-> r, read |-> rd, changed |-> <<>>, before |-> vault]
<1>1. job' = [job EXCEPT ![j] = d] BY DEF Begin
<1>2. vault \in [Entry -> EntryState] /\ row \in [Entry -> Row \union {None}]
  BY DEF StoreInv, StoresOK
<1>3. r \in Row \union {None} /\ rd \in EntryState
  BY <1>2, EntryEmpty DEF Begins, Loaded, LiveRow
<1> HIDE DEF r, rd
<1>5. /\ d.cmd = cmd /\ d.at = 1 /\ d.e = e /\ d.from = from /\ d.auth = auth /\ d.secret = secret
      /\ d.path = path /\ d.row = r /\ d.read = rd /\ d.changed = <<>> /\ d.before = vault
  OBVIOUS
<1>6. <<>> \in Seq(Entry \X Maybe) /\ 1 \in 1..7 OBVIOUS
<1>7. d \in CallState BY <1>2, <1>3, <1>6 DEF CallState, Begins
<1> HIDE DEF d
<1>8. Called(d)
  <2>1. 1 <= Steps(cmd) BY ScriptLengths DEF Begins
  <2>2. d.read = IF cmd \in {"duplicate", "share"} THEN NoEntries ELSE vault[e]
    BY <1>5 DEF rd, Loaded
  <2>3. \A p \in Proxies : NoFiles(vault[p]) BY DEF StoreInv, StoresOK
  <2>4. Listed(d, 1, <<>>) BY DEF Listed
  <2>5. cmd = "duplicate" => r = row[from] BY DEF Begins, r
  <2> QED BY <2>1, <2>2, <2>3, <2>4, <2>5, <1>5, <1>7 DEF Called, Begins
<1>9. Fresh(d, cmd, e, from, auth, secret, path) BY <1>5, <1>8 DEF Fresh, r
<1> QED BY <1>1, <1>9

\* What has not begun has changed nothing.
LEMMA FreshSoFar ==
    ASSUME StoreInv, NEW d, NEW cmd, NEW e, NEW from, NEW auth, NEW secret, NEW path,
           Begins(cmd, e, from, auth, secret, path), Fresh(d, cmd, e, from, auth, secret, path),
           NEW x \in {e, from} \ {None}, Fits(x, row[x], vault[x], lacking),
           NEW imp, lacking \subseteq imp, cmd = "import" => <<x, "key">> \in imp,
           cmd = "duplicate" /\ <<from, "key">> \in imp => <<e, "key">> \in imp
    PROVE  SoFar(d, x, row[x], vault[x], imp)
<1>1. Fits(x, row[x], vault[x], imp) BY FitsMore
<1>2. d.at = 1 /\ d.cmd = cmd /\ d.e = e /\ d.from = from /\ d.before = vault BY DEF Fresh
<1>3. ~RowWritten(d, x) BY <1>2 DEF RowWritten
<1>4. \A k \in Secret : vault[x][k] = d.before[x][k] BY <1>2
<1>5. d.cmd = "save" /\ d.row # None => row[x] # None /\ SameRow(row[x], d.row)
  BY <1>2 DEF Fresh, Begins, SameRow, LiveRow
<1>6. d.cmd = "options" => row[x] # None BY <1>2 DEF Begins
<1>7. d.cmd = "share" => row[x] = None /\ d.before[x] = NoEntries
  BY <1>2 DEF Begins, Fits
<1>8. d.cmd = "duplicate" /\ x = d.from => row[x] # None /\ SameRow(row[x], d.row)
  BY <1>2 DEF Fresh, Begins, SameRow
<1>9. d.cmd = "duplicate" /\ x = d.e => row[x] = None /\ d.before[x] = NoEntries
  BY <1>2 DEF Begins, Fits
<1>10. Remembers(d, x) BY <1>2 DEF Remembers
<1> QED BY <1>1, <1>2, <1>3, <1>4, <1>5, <1>6, <1>7, <1>8, <1>9, <1>10 DEF SoFar

LEMMA BeginKeeps ==
    ASSUME StoreInv, NEW j \in Command, NEW cmd, NEW e, NEW from, NEW auth, NEW secret, NEW path,
           Begin(j, cmd, e, from, auth, secret, path), Begins(cmd, e, from, auth, secret, path)
    PROVE  StoreInv'
<1> DEFINE touched == {e, from} \ {None}
<1>1. PICK d : job' = [job EXCEPT ![j] = d] /\ Fresh(d, cmd, e, from, auth, secret, path)
  BY FreshCall
<1>2. /\ job \in [Command -> CallState \union Ended] /\ tainted \subseteq Entry
      /\ lacking \subseteq Entry \X {"secret", "key"}
  BY DEF StoreInv, CallsOK
<1>3. /\ d \in CallState /\ Called(d) /\ d.cmd = cmd /\ d.e = e /\ d.from = from
      /\ touched \subseteq Entry /\ e \in touched
  BY <1>1, EntryAssumption DEF Fresh, Called, Begins
<1>4. row' = row /\ vault' = vault /\ ~Running(j) BY DEF Begin
<1>5. /\ \A i \in Command : job'[i] = IF i = j THEN d ELSE job[i]
      /\ job' \in [Command -> CallState \union Ended]
  BY <1>1, <1>2, <1>3
<1>6. /\ \A i \in Command : i # j => (Running(i)' <=> Running(i)) /\ Touches(i)' = Touches(i)
      /\ Running(j)' /\ Touches(j)' = touched
  BY <1>3, <1>5, RunningOrEnded DEF Running, Touches
<1>7. \A i \in Command : Running(i) => Touches(i) \subseteq Entry BY TouchesCall
<1>8. /\ tainted \subseteq tainted' /\ tainted' \subseteq Entry
      /\ \A i \in Command : Running(i) /\ Touches(i) \intersect touched # {} =>
           Touches(i) \subseteq tainted' /\ touched \subseteq tainted'
      /\ cmd = "duplicate" /\ from \in tainted => e \in tainted'
      /\ \A x \in tainted' \ tainted :
           \/ cmd = "duplicate" /\ from \in tainted /\ x = e
           \/ \E i \in Command : /\ Running(i) /\ Touches(i) \intersect touched # {}
                                 /\ x \in Touches(i) \union touched
  <2> DEFINE met == {i \in Command : Running(i) /\ Touches(i) \intersect touched # {}}
  <2> DEFINE U == UNION {Touches(i) \union touched : i \in met}
  <2>1. tainted' = tainted \union U \union (IF cmd = "duplicate" /\ from \in tainted THEN {e} ELSE {})
    BY DEF Begin
  <2> HIDE DEF touched
  <2>7. \A x : x \in U <=> \E i \in met : x \in Touches(i) \union touched
    <3> HIDE DEF met
    <3> QED OBVIOUS
  <2>2. \A x : x \in tainted' <=>
          \/ x \in tainted
          \/ \E i \in met : x \in Touches(i) \union touched
          \/ cmd = "duplicate" /\ from \in tainted /\ x = e
    <3> HIDE DEF U, met
    <3> QED BY <2>1, <2>7
  <2> HIDE DEF U
  <2>3. \A i \in met : Touches(i) \subseteq Entry BY <1>7
  <2>4. tainted' \subseteq Entry BY <2>2, <2>3, <1>2, <1>3
  <2>5. \A i \in Command : Running(i) /\ Touches(i) \intersect touched # {} =>
          Touches(i) \subseteq tainted' /\ touched \subseteq tainted'
    BY <2>2
  <2>6. \A x \in tainted' \ tainted :
          \/ cmd = "duplicate" /\ from \in tainted /\ x = e
          \/ \E i \in Command : /\ Running(i) /\ Touches(i) \intersect touched # {}
                                /\ x \in Touches(i) \union touched
    BY <2>2
  <2> QED BY <2>2, <2>4, <2>5, <2>6
<1>9. /\ lacking \subseteq lacking' /\ lacking' \subseteq Entry \X {"secret", "key"}
      /\ \A x, k : <<x, k>> \in lacking' \ lacking => x \in touched
      /\ cmd = "import" => \A x \in touched : <<x, "key">> \in lacking'
      /\ cmd = "duplicate" /\ <<from, "key">> \in lacking' => <<e, "key">> \in lacking'
  <2>2. cmd = "import" => from # None /\ from \in Entry BY DEF Begins
  <2>3. cmd = "duplicate" => e # from BY DEF Begins
  <2>4. CASE cmd = "import"
    <3>1. lacking' = lacking \union {<<e, "key">>, <<from, "key">>} BY <2>4 DEF Begin
    <3> QED BY <3>1, <2>2, <2>4, <1>2, <1>3
  <2>5. CASE cmd = "duplicate" /\ <<from, "key">> \in lacking
    <3>1. lacking' = lacking \union {<<e, "key">>} BY <2>5 DEF Begin
    <3> QED BY <3>1, <2>5, <1>2, <1>3
  <2>6. CASE cmd # "import" /\ ~(cmd = "duplicate" /\ <<from, "key">> \in lacking)
    <3>1. lacking' = lacking BY <2>6 DEF Begin
    <3> QED BY <3>1, <2>6, <1>2
  <2> QED BY <2>4, <2>5, <2>6
<1> HIDE DEF touched
<1>10. StoresOK' BY <1>4 DEF StoreInv, StoresOK
<1>11. CallsOK'
  <2>1. ASSUME NEW i \in Command, Running(i)' PROVE Called(job'[i])
    BY <2>1, <1>3, <1>5, <1>6 DEF StoreInv, CallsOK
  <2>2. \A i \in Command : Running(i)' => Called(job[i])'
    BY <2>1 DEF Called, CallState, Maybe, NoEntries
  <2> QED BY <2>2, <1>5, <1>8, <1>9 DEF CallsOK
<1>12. CallsApart'
  <2>1. ASSUME NEW i \in Command, NEW k \in Command, i # k, Running(i)', Running(k)',
               Touches(i)' \intersect Touches(k)' # {}
        PROVE  Touches(i)' \subseteq tainted'
    <3>1. CASE i = j BY <2>1, <3>1, <1>6, <1>8
    <3>2. CASE k = j BY <2>1, <3>2, <1>6, <1>8
    <3>3. CASE i # j /\ k # j BY <2>1, <3>3, <1>6, <1>8 DEF StoreInv, CallsApart
    <3> QED BY <3>1, <3>2, <3>3
  <2>2. ASSUME NEW i \in Command, job'[i].cmd = "duplicate", job'[i].from \in tainted'
        PROVE  job'[i].e \in tainted'
    <3>1. Running(i)' BY <2>2, EntryAssumption DEF Running, CommandName
    <3>2. CASE i = j
      <4>1. cmd = "duplicate" /\ from \in tainted' /\ job'[i].e = e BY <2>2, <3>2, <1>3, <1>5
      <4>2. from \in touched BY <4>1 DEF touched, Begins
      <4>3. CASE from \in tainted BY <4>1, <4>3, <1>8
      <4>4. CASE from \notin tainted BY <4>1, <4>4, <1>3, <1>8
      <4> QED BY <4>3, <4>4
    <3>3. CASE i # j
      <4>1. Running(i) /\ job'[i] = job[i] BY <3>1, <3>3, <1>5, <1>6
      <4>2. job[i].e \in Touches(i) /\ job[i].from \in Touches(i)
        <5>1. job[i].from # None BY <4>1, <2>2, TouchesCall DEF Called
        <5> QED BY <4>1, <5>1, TouchesCall
      <4>3. CASE job[i].from \in tainted
        BY <4>1, <4>3, <2>2, <1>8 DEF StoreInv, CallsApart
      <4>4. CASE Touches(i) \intersect touched # {} BY <4>1, <4>2, <4>4, <1>8
      <4>5. CASE job[i].from \notin tainted /\ Touches(i) \intersect touched = {}
        <5>1. job[i].from \notin touched /\ job[i].from # e BY <4>2, <4>5, <1>3
        <5>2. PICK m \in Command : Running(m) /\ Touches(m) \intersect touched # {}
                                   /\ job[i].from \in Touches(m)
          BY <5>1, <4>1, <4>5, <2>2, <1>8
        <5>3. m # i BY <5>2, <4>5
        <5>4. Touches(i) \subseteq tainted
          BY <5>2, <5>3, <4>1, <4>2 DEF StoreInv, CallsApart
        <5> QED BY <5>4, <4>2, <4>5
      <4> QED BY <4>3, <4>4, <4>5
    <3> QED BY <3>2, <3>3
  <2> QED BY <2>1, <2>2 DEF CallsApart
<1>13. ASSUME NEW x \in Entry, x \notin tainted' PROVE EntryOK(x)'
  <2>1. x \notin tainted /\ EntryOK(x) BY <1>8, <1>13 DEF StoreInv
  <2>2. Free(x)' => Fits(x, row'[x], vault'[x], lacking')
    <3>1. Free(x)' => Free(x) BY <1>4, <1>6 DEF Free
    <3>2. Free(x) => Fits(x, row[x], vault[x], lacking) BY <2>1 DEF EntryOK
    <3> QED BY <3>1, <3>2, <1>4, <1>9, FitsMore
  <2>3. ASSUME NEW i \in Command, Running(i)', x \in Touches(i)'
        PROVE  SoFar(job'[i], x, row'[x], vault'[x], lacking')
    <3>1. CASE i = j
      <4>1. x \in touched BY <2>3, <3>1, <1>6
      <4>2. Free(x)
        <5>1. ASSUME NEW k \in Command, Running(k), x \in Touches(k) PROVE FALSE
          BY <5>1, <4>1, <1>8, <1>13
        <5> QED BY <5>1 DEF Free
      <4>3. Fits(x, row[x], vault[x], lacking) BY <4>2, <2>1 DEF EntryOK
      <4>4. SoFar(d, x, row[x], vault[x], lacking')
        BY <4>1, <4>3, <1>1, <1>9, FreshSoFar DEF touched
      <4> QED BY <4>4, <3>1, <1>4, <1>5
    <3>2. CASE i # j
      <4>1. Running(i) /\ x \in Touches(i) /\ job'[i] = job[i] BY <2>3, <3>2, <1>5, <1>6
      <4>2. SoFar(job[i], x, row[x], vault[x], lacking) BY <4>1, <2>1 DEF EntryOK
      <4>3. ASSUME job[i].cmd = "duplicate", <<job[i].from, "key">> \in lacking'
            PROVE  <<job[i].from, "key">> \in lacking
        <5>1. job[i].from \in Touches(i)
          <6>1. job[i].from # None BY <4>1, <4>3, TouchesCall DEF Called
          <6> QED BY <4>1, <6>1, TouchesCall
        <5>2. job[i].from \notin touched BY <5>1, <4>1, <1>8, <1>13
        <5> QED BY <5>2, <4>3, <1>9
      <4>4. SoFar(job[i], x, row[x], vault[x], lacking') BY <4>2, <4>3, <1>9, SoFarMore
      <4> QED BY <4>1, <4>4, <1>4
    <3> QED BY <3>1, <3>2
  <2>4. ASSUME NEW i \in Command, Running(i)', x \in Touches(i)'
        PROVE  SoFar(job[i], x, row[x], vault[x], lacking)'
    BY <2>3, <2>4
    DEF SoFar, RowWritten, Fits, Written, NewSecret, NewKey, KeptKey, SameRow, Remembers, NoEntries
  <2>5. (Free(x) => Fits(x, row[x], vault[x], lacking))' BY <2>2 DEF Fits, NoEntries
  <2> QED BY <2>4, <2>5 DEF EntryOK
<1> QED BY <1>10, <1>11, <1>12, <1>13 DEF StoreInv, EntryOK

(***************************************************************************)
(* A connection is deleted, or restored, which no command notices.         *)
(***************************************************************************)
LEMMA SameFits ==
    ASSUME NEW x, NEW r, NEW old, SameRow(r, old), NEW v, NEW imp, Fits(x, old, v, imp)
    PROVE  Fits(x, r, v, imp)
BY DEF Fits, SameRow

LEMMA SameSoFar ==
    ASSUME NEW c, NEW x, NEW r, NEW old, SameRow(r, old), NEW v, NEW imp, SoFar(c, x, old, v, imp)
    PROVE  SoFar(c, x, r, v, imp)
<1>1. ~RowWritten(c, x) => Fits(x, r, c.before[x], imp) BY SameFits DEF SoFar
<1>2. \A was : old # None /\ SameRow(old, was) => r # None /\ SameRow(r, was) BY DEF SameRow
<1>3. r = None <=> old = None BY DEF SameRow
<1>4. old # None => r.auth = old.auth /\ r.path = old.path /\ r.ref = old.ref BY DEF SameRow
<1> QED BY <1>1, <1>2, <1>3, <1>4 DEF SoFar

LEMMA FlagKeeps ==
    ASSUME StoreInv, NEW j \in Command, ~Running(j), NEW e \in Entry \ Proxies, row[e] # None,
           NEW flag \in BOOLEAN, row' = [row EXCEPT ![e].deleted = flag],
           job' = [job EXCEPT ![j] = NoCall],
           vault' = vault, lacking' = lacking, tainted' = tainted
    PROVE  StoreInv'
<1>1. row \in [Entry -> Row \union {None}] /\ row[e] \in Row BY DEF StoreInv, StoresOK
<1> DEFINE r == [row[e] EXCEPT !.deleted = flag]
<1>2. r \in Row /\ r.auth = row[e].auth /\ r.path = row[e].path /\ r.ref = row[e].ref
  BY <1>1 DEF Row
<1>3. row' = [row EXCEPT ![e] = r] BY <1>1
<1> HIDE DEF r
<1>4. /\ row' \in [Entry -> Row \union {None}] /\ row'[e] = r
      /\ \A x \in Entry \ {e} : row'[x] = row[x]
  BY <1>1, <1>2, <1>3
<1>5. \A x \in Entry : SameRow(row'[x], row[x])
  BY <1>1, <1>2, <1>4, EntryAssumption DEF SameRow
<1>6. StoresOK' BY <1>4, EntryAssumption DEF StoreInv, StoresOK
<1>7. /\ \A i \in Command : job'[i] = IF i = j THEN NoCall ELSE job[i]
      /\ job' \in [Command -> CallState \union Ended]
  BY DEF StoreInv, CallsOK, Ended
<1>8. \A i \in Command :
        /\ Running(i)' => Running(i) /\ i # j /\ job'[i] = job[i]
        /\ Running(i) => Running(i)'
        /\ Running(i) => Touches(i)' = Touches(i)
  BY <1>7, RunningOrEnded DEF Running, Touches
<1>9. CallsOK'
  <2>1. ASSUME NEW i \in Command, Running(i)' PROVE Called(job'[i])
    BY <2>1, <1>8 DEF StoreInv, CallsOK
  <2>2. \A i \in Command : Running(i)' => Called(job[i])'
    BY <2>1 DEF Called, CallState, Maybe, NoEntries
  <2> QED BY <2>2, <1>7 DEF CallsOK, StoreInv
<1>10. CallsApart'
  <2>1. ASSUME NEW i \in Command, NEW k \in Command, i # k, Running(i)', Running(k)',
               Touches(i)' \intersect Touches(k)' # {}
        PROVE  Touches(i)' \subseteq tainted'
    BY <2>1, <1>8 DEF StoreInv, CallsApart
  <2>2. ASSUME NEW i \in Command, job'[i].cmd = "duplicate", job'[i].from \in tainted'
        PROVE  job'[i].e \in tainted'
    <3>1. Running(i)' BY <2>2, EntryAssumption DEF Running, CommandName
    <3> QED BY <3>1, <2>2, <1>8 DEF StoreInv, CallsApart
  <2> QED BY <2>1, <2>2 DEF CallsApart
<1>11. ASSUME NEW x \in Entry, x \notin tainted' PROVE EntryOK(x)'
  <2>1. EntryOK(x) BY DEF StoreInv
  <2>2. Free(x)' => Fits(x, row'[x], vault'[x], lacking')
    <3>1. Free(x)' => Free(x) BY <1>8 DEF Free
    <3> QED BY <3>1, <2>1, <1>5, <1>11, SameFits DEF EntryOK
  <2>3. ASSUME NEW i \in Command, Running(i)', x \in Touches(i)'
        PROVE  SoFar(job'[i], x, row'[x], vault'[x], lacking')
    <3>1. Running(i) /\ x \in Touches(i) /\ job'[i] = job[i] BY <2>3, <1>8
    <3>2. SoFar(job[i], x, row[x], vault[x], lacking) BY <3>1, <2>1, <1>11 DEF EntryOK
    <3>3. SoFar(job[i], x, row'[x], vault[x], lacking) BY <3>2, <1>5, SameSoFar
    <3> QED BY <3>1, <3>3
  <2>4. ASSUME NEW i \in Command, Running(i)', x \in Touches(i)'
        PROVE  SoFar(job[i], x, row[x], vault[x], lacking)'
    BY <2>3, <2>4
    DEF SoFar, RowWritten, Fits, Written, NewSecret, NewKey, KeptKey, SameRow, Remembers, NoEntries
  <2>5. (Free(x) => Fits(x, row[x], vault[x], lacking))' BY <2>2 DEF Fits, NoEntries
  <2> QED BY <2>4, <2>5 DEF EntryOK
<1> QED BY <1>6, <1>9, <1>10, <1>11 DEF StoreInv, EntryOK

(***************************************************************************)
(* The commands, as the window calls them.                                 *)
(***************************************************************************)
LEMMA CallKeeps ==
    ASSUME StoreInv, NEW j \in Command,
           \/ Save(j) \/ Duplicate(j) \/ Purge(j) \/ SaveOptions(j) \/ SaveProxyRow(j)
           \/ DeleteProxy(j) \/ ApplyShare(j) \/ Import(j)
    PROVE  StoreInv'
<1>1. row \in [Entry -> Row \union {None}] /\ \A p \in Proxies : PlainRow(row[p])
  BY DEF StoreInv, StoresOK
<1>2. /\ None \in Maybe /\ Value \subseteq Maybe /\ Value \union {None} = Maybe
      /\ None \notin Entry /\ Proxies \subseteq Entry
      /\ "password" \in Auth /\ "agent" \in Auth /\ "key" \in Auth /\ "rdp" \in Auth
  BY EntryAssumption DEF Maybe, Auth
<1>3. ASSUME Save(j) PROVE StoreInv'
  <2>1. PICK e \in Entry \ Proxies, auth \in Auth, secret \in Value \union {None}, path \in Value :
          /\ auth = "agent" => secret = None
          /\ Begin(j, IF auth = "agent" THEN "saveAgent" ELSE "save", e, None, auth, secret,
                   IF auth \in {"key", "certificate"} THEN path ELSE None)
    BY <1>3 DEF Save
  <2>2. Begins(IF auth = "agent" THEN "saveAgent" ELSE "save", e, None, auth, secret,
               IF auth \in {"key", "certificate"} THEN path ELSE None)
    BY <1>2, <2>1 DEF Begins, CommandName, ProxyCommands
  <2> QED BY <2>1, <2>2, BeginKeeps
<1>4. ASSUME Duplicate(j) PROVE StoreInv'
  <2>1. PICK e \in Entry \ Proxies, from \in Entry \ Proxies :
          /\ LiveRow(from) /\ e # from /\ row[e] = None
          /\ Begin(j, "duplicate", e, from, row[from].auth, None, row[from].path)
    BY <1>4 DEF Duplicate
  <2>2. row[from] \in Row BY <2>1, <1>1 DEF LiveRow
  <2>3. row[from].auth \in Auth /\ row[from].path \in Maybe /\ row[from] # None
    BY <2>2, RowFields, EntryAssumption
  <2>4. Begins("duplicate", e, from, row[from].auth, None, row[from].path)
    BY <1>2, <2>1, <2>3 DEF Begins, CommandName, ProxyCommands
  <2> QED BY <2>1, <2>4, BeginKeeps
<1>5. ASSUME Purge(j) PROVE StoreInv'
  <2>1. PICK e \in Entry \ Proxies : Begin(j, "purge", e, None, None, None, None)
    BY <1>5 DEF Purge
  <2>2. Begins("purge", e, None, None, None, None)
    BY <1>2, <2>1 DEF Begins, CommandName, ProxyCommands
  <2> QED BY <2>1, <2>2, BeginKeeps
<1>6. ASSUME SaveOptions(j) PROVE StoreInv'
  <2>1. PICK e \in Entry, path \in Value \union {None} :
          /\ LiveRow(e) /\ row[e].auth = "rdp"
          /\ Begin(j, "options", e, None, "rdp", None, path)
    BY <1>6 DEF SaveOptions
  <2>2. e \notin Proxies /\ row[e] # None BY <2>1, <1>1 DEF PlainRow, LiveRow
  <2>3. Begins("options", e, None, "rdp", None, path)
    BY <1>2, <2>1, <2>2 DEF Begins, CommandName, ProxyCommands
  <2> QED BY <2>1, <2>3, BeginKeeps
<1>7. ASSUME SaveProxyRow(j) PROVE StoreInv'
  <2>1. PICK e \in Proxies, secret \in Value \union {None} :
          \/ Begin(j, "proxySave", e, None, "password", secret, None)
          \/ secret = None /\ Begin(j, "proxyPlain", e, None, "agent", None, None)
    BY <1>7 DEF SaveProxyRow
  <2>2. /\ Begins("proxySave", e, None, "password", secret, None)
        /\ Begins("proxyPlain", e, None, "agent", None, None)
    BY <1>2, <2>1 DEF Begins, CommandName, ProxyCommands
  <2> QED BY <2>1, <2>2, BeginKeeps
<1>8. ASSUME DeleteProxy(j) PROVE StoreInv'
  <2>1. PICK e \in Proxies : Begin(j, "proxyDelete", e, None, None, None, None)
    BY <1>8 DEF DeleteProxy
  <2>2. Begins("proxyDelete", e, None, None, None, None)
    BY <1>2, <2>1 DEF Begins, CommandName, ProxyCommands
  <2> QED BY <2>1, <2>2, BeginKeeps
<1>9. ASSUME ApplyShare(j) PROVE StoreInv'
  <2>1. PICK e \in Entry \ Proxies, secret \in Value \union {None} :
          row[e] = None /\ Begin(j, "share", e, None, "password", secret, None)
    BY <1>9 DEF ApplyShare
  <2>2. Begins("share", e, None, "password", secret, None)
    BY <1>2, <2>1 DEF Begins, CommandName, ProxyCommands
  <2> QED BY <2>1, <2>2, BeginKeeps
<1>10. ASSUME Import(j) PROVE StoreInv'
  <2>1. PICK e \in Entry \ Proxies, from \in Entry \ Proxies, auth \in {"password", "key"},
             secret \in Value \union {None}, path \in Value :
          Begin(j, "import", e, from, auth, secret, IF auth = "key" THEN path ELSE None)
    BY <1>10 DEF Import
  <2>2. Begins("import", e, from, auth, secret, IF auth = "key" THEN path ELSE None)
    BY <1>2, <2>1 DEF Begins, CommandName, ProxyCommands
  <2> QED BY <2>1, <2>2, BeginKeeps
<1> QED BY <1>3, <1>4, <1>5, <1>6, <1>7, <1>8, <1>9, <1>10

(***************************************************************************)
(* Theorems.                                                               *)
(***************************************************************************)
LEMMA StoreStart == StoreInit => StoreInv
<1> SUFFICES ASSUME StoreInit PROVE StoreInv OBVIOUS
<1>1. \A x \in Entry : row[x] = None /\ vault[x] = NoEntries BY DEF StoreInit
<1>2. \A j \in Command : job[j] = NoCall /\ ~Running(j) BY RunningOrEnded DEF StoreInit, Running
<1>3. StoresOK
  BY <1>1, EntryEmpty, EntryAssumption DEF StoreInit, StoresOK, PlainRow, NoFiles
<1>4. CallsOK BY <1>2 DEF StoreInit, CallsOK, Ended
<1>5. CallsApart BY <1>2 DEF StoreInit, CallsApart
<1>6. \A x \in Entry : EntryOK(x) BY <1>1, <1>2 DEF EntryOK, Fits
<1> QED BY <1>3, <1>4, <1>5, <1>6 DEF StoreInv

LEMMA StoreStep ==
    ASSUME StoreInv, [StoreNext]_storeVars
    PROVE  StoreInv'
<1>1. ASSUME NEW j \in Command, GoOn(j) PROVE StoreInv' BY <1>1, GoOnKeeps
<1>2. ASSUME NEW j \in Command, RefuseStep(j) PROVE StoreInv'
  <2>1. PICK lost \in {{}} \union {{k} : k \in Secret \union {"row"}}, written \in BOOLEAN :
          (written => ReadsBack(j) /\ Accepted(j)) /\ Refuse(j, lost, written)
    BY <1>2 DEF RefuseStep
  <2> QED BY <2>1, <1>2, RefuseKeeps DEF RefuseStep
<1>3. ASSUME NEW j \in Command, ProxyInUse(j) PROVE StoreInv'
  BY <1>3, RefuseKeeps DEF ProxyInUse
<1>4. ASSUME NEW j \in Command, HalfForget(j) PROVE StoreInv' BY <1>4, HalfForgetKeeps
<1>5. ASSUME NEW j \in Command, Delete(j) PROVE StoreInv'
  <2>1. PICK e \in Entry \ Proxies :
          /\ ~Running(j) /\ row[e] # None /\ row' = [row EXCEPT ![e].deleted = TRUE]
          /\ job' = [job EXCEPT ![j] = NoCall]
          /\ vault' = vault /\ lacking' = lacking /\ tainted' = tainted
    BY <1>5 DEF Delete
  <2> QED BY <2>1, FlagKeeps
<1>6. ASSUME NEW j \in Command, Restore(j) PROVE StoreInv'
  <2>1. PICK e \in Entry \ Proxies :
          /\ ~Running(j) /\ row[e] # None /\ row' = [row EXCEPT ![e].deleted = FALSE]
          /\ job' = [job EXCEPT ![j] = NoCall]
          /\ vault' = vault /\ lacking' = lacking /\ tainted' = tainted
    BY <1>6 DEF Restore
  <2> QED BY <2>1, FlagKeeps
<1>7. CASE UNCHANGED storeVars
  <2>1. /\ row' = row /\ vault' = vault /\ job' = job /\ lacking' = lacking
        /\ tainted' = tainted
    BY <1>7 DEF storeVars
  <2>2. \A i \in Command : Running(i)' = Running(i) /\ Touches(i)' = Touches(i)
    BY <2>1 DEF Running, Touches
  <2>3. \A i \in Command : Called(job[i]) => Called(job[i])'
    BY <2>1 DEF Called, CallState, Maybe, NoEntries
  <2>4. StoresOK' BY <2>1 DEF StoreInv, StoresOK
  <2>5. CallsOK' BY <2>1, <2>2, <2>3 DEF StoreInv, CallsOK
  <2>6. CallsApart' BY <2>1, <2>2 DEF StoreInv, CallsApart
  <2>7. ASSUME NEW x \in Entry PROVE EntryOK(x)'
    <3>1. EntryOK(x) BY DEF StoreInv
    <3>2. Free(x)' = Free(x) BY <2>2 DEF Free
    <3>3. (Fits(x, row[x], vault[x], lacking))' = Fits(x, row[x], vault[x], lacking)
      BY <2>1 DEF Fits, NoEntries
    <3>4. \A i \in Command : SoFar(job[i], x, row[x], vault[x], lacking) =>
                             (SoFar(job[i], x, row[x], vault[x], lacking))'
      BY <2>1
      DEF SoFar, RowWritten, Fits, Written, NewSecret, NewKey, KeptKey, SameRow, Remembers, NoEntries
    <3> QED BY <3>1, <3>2, <3>3, <3>4, <2>1, <2>2 DEF EntryOK
  <2> QED BY <2>4, <2>5, <2>6, <2>7 DEF StoreInv, EntryOK
<1> QED BY <1>1, <1>2, <1>3, <1>4, <1>5, <1>6, <1>7, CallKeeps DEF StoreNext

\* What every command has done so far is known of every id that no two of them share.
THEOREM StoreInvHolds == StoreSpec => []StoreInv
<1>1. StoreInv /\ [StoreNext]_storeVars => StoreInv' BY StoreStep
<1> QED BY <1>1, StoreStart, PTL DEF StoreSpec

\* Between commands a row and the entries of the credential store agree, however commands
\* ended.
THEOREM StoresAgreeHolds == StoreSpec => []StoresAgree
<1>1. StoreInv => StoresAgree BY DEF StoreInv, EntryOK, Free, Fits, StoresAgree
<1> QED BY <1>1, StoreInvHolds, PTL

\* A command that fails leaves the entries of its ids as it found them, and a copy no row.
THEOREM FailedCommandUndoesHolds == StoreSpec => FailedCommandUndoes
<1> DEFINE Undoing ==
             \A j \in Command :
               ~Failed(j) /\ Failed(j)' /\ Touches(j) \intersect tainted' = {} =>
                 /\ \A e \in Touches(j) : vault'[e] = job[j].before[e]
                 /\ job[j].cmd \in {"duplicate", "share"} =>
                      \/ row'[job[j].e] = None
                      \/ Step(j) = "insert" /\ <<job[j].e, "secret">> \in lacking'
<1>1. ASSUME StoreInv, [StoreNext]_storeVars, NEW j \in Command, ~Failed(j), Failed(j)',
             Touches(j) \intersect tainted' = {}
      PROVE  (\A e \in Touches(j) : vault'[e] = job[j].before[e]) /\ NoRowLeft(j)
  <2>1. job \in [Command -> CallState \union Ended] BY <1>1 DEF StoreInv, CallsOK
  <2>2. /\ NoCall.at # -1
        /\ \A n \in 1..8 : n # -1
    BY DEF NoCall
  <2>3. ~UNCHANGED storeVars BY <1>1 DEF Failed, storeVars
  <2>4. PICK i \in Command :
          \/ Save(i) \/ Duplicate(i) \/ Purge(i) \/ SaveOptions(i) \/ SaveProxyRow(i)
          \/ DeleteProxy(i) \/ ApplyShare(i) \/ Import(i) \/ Delete(i) \/ Restore(i)
          \/ GoOn(i) \/ RefuseStep(i) \/ ProxyInUse(i) \/ HalfForget(i)
    BY <1>1, <2>3 DEF StoreNext
  <2>5. i = j
    <3>1. \E d : job' = [job EXCEPT ![i] = d]
      <4>1. ASSUME NEW cmd, NEW e, NEW from, NEW auth, NEW secret, NEW path,
                   Begin(i, cmd, e, from, auth, secret, path)
            PROVE  \E d : job' = [job EXCEPT ![i] = d]
        BY <4>1 DEF Begin
      <4>2. CASE \/ Save(i) \/ Duplicate(i) \/ Purge(i) \/ SaveOptions(i) \/ SaveProxyRow(i)
                 \/ DeleteProxy(i) \/ ApplyShare(i) \/ Import(i)
        BY <4>1, <4>2
        DEF Save, Duplicate, Purge, SaveOptions, SaveProxyRow, DeleteProxy, ApplyShare, Import
      <4>3. CASE Delete(i) \/ Restore(i) BY <4>3 DEF Delete, Restore
      <4>4. CASE GoOn(i) BY <4>4 DEF GoOn
      <4>5. CASE RefuseStep(i) \/ ProxyInUse(i) BY <4>5 DEF RefuseStep, ProxyInUse, Refuse
      <4>6. CASE HalfForget(i) BY <4>6 DEF HalfForget
      <4> QED BY <4>2, <4>3, <4>4, <4>5, <4>6, <2>4
    <3> QED BY <3>1, <2>1, <1>1 DEF Failed
  <2>6. ASSUME NEW lost, NEW written \in BOOLEAN, Running(j), Refuse(j, lost, written),
               written => ReadsBack(j) /\ Accepted(j)
        PROVE  (\A e \in Touches(j) : vault'[e] = job[j].before[e]) /\ NoRowLeft(j)
    <3>1. Undone(j) /\ job[j].e \in Touches(j) BY <1>1, <2>6, RefuseKeeps, TouchesCall
    <3> QED BY <3>1, <1>1 DEF Undone
  <2>7. CASE RefuseStep(j) \/ ProxyInUse(j) BY <2>6, <2>7 DEF RefuseStep, ProxyInUse
  <2>8. CASE HalfForget(j)
    <3>1. job[j].e \in tainted' /\ job[j].e \in Touches(j)
      BY <2>8, <1>1, HalfForgetKeeps, TouchesCall DEF HalfForget
    <3> QED BY <3>1, <1>1
  <2>9. CASE GoOn(j)
    <3>1. Running(j) /\ job[j] \in CallState BY <2>9, <1>1, TouchesCall DEF GoOn
    <3>2. job[j].at \in 1..7 /\ NextStep(j) \in 1..8
      <4>1. job[j].at \in 1..7 BY <3>1, CallFields
      <4>2. NextStep(j) \in {8, job[j].at + 1} 
        <5>1. Steps("duplicate") + 1 = 8 BY Scripts
        <5>2. NextStep(j) \in {Steps("duplicate") + 1, job[j].at + 1} BY DEF NextStep, Steps
        <5> QED BY <5>1, <5>2
      <4>3. \A n \in 1..7 : n + 1 \in 1..8 OBVIOUS
      <4> QED BY <4>1, <4>2, <4>3
    <3>3. job'[j].at \in {0, NextStep(j)}
      BY <2>9, <2>1, <3>1 DEF GoOn, NoCall, CallState
    <3>4. \A n \in 1..8 : n # -1 /\ 0 # -1 OBVIOUS
    <3> QED BY <3>2, <3>3, <3>4, <1>1 DEF Failed
  <2>10. CASE Delete(j) \/ Restore(j)
    BY <2>10, <2>1, <2>2, <1>1 DEF Delete, Restore, Failed
  <2>11. CASE Save(j) \/ Duplicate(j) \/ Purge(j) \/ SaveOptions(j) \/ SaveProxyRow(j)
                \/ DeleteProxy(j) \/ ApplyShare(j) \/ Import(j)
    <3>1. job'[j].at = 1
      <4>1. ASSUME NEW cmd, NEW e, NEW from, NEW auth, NEW secret, NEW path,
                   Begin(j, cmd, e, from, auth, secret, path)
            PROVE  job'[j].at = 1
        BY <4>1, <2>1 DEF Begin
      <4> QED
        BY <4>1, <2>11
        DEF Save, Duplicate, Purge, SaveOptions, SaveProxyRow, DeleteProxy, ApplyShare, Import
    <3> QED BY <3>1, <2>2, <1>1 DEF Failed
  <2> QED BY <2>4, <2>5, <2>7, <2>8, <2>9, <2>10, <2>11
<1>2. StoreInv /\ [StoreNext]_storeVars => [Undoing]_storeVars BY <1>1 DEF NoRowLeft
<1> HIDE DEF Undoing
<1>3. StoreSpec => [][Undoing]_storeVars BY <1>2, StoreInvHolds, PTL DEF StoreSpec
<1> QED BY <1>3 DEF FailedCommandUndoes, Undoing

LEMMA StoreBounds == StoreSpec => [](calls \in 0..MaxCalls /\ faults \in 0..MaxFaults)
<1> DEFINE B == calls \in 0..MaxCalls /\ faults \in 0..MaxFaults
<1>1. StoreInit => B BY EntryAssumption DEF StoreInit
<1>2. ASSUME B, [StoreNext]_storeVars PROVE B'
  <2>1. ASSUME NEW j \in Command, NEW cmd, NEW e, NEW from, NEW auth, NEW secret, NEW path,
               Begin(j, cmd, e, from, auth, secret, path)
        PROVE  B'
    BY <2>1, <1>2, EntryAssumption DEF Begin
  <2>2. ASSUME NEW j \in Command,
               \/ Save(j) \/ Duplicate(j) \/ Purge(j) \/ SaveOptions(j) \/ SaveProxyRow(j)
               \/ DeleteProxy(j) \/ ApplyShare(j) \/ Import(j)
        PROVE  B'
    BY <2>1, <2>2
    DEF Save, Duplicate, Purge, SaveOptions, SaveProxyRow, DeleteProxy, ApplyShare, Import
  <2>3. ASSUME NEW j \in Command, Delete(j) \/ Restore(j) PROVE B'
    BY <2>3, <1>2, EntryAssumption DEF Delete, Restore
  <2>4. ASSUME NEW j \in Command, GoOn(j) PROVE B' BY <2>4, <1>2 DEF GoOn
  <2>5. ASSUME NEW j \in Command, RefuseStep(j) PROVE B'
    <3>1. PICK cost \in {0, 1, 2} : faults + cost <= MaxFaults /\ faults' = faults + cost /\ calls' = calls
      BY <2>5 DEF RefuseStep, Refuse
    <3> QED BY <3>1, <1>2, EntryAssumption
  <2>6. ASSUME NEW j \in Command, ProxyInUse(j) PROVE B' BY <2>6, <1>2 DEF ProxyInUse, Refuse
  <2>7. ASSUME NEW j \in Command, HalfForget(j) PROVE B'
    BY <2>7, <1>2, EntryAssumption DEF HalfForget
  <2>8. CASE UNCHANGED storeVars BY <2>8, <1>2 DEF storeVars
  <2> QED BY <2>2, <2>3, <2>4, <2>5, <2>6, <2>7, <2>8, <1>2 DEF StoreNext
<1> HIDE DEF B
<1>3. StoreSpec => []B BY <1>1, <1>2, PTL DEF StoreSpec
<1> QED BY <1>3 DEF B

\* Rows, entries, commands and counters keep their types.
THEOREM StoreTypeCorrect == StoreSpec => []StoreTypeOK
<1>1. ASSUME StoreInv, calls \in 0..MaxCalls, faults \in 0..MaxFaults PROVE StoreTypeOK
  <2>1. ASSUME NEW j \in Command
        PROVE  /\ job[j].at \in -1..8
               /\ Running(j) => /\ job[j].cmd \in CommandName /\ job[j].e \in Entry
                                /\ job[j].from \in Entry \union {None}
    <3>1. job[j] \in CallState \union Ended BY <1>1 DEF StoreInv, CallsOK
    <3>2. CASE job[j] \in CallState
      <4>1. \A n \in 1..7 : n \in -1..8 OBVIOUS
      <4> QED BY <3>2, <4>1, CallFields
    <3>3. CASE job[j] \in Ended
      <4>1. ~Running(j) BY <3>3, RunningOrEnded DEF Running
      <4>2. job[j].at \in {0, -1} BY <3>3 DEF Ended, NoCall
      <4> QED BY <4>1, <4>2
    <3> QED BY <3>1, <3>2, <3>3
  <2> QED
    BY <1>1, <2>1 DEF StoreTypeOK, StoreInv, StoresOK, CallsOK, EntryState, Maybe
<1> QED BY <1>1, StoreInvHolds, StoreBounds, PTL
=============================================================================
