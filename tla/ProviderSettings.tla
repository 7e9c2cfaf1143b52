--------------------------- MODULE ProviderSettings ---------------------------
(***************************************************************************)
(* The LLM providers: the settings page (admin/settings/page.tsx) as open    *)
(* at each administrator's, and the endpoints that store the rows            *)
(* (routers/settings.py).  A request reads the rows, and commits later the   *)
(* columns that differ from what it read.                                    *)
(*                                                                          *)
(* A page waits for the answer to its request before its administrator does  *)
(* anything else, and the answer arrives: an administrator in a hurry is     *)
(* another page.  Providers that need neither a key nor an address, run as   *)
(* commands, are left out.                                                  *)
(***************************************************************************)
EXTENDS Naturals

CONSTANTS
    None,
    Admins,     \* the open pages
    MaxRows,    \* bound: providers
    MaxChanges, \* bound: changes of a field in the dialog
    MaxCalls    \* bound: requests that write

Ids   == 1..MaxRows
Kinds == {"chat", "eval"}
\* A field left empty.
Blank == ""
Types == {"cloud", "local"}
\* The catalog: a cloud provider needs a key, a local one an address and has a usual one.
needs_key(type) == type = "cloud"
needs_base_url(type) == type = "local"
default_base_url(type) == IF type = "local" THEN "usual" ELSE Blank

VARIABLES
    rows,    \* ai_providers: None, or the row
    created, \* rows created so far; the oldest row has the smallest number
    list,    \* list[a]: rows as page a has loaded them
    dialog,  \* dialog[a]: None, or the row it edits (0 a new one) and the form
    call,    \* call[a]: None, or the request under way
    \* to state the properties
    changes, calls,
    meant,   \* meant[id]: what the last saves of the row in a dialog meant it to be
    races    \* what overlapped: changes of the defaults, or an edit of an edited row

settingsVars == <<rows, created, list, dialog, call, changes, calls, meant, races>>

\* settings stands for name, model, temperature and max_tokens: the change that set them.
Row(type, url, key, settings, enabled, default) ==
    [type |-> type, url |-> url, key |-> key, settings |-> settings, enabled |-> enabled,
     is_default |-> default]
Nobody  == [kind \in Kinds |-> FALSE]
Editable(row) == <<row.type, row.url, row.settings, row.enabled>>
Stored(r) == {id \in Ids : r[id] # None}

Init ==
    /\ \E n \in {0, 2} :
          /\ created = n
          /\ rows = [id \in Ids |-> IF id > n THEN None
                                    ELSE Row("cloud", Blank, "old", 0, TRUE, [kind \in Kinds |-> id = 1])]
    /\ list = [a \in Admins |-> rows]
    /\ dialog = [a \in Admins |-> None] /\ call = [a \in Admins |-> None]
    /\ changes = 0 /\ calls = 0
    /\ meant = [id \in Ids |-> IF id > created THEN None ELSE [key |-> "old", settings |-> 0]]
    /\ races = {}

----------------------------------------------------------------------------
(* The dialog *)

openDialog(a, id) ==
    /\ dialog[a] = None /\ call[a] = None
    /\ id # 0 => list[a][id] # None
    /\ dialog' = [dialog EXCEPT ![a] = [id |-> id, form |->
          IF id = 0 THEN [type |-> "cloud", url |-> Blank, key |-> Blank, clear |-> FALSE, settings |-> 0,
                          enabled |-> TRUE]
          ELSE LET row == list[a][id] IN
               [type |-> row.type, url |-> row.url, key |-> Blank, clear |-> FALSE,
                settings |-> row.settings, enabled |-> row.enabled]]]
    /\ UNCHANGED <<rows, created, list, call, changes, calls, meant, races>>

closeDialog(a) ==
    /\ dialog[a] # None /\ call[a] = None
    /\ dialog' = [dialog EXCEPT ![a] = None]
    /\ UNCHANGED <<rows, created, list, call, changes, calls, meant, races>>

ChangeForm(a, form) ==
    /\ dialog[a] # None /\ call[a] = None
    /\ changes < MaxChanges
    /\ changes' = changes + 1
    /\ form # dialog[a].form
    /\ dialog' = [dialog EXCEPT ![a].form = form]
    /\ UNCHANGED <<rows, created, list, call, calls, meant, races>>

Form(a) == dialog[a].form

\* An address that is there stays, whatever the type it was for.
changeType(a, type) ==
    /\ dialog[a] # None
    /\ ChangeForm(a, [Form(a) EXCEPT !.type = type,
                                     !.url = IF @ # Blank THEN @ ELSE default_base_url(type)])

setUrl(a, url)   == dialog[a] # None /\ ChangeForm(a, [Form(a) EXCEPT !.url = url])
setEnabled(a)    == dialog[a] # None /\ ChangeForm(a, [Form(a) EXCEPT !.enabled = ~@])
\* Another model, name, temperature or length.
setSettings(a)   == dialog[a] # None /\ ChangeForm(a, [Form(a) EXCEPT !.settings = changes + 1])

setKey(a, key) ==
    /\ dialog[a] # None /\ ~Form(a).clear
    /\ ChangeForm(a, [Form(a) EXCEPT !.key = key])

\* Offered when the row has a key.
setClearKey(a) ==
    /\ dialog[a] # None
    /\ dialog[a].id # 0 /\ list[a][dialog[a].id].key # Blank
    /\ ChangeForm(a, [Form(a) EXCEPT !.clear = ~@])

----------------------------------------------------------------------------
(* The requests *)

\* With a row's columns, or the kind of use.
Request(a, op, id, body, kind) ==
    /\ call[a] = None
    /\ calls < MaxCalls
    /\ calls' = calls + 1
    /\ call' = [call EXCEPT ![a] = 
             [op |-> op, id |-> id, body |-> body, kind |-> kind, step |-> "sent", seen |-> None]]

\* Mutant: an empty field is an empty key.
AsTyped(id, form) == IF form.clear THEN Blank ELSE form.key
\* The key of the body: erased, typed, or None to keep the stored one.
BodyKey(id, form) ==
    IF form.clear THEN Blank ELSE IF form.key # Blank THEN form.key ELSE IF id # 0 THEN None ELSE Blank

save(a) ==
    /\ dialog[a] # None
    /\ Request(a, IF dialog[a].id = 0 THEN "create" ELSE "update", dialog[a].id,
               [type |-> Form(a).type, url |-> Form(a).url, settings |-> Form(a).settings,
                enabled |-> Form(a).enabled, key |-> BodyKey(dialog[a].id, Form(a))],
               None)
    /\ UNCHANGED <<rows, created, list, dialog, changes, meant, races>>

\* The other columns are sent as the page has them.
toggleEnabled(a, id) ==
    /\ dialog[a] = None /\ list[a][id] # None
    /\ LET row == list[a][id] IN
       Request(a, "update", id, [type |-> row.type, url |-> row.url, settings |-> row.settings,
                                 enabled |-> ~row.enabled, key |-> None],
               None)
    /\ UNCHANGED <<rows, created, list, dialog, changes, meant, races>>

setDefault(a, id, kind) ==
    /\ dialog[a] = None /\ list[a][id] # None
    /\ list[a][id].enabled /\ ~list[a][id].is_default[kind]
    /\ Request(a, "default", id, None, kind)
    /\ UNCHANGED <<rows, created, list, dialog, changes, meant, races>>

remove(a, id) ==
    /\ dialog[a] = None /\ list[a][id] # None
    /\ Request(a, "delete", id, None, None)
    /\ UNCHANGED <<rows, created, list, dialog, changes, meant, races>>

----------------------------------------------------------------------------
(* The server *)

At(a, op, step) == call[a] # None /\ call[a].op = op /\ call[a].step = step
Reading(a) == call[a].step = "read"
Reply(a, how) == call' = [call EXCEPT ![a].step = how]
Read(a) == call' = [call EXCEPT ![a].step = "read", ![a].seen = rows]

EffectiveKey(a, id) ==
    IF call[a].body.key # None THEN call[a].body.key ELSE IF id = 0 THEN Blank ELSE rows[id].key
_validate(a, id) ==
    /\ needs_base_url(call[a].body.type) => call[a].body.url # Blank
    /\ needs_key(call[a].body.type) => EffectiveKey(a, id) # Blank

Decide(a, ok) ==
    /\ IF ok THEN Read(a) ELSE Reply(a, "refused")
    /\ UNCHANGED <<rows, created, list, dialog, changes, calls, meant>>

\* Another request that has read the rows and will write the defaults, or this row.
Others(a, ops) == {b \in Admins \ {a} : call[b] # None /\ Reading(b) /\ call[b].op \in ops}

BeginCreate(a) ==
    /\ At(a, "create", "sent")
    /\ Decide(a, _validate(a, 0))
    /\ races' = races \cup (IF Others(a, {"create", "default"}) # {} THEN {"defaults"} ELSE {})

BeginDefault(a) ==
    /\ At(a, "default", "sent")
    /\ Decide(a, rows[call[a].id] # None)
    /\ races' = races \cup (IF Others(a, {"create", "default"}) # {} THEN {"defaults"} ELSE {})

\* An edit races with another request for the row, and with what the page had not seen.
BeginUpdate(a) ==
    /\ At(a, "update", "sent")
    /\ LET id == call[a].id IN
       /\ Decide(a, rows[id] # None /\ _validate(a, id))
       /\ races' = races \cup
            (IF \/ (\E b \in Others(a, {"update"}) : call[b].id = id)
                \/ rows[id] # None /\ Editable(rows[id]) # Editable(list[a][id])
             THEN {"edits"} ELSE {})

BeginDelete(a) ==
    /\ At(a, "delete", "sent")
    /\ Decide(a, rows[call[a].id] # None)
    /\ UNCHANGED races

CommitCreate(a) ==
    /\ At(a, "create", "read")
    /\ created < MaxRows
    /\ created' = created + 1
    /\ LET body == call[a].body
           first == Stored(call[a].seen) = {}
       IN /\ rows' = [rows EXCEPT ![created + 1] =
                Row(body.type, body.url, body.key, body.settings, body.enabled,
                    [kind \in Kinds |-> first])]
          /\ meant' = [meant EXCEPT ![created + 1] = [key |-> body.key, settings |-> body.settings]]
    /\ Reply(a, "done")
    /\ UNCHANGED <<list, dialog, changes, calls, races>>

\* The columns that differ from what was read; all or none of the rows.
CommitDefault(a) ==
    /\ At(a, "default", "read")
    /\ LET seen == call[a].seen
           kind == call[a].kind
           asked(id) == id = call[a].id
           changed == {id \in Stored(seen) : asked(id) # seen[id].is_default[kind]}
       IN IF changed \subseteq Stored(rows)
          THEN /\ rows' = [id \in Ids |-> IF id \in changed
                                          THEN [rows[id] EXCEPT !.is_default[kind] = asked(id)]
                                          ELSE rows[id]]
               /\ Reply(a, "done")
          ELSE Reply(a, "refused") /\ UNCHANGED rows
    /\ UNCHANGED <<created, list, dialog, changes, calls, meant, races>>

CommitUpdate(a) ==
    /\ At(a, "update", "read")
    /\ LET id == call[a].id
           body == call[a].body
           seen == call[a].seen[id]
           Put(new, old, now) == IF new # old THEN new ELSE now
           row == rows[id]
       IN IF row = None THEN Reply(a, "refused") /\ UNCHANGED <<rows, meant>>
          ELSE /\ rows' = [rows EXCEPT ![id] =
                    Row(Put(body.type, seen.type, row.type), Put(body.url, seen.url, row.url),
                        IF body.key = None THEN row.key ELSE Put(body.key, seen.key, row.key),
                        Put(body.settings, seen.settings, row.settings),
                        Put(body.enabled, seen.enabled, row.enabled), row.is_default)]
               /\ meant' = IF dialog[a] = None THEN meant
                           ELSE [meant EXCEPT ![id] =
                                   [key |-> IF Form(a).clear THEN Blank
                                            ELSE IF Form(a).key = Blank THEN @.key ELSE Form(a).key,
                                    settings |-> Form(a).settings]]
               /\ Reply(a, "done")
    /\ UNCHANGED <<created, list, dialog, changes, calls, races>>

CommitDelete(a) ==
    /\ At(a, "delete", "read")
    /\ rows' = [rows EXCEPT ![call[a].id] = None]
    /\ Reply(a, "done")
    /\ UNCHANGED <<created, list, dialog, changes, calls, meant, races>>

\* The dialog is closed, and the page loads the rows again.
load(a) ==
    /\ call[a] # None /\ call[a].step = "done"
    /\ call' = [call EXCEPT ![a] = None]
    /\ dialog' = [dialog EXCEPT ![a] = None]
    /\ list' = [list EXCEPT ![a] = rows]
    /\ UNCHANGED <<rows, created, changes, calls, meant, races>>

\* The page and the dialog stay as they are.
Refused(a) ==
    /\ call[a] # None /\ call[a].step = "refused"
    /\ call' = [call EXCEPT ![a] = None]
    /\ UNCHANGED <<rows, created, list, dialog, changes, calls, meant, races>>

----------------------------------------------------------------------------
Next == \E a \in Admins :
    \/ \E id \in Ids \cup {0} : openDialog(a, id)
    \/ closeDialog(a)
    \/ \E type \in Types : changeType(a, type)
    \/ \E url \in {Blank, "own"} : setUrl(a, url)
    \/ setEnabled(a) \/ setSettings(a) \/ setKey(a, "new") \/ setClearKey(a)
    \/ save(a)
    \/ \E id \in Ids : toggleEnabled(a, id) \/ remove(a, id)
    \/ \E id \in Ids, kind \in Kinds : setDefault(a, id, kind)
    \/ BeginCreate(a) \/ BeginDefault(a) \/ BeginUpdate(a) \/ BeginDelete(a)
    \/ CommitCreate(a) \/ CommitDefault(a) \/ CommitUpdate(a) \/ CommitDelete(a)
    \/ load(a) \/ Refused(a)

Spec == Init /\ [][Next]_settingsVars

----------------------------------------------------------------------------
(* Properties *)

\* Each kind of use has at most one default provider, unless two requests that set or
\* depend on the defaults overlapped.
OneDefaultUnlessRaced ==
    "defaults" \notin races =>
        \A kind \in Kinds : \A i, j \in Stored(rows) :
            rows[i].is_default[kind] /\ rows[j].is_default[kind] => i = j

\* A provider has the settings that were saved last in a dialog, and the key that was
\* typed last, unless it was erased on purpose: an empty field keeps it, as does every
\* toggle.  Except after edits of one row that overlapped, or an edit by a page that had
\* not seen the one before.
EditsStand ==
    "edits" \notin races =>
        \A id \in Stored(rows) : meant[id] = [key |-> rows[id].key, settings |-> rows[id].settings]

SettingsSound == OneDefaultUnlessRaced /\ EditsStand

----------------------------------------------------------------------------
(* The invariant the proofs use *)

Urls == {Blank, "usual", "own"}
Keys == {Blank, "old", "new"}
Provider == [type : Types, url : Urls, key : Keys, settings : Nat, enabled : BOOLEAN,
             is_default : [Kinds -> BOOLEAN]]
Table == [Ids -> Provider \cup {None}]
Filled == [type : Types, url : Urls, key : Keys, clear : BOOLEAN, settings : Nat, enabled : BOOLEAN]
Meant == [key : Keys, settings : Nat]
Body == [type : Types, url : Urls, key : Keys \cup {None}, settings : Nat, enabled : BOOLEAN]
Call == [op : {"create", "update", "default", "delete"}, id : Ids \cup {0}, body : Body \cup {None},
         kind : Kinds \cup {None}, step : {"sent", "read", "refused", "done"},
         seen : Table \cup {None}]

TypeOK ==
    /\ rows \in Table /\ created \in Nat
    /\ list \in [Admins -> Table]
    /\ dialog \in [Admins -> [id : Ids \cup {0}, form : Filled] \cup {None}]
    /\ call \in [Admins -> Call \cup {None}]
    /\ changes \in Nat
    /\ meant \in [Ids -> Meant \cup {None}]
    /\ \A id \in Ids : id <= created => meant[id] \in Meant

Under(a, ops) == call[a] # None /\ call[a].op \in ops
Decides(a, ops) == Under(a, ops) /\ Reading(a)

\* Requests are made of the page's form, or of its list, which stay while they are under way.
RequestInv ==
    \A a \in Admins :
        /\ Under(a, {"create", "update"}) => call[a].body \in Body
        /\ Under(a, {"create"}) => call[a].body.key # None
        /\ Under(a, {"default"}) => call[a].kind \in Kinds
        /\ Under(a, {"update", "default", "delete"}) => call[a].id \in Ids
        /\ Under(a, {"update"}) =>
              IF dialog[a] = None
              THEN /\ call[a].body.key = None
                   /\ list[a][call[a].id] # None /\ call[a].body.settings = list[a][call[a].id].settings
              ELSE /\ dialog[a].id = call[a].id
                   /\ call[a].body.key = BodyKey(call[a].id, Form(a))
                   /\ call[a].body.settings = Form(a).settings

\* What a request has read was there.
SeenInv ==
    /\ \A id \in Ids : rows[id] # None => id <= created
    /\ \A a \in Admins : call[a] # None /\ Reading(a) =>
          /\ call[a].seen \in Table
          /\ \A id \in Ids : call[a].seen[id] # None => id <= created

\* Unless they overlapped, who decides about the defaults knows them.
DefaultInv ==
    "defaults" \notin races =>
        /\ \A kind \in Kinds : \A i, j \in Stored(rows) :
              rows[i].is_default[kind] /\ rows[j].is_default[kind] => i = j
        /\ \A a \in Admins : Decides(a, {"create", "default"}) =>
              \A id \in Stored(rows) : call[a].seen[id] # None
                                       /\ rows[id].is_default = call[a].seen[id].is_default
        /\ \A a, b \in Admins : Decides(a, {"create", "default"}) /\ Decides(b, {"create", "default"}) => a = b

\* Unless edits overlapped, who edits a row knows it, as does its page.
EditInv ==
    "edits" \notin races =>
        /\ \A id \in Stored(rows) : meant[id] = [key |-> rows[id].key, settings |-> rows[id].settings]
        /\ \A a \in Admins : Decides(a, {"update"}) =>
              /\ call[a].seen[call[a].id] # None
              /\ Editable(call[a].seen[call[a].id]) = Editable(list[a][call[a].id])
              /\ rows[call[a].id] # None =>
                    /\ Editable(rows[call[a].id]) = Editable(call[a].seen[call[a].id])
                    /\ rows[call[a].id].key = call[a].seen[call[a].id].key
        /\ \A a, b \in Admins :
              Decides(a, {"update"}) /\ Decides(b, {"update"}) /\ call[a].id = call[b].id => a = b

SettingsInv == TypeOK /\ RequestInv /\ SeenInv /\ DefaultInv /\ EditInv
=============================================================================
