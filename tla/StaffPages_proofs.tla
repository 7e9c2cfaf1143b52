--------------------------- MODULE StaffPages_proofs ---------------------------
(***************************************************************************)
(* Theorems about the pages of the staff: the settings of the providers, the  *)
(* draft of a problem with its reference files, an assessment, users in bulk,  *)
(* the review of an attempt.  A page moves only in the behaviours that are     *)
(* about it: what its own steps keep, every step of the composition keeps.     *)
(* The lemmas on lists are those of ExamPages_proofs.                          *)
(***************************************************************************)
EXTENDS ExamPages_proofs

----------------------------------------------------------------------------
(* The settings of the providers *)

LEMMA RowNumbers == \A id \in Settings!Ids : id \in Nat
BY SettingsAssumption DEF Settings!Ids

LEMMA RowDefault ==
    ASSUME NEW type, NEW url, NEW key, NEW settings, NEW enabled, NEW default
    PROVE  Settings!Row(type, url, key, settings, enabled, default).is_default = default
BY DEF Settings!Row

LEMMA SettingsInit == Settings!Init => Settings!SettingsInv
<1> SUFFICES ASSUME Settings!Init PROVE Settings!SettingsInv
  OBVIOUS
<1> DEFINE first(id) == Settings!Row("cloud", Settings!Blank, "old", 0, TRUE, [kind \in Settings!Kinds |-> id = 1])
<1>1. PICK n \in {0, 2} : created = n /\ providers = [id \in Settings!Ids |-> IF id > n THEN None ELSE first(id)]
  BY Zenon DEF Settings!Init
<1>0. n \in Nat /\ \A id \in Settings!Ids : id \in Nat
  BY RowNumbers
<1>3. \A id \in Settings!Ids : first(id) \in Settings!Provider
  BY DEF Settings!Row, Settings!Provider, Settings!Types, Settings!Urls, Settings!Keys
<1>4. providers \in Settings!Table
  BY <1>1, <1>3 DEF Settings!Table
<1>5. /\ list = [a \in Admins |-> providers]
      /\ editor = [a \in Admins |-> None] /\ request = [a \in Admins |-> None]
      /\ changes = 0
      /\ meant = [id \in Settings!Ids |-> IF id > created THEN None ELSE [key |-> "old", settings |-> 0]]
  BY DEF Settings!Init
<1> HIDE DEF Settings!Init
<1>6. Settings!TypeOK
  <2>1. list \in [Admins -> Settings!Table]
    BY <1>4, <1>5
  <2>2. /\ meant \in [Settings!Ids -> Settings!Meant \cup {None}]
        /\ \A id \in Settings!Ids : id <= created => meant[id] \in Settings!Meant
    BY <1>0, <1>1, <1>5 DEF Settings!Keys, Settings!Meant
  <2>3. created \in Nat
    BY <1>0, <1>1
  <2> QED
    BY <1>4, <1>5, <2>1, <2>2, <2>3 DEF Settings!TypeOK
<1>7. Settings!RequestInv
  BY <1>5 DEF Settings!RequestInv, Settings!Under
<1>9. \A id \in Settings!Ids : providers[id] # None =>
         id <= n /\ providers[id] = first(id) /\ meant[id] = [key |-> "old", settings |-> 0]
  <2> HIDE DEF first
  <2> QED
    BY <1>0, <1>1, <1>5
<1>8. Settings!SeenInv
  BY <1>1, <1>5, <1>9 DEF Settings!SeenInv
<1>10. Settings!DefaultInv
  <2>1. ASSUME NEW id \in Settings!Ids, providers[id] # None, NEW kind \in Settings!Kinds,
               providers[id].is_default[kind]
        PROVE  id = 1
    <3>1. providers[id] = first(id) /\ first(id).is_default = [use \in Settings!Kinds |-> id = 1]
      <4> DEFINE ones == [use \in Settings!Kinds |-> id = 1]
      <4>1. providers[id] = first(id)
        BY <1>9, <2>1
      <4> HIDE DEF ones
      <4>2. Settings!Row("cloud", Settings!Blank, "old", 0, TRUE, ones).is_default = ones
        BY DEF Settings!Row
      <4> QED
        BY Zenon, <4>1, <4>2 DEF ones
    <3> QED
      BY Zenon, <2>1, <3>1
  <2>2. \A b \in Admins : ~Settings!Decides(b, {"create", "default"})
    BY <1>5 DEF Settings!Decides, Settings!Under
  <2> QED
    BY Zenon, <2>1, <2>2 DEF Settings!DefaultInv, Settings!Stored
<1>11. Settings!EditInv
  BY <1>5, <1>9 DEF Settings!EditInv, Settings!Decides, Settings!Under, Settings!Stored, Settings!Row
<1> QED
  BY <1>6, <1>7, <1>8, <1>10, <1>11 DEF Settings!SettingsInv

\* A request keeps what it was made of until it is answered.
LEMMA RequestKept ==
    ASSUME Settings!SettingsInv, NEW a \in Admins,
           \A b \in Admins \ {a} : request'[b] = request[b] /\ editor'[b] = editor[b] /\ list'[b] = list[b],
           request'[a] # None =>
               /\ request[a] # None /\ editor'[a] = editor[a] /\ list'[a] = list[a]
               /\ request'[a].op = request[a].op /\ request'[a].id = request[a].id
               /\ request'[a].body = request[a].body /\ request'[a].kind = request[a].kind
    PROVE  Settings!RequestInv'
<1> SUFFICES ASSUME NEW b \in Admins, request'[b] # None
             PROVE  /\ Settings!Under(b, {"create", "update"})' => request'[b].body \in Settings!Body
                    /\ Settings!Under(b, {"create"})' => request'[b].body.key # None
                    /\ Settings!Under(b, {"default"})' => request'[b].kind \in Settings!Kinds
                    /\ Settings!Under(b, {"update", "default", "delete"})' => request'[b].id \in Settings!Ids
                    /\ Settings!Under(b, {"update"})' =>
                          IF editor'[b] = None
                          THEN /\ request'[b].body.key = None
                               /\ list'[b][request'[b].id] # None
                               /\ request'[b].body.settings = list'[b][request'[b].id].settings
                          ELSE /\ editor'[b].id = request'[b].id
                               /\ request'[b].body.key = Settings!BodyKey(request'[b].id, editor'[b].form)
                               /\ request'[b].body.settings = editor'[b].form.settings
  BY DEF Settings!RequestInv, Settings!Under, Settings!Form, Settings!BodyKey
<1>1. /\ request[b] # None /\ editor'[b] = editor[b] /\ list'[b] = list[b]
      /\ request'[b].op = request[b].op /\ request'[b].id = request[b].id
      /\ request'[b].body = request[b].body /\ request'[b].kind = request[b].kind
  BY Zenon
<1> QED
  BY <1>1 DEF Settings!SettingsInv, Settings!RequestInv, Settings!Under, Settings!Form, Settings!BodyKey

\* What was read earlier is still of rows that were made.
LEMMA SeenKept ==
    ASSUME Settings!SettingsInv, created' \in Nat, created <= created',
           \A id \in Settings!Ids : providers'[id] # None => id <= created',
           \A b \in Admins : request'[b] # None /\ request'[b].step = "read" =>
               \/ request[b] # None /\ request[b].step = "read" /\ request'[b].seen = request[b].seen
               \/ request'[b].seen = providers
    PROVE  Settings!SeenInv'
<1> SUFFICES ASSUME NEW b \in Admins, request'[b] # None, request'[b].step = "read"
             PROVE  /\ request'[b].seen \in Settings!Table
                    /\ \A id \in Settings!Ids : request'[b].seen[id] # None => id <= created'
  BY DEF Settings!SeenInv, Settings!Reading
<1>1. created \in Nat /\ \A id \in Settings!Ids : id \in Nat
  BY RowNumbers DEF Settings!SettingsInv, Settings!TypeOK
<1>2. providers \in Settings!Table /\ \A id \in Settings!Ids : providers[id] # None => id <= created
  BY DEF Settings!SettingsInv, Settings!TypeOK, Settings!SeenInv
<1>3. request[b] # None /\ request[b].step = "read" =>
         request[b].seen \in Settings!Table /\ \A id \in Settings!Ids : request[b].seen[id] # None => id <= created
  BY DEF Settings!SettingsInv, Settings!SeenInv, Settings!Reading
<1>4. \/ request[b] # None /\ request[b].step = "read" /\ request'[b].seen = request[b].seen
      \/ request'[b].seen = providers
  OBVIOUS
<1>5. /\ request'[b].seen \in Settings!Table
      /\ \A id \in Settings!Ids : request'[b].seen[id] # None => id <= created
  BY <1>2, <1>3, <1>4
<1> QED
  BY <1>1, <1>5

\* While the rows stay, a request that has just read them, with no other before it, knows them.
LEMMA DefaultQuiet ==
    ASSUME Settings!SettingsInv, NEW a \in Admins, providers' = providers, races \subseteq races',
           \A b \in Admins \ {a} : request'[b] = request[b],
           Settings!Decides(a, {"create", "default"})' =>
               \/ Settings!Decides(a, {"create", "default"}) /\ request'[a].seen = request[a].seen
               \/ /\ request'[a].seen = providers
                  /\ \/ "defaults" \in races'
                     \/ \A b \in Admins \ {a} : ~Settings!Decides(b, {"create", "default"})
    PROVE  Settings!DefaultInv'
BY DEF Settings!SettingsInv, Settings!DefaultInv, Settings!Decides, Settings!Under, Settings!Reading, Settings!Stored

LEMMA EditQuiet ==
    ASSUME Settings!SettingsInv, NEW a \in Admins, providers' = providers, meant' = meant, races \subseteq races',
           \A b \in Admins \ {a} : request'[b] = request[b] /\ list'[b] = list[b],
           Settings!Decides(a, {"update"})' =>
               /\ list'[a] = list[a] /\ request'[a].id = request[a].id
               /\ \/ Settings!Decides(a, {"update"}) /\ request'[a].seen = request[a].seen
                  \/ /\ request'[a].seen = providers /\ providers[request[a].id] # None
                     /\ \/ "edits" \in races'
                        \/ /\ Settings!Editable(providers[request[a].id]) = Settings!Editable(list[a][request[a].id])
                           /\ \A b \in Admins \ {a} :
                                 Settings!Decides(b, {"update"}) => request[b].id # request[a].id
    PROVE  Settings!EditInv'
<1> SUFFICES ASSUME "edits" \notin races'
             PROVE  /\ \A id \in Settings!Stored(providers) :
                          meant[id] = [key |-> providers[id].key, settings |-> providers[id].settings]
                    /\ \A b \in Admins : Settings!Decides(b, {"update"})' =>
                          /\ request'[b].seen[request'[b].id] # None
                          /\ Settings!Editable(request'[b].seen[request'[b].id])
                             = Settings!Editable(list'[b][request'[b].id])
                          /\ providers[request'[b].id] # None =>
                                /\ Settings!Editable(providers[request'[b].id])
                                   = Settings!Editable(request'[b].seen[request'[b].id])
                                /\ providers[request'[b].id].key = request'[b].seen[request'[b].id].key
                    /\ \A b, c \in Admins :
                          Settings!Decides(b, {"update"})' /\ Settings!Decides(c, {"update"})'
                          /\ request'[b].id = request'[c].id => b = c
  BY DEF Settings!EditInv, Settings!Stored, Settings!Editable
<1>1. "edits" \notin races
  OBVIOUS
<1>2. \A id \in Settings!Stored(providers) :
         meant[id] = [key |-> providers[id].key, settings |-> providers[id].settings]
  BY <1>1 DEF Settings!SettingsInv, Settings!EditInv
<1>3. \A b \in Admins : Settings!Decides(b, {"update"}) =>
         /\ request[b].seen[request[b].id] # None
         /\ Settings!Editable(request[b].seen[request[b].id]) = Settings!Editable(list[b][request[b].id])
         /\ providers[request[b].id] # None =>
               /\ Settings!Editable(providers[request[b].id]) = Settings!Editable(request[b].seen[request[b].id])
               /\ providers[request[b].id].key = request[b].seen[request[b].id].key
  BY <1>1 DEF Settings!SettingsInv, Settings!EditInv
<1>4. \A b, c \in Admins : Settings!Decides(b, {"update"}) /\ Settings!Decides(c, {"update"})
                           /\ request[b].id = request[c].id => b = c
  BY <1>1 DEF Settings!SettingsInv, Settings!EditInv
<1>5. \A b \in Admins \ {a} : Settings!Decides(b, {"update"})' <=> Settings!Decides(b, {"update"})
  BY DEF Settings!Decides, Settings!Under, Settings!Reading
<1>6. ASSUME NEW b \in Admins, Settings!Decides(b, {"update"})'
      PROVE  /\ request'[b].seen[request'[b].id] # None
             /\ Settings!Editable(request'[b].seen[request'[b].id]) = Settings!Editable(list'[b][request'[b].id])
             /\ providers[request'[b].id] # None =>
                   /\ Settings!Editable(providers[request'[b].id])
                      = Settings!Editable(request'[b].seen[request'[b].id])
                   /\ providers[request'[b].id].key = request'[b].seen[request'[b].id].key
  <2>1. CASE b = a
    BY <1>3, <1>6, <2>1
  <2>2. CASE b # a
    BY <1>3, <1>5, <1>6, <2>2
  <2> QED
    BY <2>1, <2>2
<1>7. ASSUME NEW b \in Admins, NEW c \in Admins, b # c,
             Settings!Decides(b, {"update"})', Settings!Decides(c, {"update"})'
      PROVE  request'[b].id # request'[c].id
  BY <1>4, <1>5, <1>7
<1> QED
  BY <1>2, <1>6, <1>7

\* A page that waits for nothing may do with its dialog what it likes.
LEMMA DialogsFree ==
    ASSUME Settings!SettingsInv, NEW a \in Admins, request[a] = None,
           UNCHANGED <<providers, created, list, request, meant, races>>,
           changes' \in Nat,
           NEW opened0 \in [id : Settings!Ids \cup {0}, form : Settings!Filled] \cup {None},
           editor' = [editor EXCEPT ![a] = opened0]
    PROVE  Settings!SettingsInv'
<1>1. Settings!TypeOK'
  BY DEF Settings!SettingsInv, Settings!TypeOK
<1>2. \A b \in Admins \ {a} : editor'[b] = editor[b]
  BY DEF Settings!SettingsInv, Settings!TypeOK
<1>3. Settings!RequestInv'
  BY <1>2, RequestKept
<1>4. Settings!SeenInv'
  <2>1. Settings!SeenInv
    BY DEF Settings!SettingsInv
  <2> QED
    BY <2>1, SMTT(30) DEF Settings!SeenInv, Settings!Reading
<1>5. Settings!DefaultInv' /\ Settings!EditInv'
  BY DEF Settings!SettingsInv, Settings!DefaultInv, Settings!EditInv, Settings!Decides, Settings!Under,
         Settings!Reading, Settings!Stored, Settings!Editable
<1> QED
  BY <1>1, <1>3, <1>4, <1>5 DEF Settings!SettingsInv

\* A change of the request of page a alone.
LEMMA RequestType ==
    ASSUME Settings!SettingsInv, NEW a \in Admins, NEW new \in Settings!Call \cup {None},
           request' = [request EXCEPT ![a] = new]
    PROVE  /\ request' \in [Admins -> Settings!Call \cup {None}]
           /\ request'[a] = new
           /\ \A b \in Admins \ {a} : request'[b] = request[b]
BY DEF Settings!SettingsInv, Settings!TypeOK

LEMMA ReplyEffect ==
    ASSUME Settings!SettingsInv, NEW a \in Admins, NEW how \in {"refused", "done"},
           request[a] # None, Settings!Reply(a, how)
    PROVE  /\ request' \in [Admins -> Settings!Call \cup {None}]
           /\ \A b \in Admins \ {a} : request'[b] = request[b]
           /\ request'[a].op = request[a].op /\ request'[a].id = request[a].id
           /\ request'[a].body = request[a].body /\ request'[a].kind = request[a].kind
           /\ request'[a].step = how
<1>1. request[a] \in Settings!Call
  BY DEF Settings!SettingsInv, Settings!TypeOK
<1> DEFINE new == [request[a] EXCEPT !.step = how]
<1>2. /\ new \in Settings!Call
      /\ new.op = request[a].op /\ new.id = request[a].id /\ new.body = request[a].body
      /\ new.kind = request[a].kind /\ new.step = how
  BY <1>1 DEF Settings!Call
<1>3. request' = [request EXCEPT ![a] = new]
  BY DEF Settings!Reply
<1> HIDE DEF new
<1> QED
  BY <1>2, <1>3, RequestType

LEMMA ReadEffect ==
    ASSUME Settings!SettingsInv, NEW a \in Admins, request[a] # None, Settings!Read(a)
    PROVE  /\ request' \in [Admins -> Settings!Call \cup {None}]
           /\ \A b \in Admins \ {a} : request'[b] = request[b]
           /\ request'[a].op = request[a].op /\ request'[a].id = request[a].id
           /\ request'[a].body = request[a].body /\ request'[a].kind = request[a].kind
           /\ request'[a].step = "read" /\ request'[a].seen = providers
<1>1. request[a] \in Settings!Call /\ providers \in Settings!Table
  BY DEF Settings!SettingsInv, Settings!TypeOK
<1> DEFINE new == [request[a] EXCEPT !.step = "read", !.seen = providers]
<1>2. /\ new \in Settings!Call
      /\ new.op = request[a].op /\ new.id = request[a].id /\ new.body = request[a].body
      /\ new.kind = request[a].kind /\ new.step = "read" /\ new.seen = providers
  BY <1>1 DEF Settings!Call
<1>3. request' = [request EXCEPT ![a] = new]
  BY DEF Settings!Read
<1> HIDE DEF new
<1> QED
  BY <1>2, <1>3, RequestType

\* A request is sent: it has read nothing, and says what the form, or the list, has.
LEMMA SentKeeps ==
    ASSUME Settings!SettingsInv, NEW a \in Admins,
           NEW op \in {"create", "update", "default", "delete"}, NEW id \in Settings!Ids \cup {0},
           NEW body \in Settings!Body \cup {None}, NEW kind \in Settings!Kinds \cup {None},
           Settings!Request(a, op, id, body, kind),
           UNCHANGED <<providers, created, list, editor, changes, meant, races>>,
           op \in {"create", "update"} => body \in Settings!Body,
           op = "create" => body.key # None,
           op = "default" => kind \in Settings!Kinds,
           op # "create" => id \in Settings!Ids,
           op = "update" =>
              IF editor[a] = None
              THEN /\ body.key = None
                   /\ list[a][id] # None /\ body.settings = list[a][id].settings
              ELSE /\ editor[a].id = id
                   /\ body.key = Settings!BodyKey(id, editor[a].form)
                   /\ body.settings = editor[a].form.settings
    PROVE  Settings!SettingsInv'
<1> DEFINE new == [op |-> op, id |-> id, body |-> body, kind |-> kind, step |-> "sent", seen |-> None]
<1>1. /\ new \in Settings!Call /\ new.op = op /\ new.id = id /\ new.body = body /\ new.kind = kind
      /\ new.step = "sent"
  BY DEF Settings!Call
<1>2. request[a] = None /\ request' = [request EXCEPT ![a] = new]
  BY DEF Settings!Request
<1> HIDE DEF new
<1>3. /\ request' \in [Admins -> Settings!Call \cup {None}] /\ request'[a] = new
      /\ \A b \in Admins \ {a} : request'[b] = request[b]
  BY <1>1, <1>2, RequestType
<1>4. Settings!TypeOK'
  BY <1>3 DEF Settings!SettingsInv, Settings!TypeOK
<1>5. Settings!RequestInv'
  <2> SUFFICES ASSUME NEW b \in Admins, request'[b] # None
               PROVE  /\ request'[b].op \in {"create", "update"} => request'[b].body \in Settings!Body
                      /\ request'[b].op = "create" => request'[b].body.key # None
                      /\ request'[b].op = "default" => request'[b].kind \in Settings!Kinds
                      /\ request'[b].op \in {"update", "default", "delete"} => request'[b].id \in Settings!Ids
                      /\ request'[b].op = "update" =>
                            IF editor[b] = None
                            THEN /\ request'[b].body.key = None
                                 /\ list[b][request'[b].id] # None
                                 /\ request'[b].body.settings = list[b][request'[b].id].settings
                            ELSE /\ editor[b].id = request'[b].id
                                 /\ request'[b].body.key = Settings!BodyKey(request'[b].id, editor[b].form)
                                 /\ request'[b].body.settings = editor[b].form.settings
    BY DEF Settings!RequestInv, Settings!Under, Settings!Form, Settings!BodyKey
  <2>1. CASE b = a
    BY <1>1, <1>3, <2>1
  <2>2. CASE b # a
    <3>1. request'[b] = request[b] /\ request[b] # None
      BY <1>3, <2>2
    <3> QED
      BY <3>1 DEF Settings!SettingsInv, Settings!RequestInv, Settings!Under, Settings!Form
  <2> QED
    BY <2>1, <2>2
<1>6. ~Settings!Decides(a, {"create", "default"})' /\ ~Settings!Decides(a, {"update"})'
  BY <1>1, <1>3 DEF Settings!Decides, Settings!Reading
<1>7. Settings!SeenInv'
  <2>1. \A b \in Admins : request'[b] # None /\ request'[b].step = "read" =>
           request[b] # None /\ request[b].step = "read" /\ request'[b].seen = request[b].seen
    BY <1>1, <1>3
  <2>2. created' \in Nat /\ created <= created' /\ \A i \in Settings!Ids : providers'[i] # None => i <= created'
    BY DEF Settings!SettingsInv, Settings!TypeOK, Settings!SeenInv
  <2> QED
    BY <2>1, <2>2, SeenKept
<1>8. Settings!DefaultInv' /\ Settings!EditInv'
  BY <1>3, <1>6, DefaultQuiet, EditQuiet
<1> QED
  BY <1>4, <1>5, <1>7, <1>8 DEF Settings!SettingsInv

\* A request is answered, or refused, while the rows stay.
LEMMA AnsweredKeeps ==
    ASSUME Settings!SettingsInv, NEW a \in Admins, request[a] # None,
           UNCHANGED <<providers, created, changes, meant>>, races \subseteq races',
           request' \in [Admins -> Settings!Call \cup {None}],
           list' \in [Admins -> Settings!Table],
           editor' \in [Admins -> [id : Settings!Ids \cup {0}, form : Settings!Filled] \cup {None}],
           \A b \in Admins \ {a} : request'[b] = request[b] /\ editor'[b] = editor[b] /\ list'[b] = list[b],
           request'[a] # None =>
               /\ editor'[a] = editor[a] /\ list'[a] = list[a] /\ request'[a].step # "read"
               /\ request'[a].op = request[a].op /\ request'[a].id = request[a].id
               /\ request'[a].body = request[a].body /\ request'[a].kind = request[a].kind
    PROVE  Settings!SettingsInv'
<1>1. Settings!TypeOK'
  BY DEF Settings!SettingsInv, Settings!TypeOK
<1>2. Settings!RequestInv'
  BY RequestKept
<1>3. ~Settings!Decides(a, {"create", "default"})' /\ ~Settings!Decides(a, {"update"})'
  BY DEF Settings!Decides, Settings!Under, Settings!Reading
<1>4. Settings!SeenInv'
  <2>1. \A b \in Admins : request'[b] # None /\ request'[b].step = "read" =>
           request[b] # None /\ request[b].step = "read" /\ request'[b].seen = request[b].seen
    BY Zenon
  <2>2. created' \in Nat /\ created <= created' /\ \A i \in Settings!Ids : providers'[i] # None => i <= created'
    BY DEF Settings!SettingsInv, Settings!TypeOK, Settings!SeenInv
  <2> QED
    BY <2>1, <2>2, SeenKept
<1>5. Settings!DefaultInv' /\ Settings!EditInv'
  BY <1>3, DefaultQuiet, EditQuiet
<1> QED
  BY <1>1, <1>2, <1>4, <1>5 DEF Settings!SettingsInv

\* A request reads the rows; what overlaps is noted.
LEMMA ReadingKeeps ==
    ASSUME Settings!SettingsInv, NEW a \in Admins, request[a] # None, Settings!Read(a),
           UNCHANGED <<providers, created, list, editor, changes, meant>>, races \subseteq races',
           request[a].op \in {"create", "default"} =>
               "defaults" \in races' \/ \A b \in Admins \ {a} : ~Settings!Decides(b, {"create", "default"}),
           request[a].op = "update" =>
               /\ providers[request[a].id] # None
               /\ \/ "edits" \in races'
                  \/ /\ Settings!Editable(providers[request[a].id]) = Settings!Editable(list[a][request[a].id])
                     /\ \A b \in Admins \ {a} : Settings!Decides(b, {"update"}) => request[b].id # request[a].id
    PROVE  Settings!SettingsInv'
<1>0. /\ request' \in [Admins -> Settings!Call \cup {None}]
      /\ \A b \in Admins \ {a} : request'[b] = request[b]
      /\ request'[a].op = request[a].op /\ request'[a].id = request[a].id
      /\ request'[a].body = request[a].body /\ request'[a].kind = request[a].kind
      /\ request'[a].step = "read" /\ request'[a].seen = providers
  BY ReadEffect
<1>1. Settings!TypeOK'
  BY <1>0 DEF Settings!SettingsInv, Settings!TypeOK
<1>2. Settings!RequestInv'
  BY <1>0, RequestKept
<1>3. Settings!SeenInv'
  <2>1. \A b \in Admins : request'[b] # None /\ request'[b].step = "read" =>
           \/ request[b] # None /\ request[b].step = "read" /\ request'[b].seen = request[b].seen
           \/ request'[b].seen = providers
    BY <1>0
  <2>2. created' \in Nat /\ created <= created' /\ \A i \in Settings!Ids : providers'[i] # None => i <= created'
    BY DEF Settings!SettingsInv, Settings!TypeOK, Settings!SeenInv
  <2> QED
    BY <2>1, <2>2, SeenKept
<1>4. Settings!DefaultInv'
  <2>1. Settings!Decides(a, {"create", "default"})' => request[a].op \in {"create", "default"}
    BY <1>0 DEF Settings!Decides, Settings!Under
  <2> QED
    BY <1>0, <2>1, DefaultQuiet
<1>5. Settings!EditInv'
  <2>1. Settings!Decides(a, {"update"})' => request[a].op = "update"
    BY <1>0 DEF Settings!Decides, Settings!Under
  <2> QED
    BY <1>0, <2>1, EditQuiet
<1> QED
  BY <1>1, <1>2, <1>3, <1>4, <1>5 DEF Settings!SettingsInv

\* A commit is done; what it read no longer matters.
LEMMA DoneKeeps ==
    ASSUME Settings!SettingsInv, NEW a \in Admins, request[a] # None, Settings!Reply(a, "done"),
           UNCHANGED <<list, editor>>, created' \in Nat, created <= created',
           \A id \in Settings!Ids : providers'[id] # None => id <= created'
    PROVE  /\ Settings!RequestInv' /\ Settings!SeenInv'
           /\ request' \in [Admins -> Settings!Call \cup {None}]
           /\ \A b \in Admins \ {a} : request'[b] = request[b]
           /\ ~Settings!Decides(a, {"create", "default"})' /\ ~Settings!Decides(a, {"update"})'
<1>1. /\ request' \in [Admins -> Settings!Call \cup {None}]
      /\ \A b \in Admins \ {a} : request'[b] = request[b]
      /\ request'[a].op = request[a].op /\ request'[a].id = request[a].id
      /\ request'[a].body = request[a].body /\ request'[a].kind = request[a].kind
      /\ request'[a].step = "done"
  BY ReplyEffect
<1>2. Settings!RequestInv'
  BY <1>1, RequestKept
<1>3. Settings!SeenInv'
  <2>1. \A b \in Admins : request'[b] # None /\ request'[b].step = "read" =>
           request[b] # None /\ request[b].step = "read" /\ request'[b].seen = request[b].seen
    BY <1>1
  <2> QED
    BY <2>1, SeenKept
<1>4. ~Settings!Decides(a, {"create", "default"})' /\ ~Settings!Decides(a, {"update"})'
  BY <1>1 DEF Settings!Decides, Settings!Reading
<1> QED
  BY <1>1, <1>2, <1>3, <1>4

\* Rows whose columns stay, but perhaps for the defaults, and rows that go, disturb no edit.
LEMMA EditsUndisturbed ==
    ASSUME Settings!SettingsInv, NEW a \in Admins, UNCHANGED <<list, meant, races>>,
           \A b \in Admins \ {a} : request'[b] = request[b],
           ~Settings!Decides(a, {"update"})',
           \A id \in Settings!Ids : providers'[id] # None =>
               /\ providers[id] # None /\ Settings!Editable(providers'[id]) = Settings!Editable(providers[id])
               /\ providers'[id].key = providers[id].key
    PROVE  Settings!EditInv'
<1> SUFFICES ASSUME "edits" \notin races
             PROVE  /\ \A id \in Settings!Ids : providers'[id] # None =>
                          meant[id] = [key |-> providers'[id].key, settings |-> providers'[id].settings]
                    /\ \A b \in Admins : Settings!Decides(b, {"update"})' =>
                          /\ request'[b].seen[request'[b].id] # None
                          /\ Settings!Editable(request'[b].seen[request'[b].id])
                             = Settings!Editable(list[b][request'[b].id])
                          /\ providers'[request'[b].id] # None =>
                                /\ Settings!Editable(providers'[request'[b].id])
                                   = Settings!Editable(request'[b].seen[request'[b].id])
                                /\ providers'[request'[b].id].key = request'[b].seen[request'[b].id].key
                    /\ \A b, c \in Admins :
                          Settings!Decides(b, {"update"})' /\ Settings!Decides(c, {"update"})'
                          /\ request'[b].id = request'[c].id => b = c
  BY DEF Settings!EditInv, Settings!Stored, Settings!Editable
<1>1. ASSUME NEW id \in Settings!Ids, providers'[id] # None
      PROVE  meant[id] = [key |-> providers'[id].key, settings |-> providers'[id].settings]
  <2>1. /\ providers[id] # None /\ providers'[id].key = providers[id].key
        /\ providers'[id].settings = providers[id].settings
    BY <1>1 DEF Settings!Editable
  <2> QED
    BY <2>1 DEF Settings!SettingsInv, Settings!EditInv, Settings!Stored
<1>2. \A b \in Admins : Settings!Decides(b, {"update"})' =>
         b # a /\ Settings!Decides(b, {"update"}) /\ request'[b] = request[b] /\ request[b].id \in Settings!Ids
  BY DEF Settings!Decides, Settings!Under, Settings!Reading, Settings!SettingsInv, Settings!RequestInv
<1>3. ASSUME NEW b \in Admins, Settings!Decides(b, {"update"})'
      PROVE  /\ request'[b].seen[request'[b].id] # None
             /\ Settings!Editable(request'[b].seen[request'[b].id]) = Settings!Editable(list[b][request'[b].id])
             /\ providers'[request'[b].id] # None =>
                   /\ Settings!Editable(providers'[request'[b].id])
                      = Settings!Editable(request'[b].seen[request'[b].id])
                   /\ providers'[request'[b].id].key = request'[b].seen[request'[b].id].key
  <2>1. /\ request[b].seen[request[b].id] # None
        /\ Settings!Editable(request[b].seen[request[b].id]) = Settings!Editable(list[b][request[b].id])
        /\ providers[request[b].id] # None =>
              /\ Settings!Editable(providers[request[b].id]) = Settings!Editable(request[b].seen[request[b].id])
              /\ providers[request[b].id].key = request[b].seen[request[b].id].key
    BY <1>2, <1>3 DEF Settings!SettingsInv, Settings!EditInv
  <2> QED
    BY <1>2, <1>3, <2>1
<1>4. \A b, c \in Admins : Settings!Decides(b, {"update"})' /\ Settings!Decides(c, {"update"})'
                           /\ request'[b].id = request'[c].id => b = c
  BY <1>2 DEF Settings!SettingsInv, Settings!EditInv
<1> QED
  BY <1>1, <1>3, <1>4

\* Who is the only one to decide about the defaults leaves nobody who does.
LEMMA LastDecider ==
    ASSUME Settings!SettingsInv, NEW a \in Admins, Settings!Decides(a, {"create", "default"}),
           \A b \in Admins \ {a} : request'[b] = request[b],
           ~Settings!Decides(a, {"create", "default"})', "defaults" \notin races
    PROVE  \A b \in Admins : ~Settings!Decides(b, {"create", "default"})'
BY DEF Settings!SettingsInv, Settings!DefaultInv, Settings!Decides, Settings!Under, Settings!Reading

LEMMA CreateKeeps ==
    ASSUME Settings!SettingsInv, NEW a \in Admins, Settings!CommitCreate(a)
    PROVE  Settings!SettingsInv'
<1> DEFINE body == request[a].body
           n == created + 1
           default == [kind \in Settings!Kinds |-> Settings!Stored(request[a].seen) = {}]
           row == Settings!Row(body.type, body.url, body.key, body.settings, body.enabled, default)
           aim == [key |-> body.key, settings |-> body.settings]
<1>1. /\ request[a] # None /\ request[a].op = "create" /\ request[a].step = "read"
      /\ created < MaxProviders /\ created' = n
      /\ providers' = [providers EXCEPT ![n] = row] /\ meant' = [meant EXCEPT ![n] = aim]
      /\ Settings!Reply(a, "done") /\ UNCHANGED <<list, editor, changes, races>>
  BY DEF Settings!CommitCreate, Settings!At
<1>2. /\ created \in Nat /\ providers \in Settings!Table
      /\ meant \in [Settings!Ids -> Settings!Meant \cup {None}]
      /\ \A id \in Settings!Ids : id <= created => meant[id] \in Settings!Meant
  BY DEF Settings!SettingsInv, Settings!TypeOK
<1>3. n \in Settings!Ids /\ n \in Nat /\ created <= n /\ ~(n <= created)
  BY <1>1, <1>2, SettingsAssumption DEF Settings!Ids
<1>4. body \in Settings!Body /\ body.key # None
  BY <1>1 DEF Settings!SettingsInv, Settings!RequestInv, Settings!Under
<1>5. row \in Settings!Provider /\ aim \in Settings!Meant
  <2>1. default \in [Settings!Kinds -> BOOLEAN]
    BY Zenon
  <2> HIDE DEF default
  <2> QED
    BY <1>4, <2>1 DEF Settings!Row, Settings!Provider, Settings!Body, Settings!Meant
<1>6. /\ row.key = aim.key /\ row.settings = aim.settings /\ row.is_default = default
      /\ aim = [key |-> aim.key, settings |-> aim.settings]
  <2> HIDE DEF default
  <2> QED
    BY DEF Settings!Row
<1>f. \A id \in Settings!Ids : providers[id] # None => id <= created
  BY DEF Settings!SettingsInv, Settings!SeenInv
<1>g. providers[n] = None
  BY <1>3, <1>f
<1> HIDE DEF n, row, aim, default, body
<1>7. /\ providers' \in Settings!Table
      /\ \A id \in Settings!Ids : providers'[id] = IF id = n THEN row ELSE providers[id]
      /\ \A id \in Settings!Ids : meant'[id] = IF id = n THEN aim ELSE meant[id]
      /\ meant' \in [Settings!Ids -> Settings!Meant \cup {None}]
  BY <1>1, <1>2, <1>3, <1>5 DEF Settings!Table
<1>8. \A id \in Settings!Ids : providers'[id] # None => id <= created'
  BY <1>1, <1>2, <1>3, <1>7, <1>f, RowNumbers
<1>9. /\ Settings!RequestInv' /\ Settings!SeenInv'
      /\ request' \in [Admins -> Settings!Call \cup {None}]
      /\ \A b \in Admins \ {a} : request'[b] = request[b]
      /\ ~Settings!Decides(a, {"create", "default"})' /\ ~Settings!Decides(a, {"update"})'
  BY <1>1, <1>3, <1>8, DoneKeeps
<1>a. \A id \in Settings!Ids : id <= created' => meant'[id] \in Settings!Meant
  <2> SUFFICES ASSUME NEW id \in Settings!Ids, id <= created' PROVE meant'[id] \in Settings!Meant
    OBVIOUS
  <2>1. id = n \/ id <= created
    BY <1>1, <1>2, RowNumbers DEF n
  <2> QED
    BY <1>2, <1>5, <1>7, <2>1
<1>10. Settings!TypeOK'
  BY <1>1, <1>3, <1>7, <1>9, <1>a DEF Settings!SettingsInv, Settings!TypeOK
<1>11. Settings!DefaultInv'
  <2> SUFFICES ASSUME "defaults" \notin races PROVE Settings!DefaultInv'
    BY <1>1 DEF Settings!DefaultInv
  <2>0. Settings!Decides(a, {"create", "default"})
    BY <1>1 DEF Settings!Decides, Settings!Under, Settings!Reading
  <2>1. \A b \in Admins : ~Settings!Decides(b, {"create", "default"})'
    BY <1>9, <2>0, LastDecider
  <2>2. \A id \in Settings!Stored(providers) : request[a].seen[id] # None
    BY <2>0 DEF Settings!SettingsInv, Settings!DefaultInv
  <2>3. ASSUME NEW kind \in Settings!Kinds, NEW i \in Settings!Ids, NEW j \in Settings!Ids,
               providers'[i] # None, providers'[j] # None,
               providers'[i].is_default[kind], providers'[j].is_default[kind]
        PROVE  i = j
    <3>1. CASE Settings!Stored(request[a].seen) = {}
      <4>1. \A id \in Settings!Ids : providers[id] = None
        BY <2>2, <3>1 DEF Settings!Stored
      <4> QED
        BY <1>7, <2>3, <4>1
    <3>2. CASE Settings!Stored(request[a].seen) # {}
      <4>1. ~row.is_default[kind]
        BY <1>6, <3>2 DEF default
      <4>2. i # n /\ j # n
        BY Zenon, <1>7, <2>3, <4>1
      <4> QED
        BY Zenon, <1>7, <2>3, <4>2 DEF Settings!SettingsInv, Settings!DefaultInv, Settings!Stored
    <3> QED
      BY <3>1, <3>2
  <2> QED
    BY Zenon, <2>1, <2>3 DEF Settings!DefaultInv, Settings!Stored
<1>12. Settings!EditInv'
  <2> SUFFICES ASSUME "edits" \notin races
               PROVE  /\ \A id \in Settings!Ids : providers'[id] # None =>
                            meant'[id] = [key |-> providers'[id].key, settings |-> providers'[id].settings]
                      /\ \A b \in Admins : Settings!Decides(b, {"update"})' =>
                            /\ request'[b].seen[request'[b].id] # None
                            /\ Settings!Editable(request'[b].seen[request'[b].id])
                               = Settings!Editable(list[b][request'[b].id])
                            /\ providers'[request'[b].id] # None =>
                                  /\ Settings!Editable(providers'[request'[b].id])
                                     = Settings!Editable(request'[b].seen[request'[b].id])
                                  /\ providers'[request'[b].id].key = request'[b].seen[request'[b].id].key
                      /\ \A b, c \in Admins :
                            Settings!Decides(b, {"update"})' /\ Settings!Decides(c, {"update"})'
                            /\ request'[b].id = request'[c].id => b = c
    BY <1>1 DEF Settings!EditInv, Settings!Stored, Settings!Editable
  <2>1. ASSUME NEW id \in Settings!Ids, providers'[id] # None
        PROVE  meant'[id] = [key |-> providers'[id].key, settings |-> providers'[id].settings]
    <3>1. CASE id = n
      BY <1>6, <1>7, <3>1
    <3>2. CASE id # n
      BY <1>7, <2>1, <3>2 DEF Settings!SettingsInv, Settings!EditInv, Settings!Stored
    <3> QED
      BY <3>1, <3>2
  <2>2. \A b \in Admins : Settings!Decides(b, {"update"})' =>
           b # a /\ Settings!Decides(b, {"update"}) /\ request'[b] = request[b] /\ request[b].id \in Settings!Ids
    BY <1>9 DEF Settings!Decides, Settings!Under, Settings!Reading, Settings!SettingsInv, Settings!RequestInv
  <2>3. ASSUME NEW b \in Admins, Settings!Decides(b, {"update"})'
        PROVE  /\ request'[b].seen[request'[b].id] # None
               /\ Settings!Editable(request'[b].seen[request'[b].id]) = Settings!Editable(list[b][request'[b].id])
               /\ providers'[request'[b].id] # None =>
                     /\ Settings!Editable(providers'[request'[b].id])
                        = Settings!Editable(request'[b].seen[request'[b].id])
                     /\ providers'[request'[b].id].key = request'[b].seen[request'[b].id].key
    <3>1. /\ request[b].seen[request[b].id] # None
          /\ Settings!Editable(request[b].seen[request[b].id]) = Settings!Editable(list[b][request[b].id])
          /\ providers[request[b].id] # None =>
                /\ Settings!Editable(providers[request[b].id])
                   = Settings!Editable(request[b].seen[request[b].id])
                /\ providers[request[b].id].key = request[b].seen[request[b].id].key
      BY <2>2, <2>3 DEF Settings!SettingsInv, Settings!EditInv
    <3>2. request[b].id # n
      <4>1. \A id \in Settings!Ids : request[b].seen[id] # None => id <= created
        BY <2>2, <2>3 DEF Settings!SettingsInv, Settings!SeenInv, Settings!Decides, Settings!Under
      <4> QED
        BY <1>3, <2>2, <2>3, <3>1, <4>1
    <3> QED
      BY <1>7, <2>2, <2>3, <3>1, <3>2
  <2>4. \A b, c \in Admins : Settings!Decides(b, {"update"})' /\ Settings!Decides(c, {"update"})'
                             /\ request'[b].id = request'[c].id => b = c
    BY <2>2 DEF Settings!SettingsInv, Settings!EditInv
  <2> QED
    BY <2>1, <2>3, <2>4
<1> QED
  BY <1>9, <1>10, <1>11, <1>12 DEF Settings!SettingsInv

LEMMA RefusalKeeps ==
    ASSUME Settings!SettingsInv, NEW a \in Admins, request[a] # None, Settings!Reply(a, "refused"),
           UNCHANGED <<providers, created, list, editor, changes, meant>>, races \subseteq races'
    PROVE  Settings!SettingsInv'
<1>1. /\ request' \in [Admins -> Settings!Call \cup {None}]
      /\ \A b \in Admins \ {a} : request'[b] = request[b]
      /\ request'[a].op = request[a].op /\ request'[a].id = request[a].id
      /\ request'[a].body = request[a].body /\ request'[a].kind = request[a].kind
      /\ request'[a].step = "refused"
  BY ReplyEffect
<1>2. /\ list' \in [Admins -> Settings!Table]
      /\ editor' \in [Admins -> [id : Settings!Ids \cup {0}, form : Settings!Filled] \cup {None}]
  BY DEF Settings!SettingsInv, Settings!TypeOK
<1> QED
  BY <1>1, <1>2, AnsweredKeeps

LEMMA DeleteKeeps ==
    ASSUME Settings!SettingsInv, NEW a \in Admins, Settings!CommitDelete(a)
    PROVE  Settings!SettingsInv'
<1>1. /\ request[a] # None /\ request[a].op = "delete" /\ request[a].step = "read"
      /\ providers' = [providers EXCEPT ![request[a].id] = None] /\ Settings!Reply(a, "done")
      /\ UNCHANGED <<created, list, editor, changes, meant, races>>
  BY DEF Settings!CommitDelete, Settings!At
<1>2. request[a].id \in Settings!Ids
  BY <1>1 DEF Settings!SettingsInv, Settings!RequestInv, Settings!Under
<1>3. /\ providers' \in Settings!Table
      /\ \A id \in Settings!Ids : providers'[id] # None => providers[id] # None /\ providers'[id] = providers[id]
  BY <1>1, <1>2 DEF Settings!SettingsInv, Settings!TypeOK, Settings!Table
<1>4. created' \in Nat /\ created <= created' /\ \A id \in Settings!Ids : providers'[id] # None => id <= created'
  BY <1>1, <1>3 DEF Settings!SettingsInv, Settings!TypeOK, Settings!SeenInv
<1>5. /\ Settings!RequestInv' /\ Settings!SeenInv'
      /\ request' \in [Admins -> Settings!Call \cup {None}]
      /\ \A b \in Admins \ {a} : request'[b] = request[b]
      /\ ~Settings!Decides(a, {"create", "default"})' /\ ~Settings!Decides(a, {"update"})'
  BY <1>1, <1>4, DoneKeeps
<1>6. Settings!TypeOK'
  BY <1>1, <1>3, <1>5 DEF Settings!SettingsInv, Settings!TypeOK
<1>7. Settings!DefaultInv'
  <2> SUFFICES ASSUME "defaults" \notin races PROVE Settings!DefaultInv'
    BY <1>1 DEF Settings!DefaultInv
  <2>1. \A b \in Admins : Settings!Decides(b, {"create", "default"})' =>
           Settings!Decides(b, {"create", "default"}) /\ request'[b] = request[b]
    BY <1>5 DEF Settings!Decides, Settings!Under, Settings!Reading
  <2>2. /\ \A kind \in Settings!Kinds : \A i, j \in Settings!Stored(providers)' :
              providers'[i].is_default[kind] /\ providers'[j].is_default[kind] => i = j
        /\ \A b, c \in Admins : Settings!Decides(b, {"create", "default"})'
                                /\ Settings!Decides(c, {"create", "default"})' => b = c
    BY Zenon, <1>3, <2>1 DEF Settings!SettingsInv, Settings!DefaultInv, Settings!Stored
  <2>3. ASSUME NEW b \in Admins, Settings!Decides(b, {"create", "default"})',
               NEW id \in Settings!Stored(providers)'
        PROVE  request'[b].seen[id] # None /\ providers'[id].is_default = request'[b].seen[id].is_default
    <3>1. id \in Settings!Stored(providers) /\ providers'[id] = providers[id]
      BY <1>3, <2>3 DEF Settings!Stored
    <3>2. request[b].seen[id] # None /\ providers[id].is_default = request[b].seen[id].is_default
      BY <2>1, <2>3, <3>1 DEF Settings!SettingsInv, Settings!DefaultInv
    <3> QED
      BY <2>1, <2>3, <3>1, <3>2
  <2> QED
    BY Zenon, <2>2, <2>3 DEF Settings!DefaultInv
<1>8. Settings!EditInv'
  BY <1>1, <1>3, <1>5, EditsUndisturbed
<1> QED
  BY <1>5, <1>6, <1>7, <1>8 DEF Settings!SettingsInv

LEMMA ChoiceKeeps ==
    ASSUME Settings!SettingsInv, NEW a \in Admins, Settings!CommitDefault(a)
    PROVE  Settings!SettingsInv'
<1> DEFINE seen == request[a].seen
           kind == request[a].kind
           wanted(id) == id = request[a].id
           changed == {id \in Settings!Stored(seen) : wanted(id) # seen[id].is_default[kind]}
<1>1. /\ request[a] # None /\ request[a].op = "default" /\ request[a].step = "read"
      /\ UNCHANGED <<created, list, editor, changes, meant, races>>
      /\ \/ Settings!Reply(a, "refused") /\ UNCHANGED providers
         \/ /\ changed \subseteq Settings!Stored(providers)
            /\ providers' = [id \in Settings!Ids |-> IF id \in changed
                                 THEN [providers[id] EXCEPT !.is_default[kind] = wanted(id)]
                                 ELSE providers[id]]
            /\ Settings!Reply(a, "done")
  BY Zenon DEF Settings!CommitDefault, Settings!At
<1>2. CASE Settings!Reply(a, "refused") /\ UNCHANGED providers
  BY <1>1, <1>2, RefusalKeeps
<1>3. CASE /\ changed \subseteq Settings!Stored(providers)
           /\ providers' = [id \in Settings!Ids |-> IF id \in changed
                                 THEN [providers[id] EXCEPT !.is_default[kind] = wanted(id)]
                                 ELSE providers[id]]
           /\ Settings!Reply(a, "done")
  <2>0. kind \in Settings!Kinds /\ request[a].id \in Settings!Ids
    BY <1>1 DEF Settings!SettingsInv, Settings!RequestInv, Settings!Under
  <2>1. \A id \in Settings!Ids \ changed : providers'[id] = providers[id]
    <3> HIDE DEF changed
    <3> QED
      BY <1>3
  <2>2. ASSUME NEW id \in changed
        PROVE  /\ id \in Settings!Ids /\ providers[id] # None /\ providers'[id] \in Settings!Provider
               /\ Settings!Editable(providers'[id]) = Settings!Editable(providers[id])
               /\ providers'[id].key = providers[id].key
               /\ providers'[id].is_default = [providers[id].is_default EXCEPT ![kind] = wanted(id)]
    <3>1. id \in Settings!Ids /\ providers[id] # None
      BY <1>3 DEF Settings!Stored
    <3>2. providers[id] \in Settings!Provider
      BY <3>1 DEF Settings!SettingsInv, Settings!TypeOK, Settings!Table
    <3> DEFINE bool == wanted(id)
    <3>3. bool \in BOOLEAN
      OBVIOUS
    <3>4. providers'[id] = [providers[id] EXCEPT !.is_default[kind] = bool]
      <4> HIDE DEF changed
      <4> QED
        BY <1>3, <3>1
    <3> DEFINE flags == [providers[id].is_default EXCEPT ![kind] = bool]
    <3>5. flags \in [Settings!Kinds -> BOOLEAN]
      <4> HIDE DEF bool
      <4> QED
        BY <2>0, <3>2, <3>3 DEF Settings!Provider
    <3>6. providers'[id] = [providers[id] EXCEPT !.is_default = flags]
      <4> HIDE DEF bool
      <4> QED
        BY <3>4
    <3>7. flags = [providers[id].is_default EXCEPT ![kind] = wanted(id)]
      BY DEF flags, bool
    <3> HIDE DEF flags, bool
    <3>8. providers'[id] \in Settings!Provider /\ providers'[id].is_default = flags
          /\ providers'[id].key = providers[id].key /\ providers'[id].type = providers[id].type
          /\ providers'[id].url = providers[id].url /\ providers'[id].settings = providers[id].settings
          /\ providers'[id].enabled = providers[id].enabled
      <4> HIDE DEF changed
      <4> QED
        BY <3>2, <3>5, <3>6 DEF Settings!Provider
    <3> QED
      BY <3>1, <3>7, <3>8 DEF Settings!Editable
  <2>9. \A id \in changed : providers[id] # None /\ providers[id] \in Settings!Provider
    BY <1>3 DEF Settings!Stored, Settings!SettingsInv, Settings!TypeOK, Settings!Table
  <2> HIDE DEF changed
  <2>3. /\ providers' \in Settings!Table
        /\ \A id \in Settings!Ids : providers'[id] # None =>
              /\ providers[id] # None /\ Settings!Editable(providers'[id]) = Settings!Editable(providers[id])
              /\ providers'[id].key = providers[id].key
    <3>1. \A id \in Settings!Ids : providers'[id] \in Settings!Provider \cup {None}
      <4>1. \A id \in Settings!Ids : providers[id] \in Settings!Provider \cup {None}
        BY DEF Settings!SettingsInv, Settings!TypeOK, Settings!Table
      <4> QED
        BY <2>1, <2>2, <4>1
    <3>2. providers' = [id \in Settings!Ids |-> providers'[id]]
      BY <1>3
    <3>3. providers' \in Settings!Table
      BY Zenon, <3>1, <3>2 DEF Settings!Table
    <3> QED
      BY <2>1, <2>2, <3>3
  <2>4. created' \in Nat /\ created <= created' /\ \A id \in Settings!Ids : providers'[id] # None => id <= created'
    BY <1>1, <2>3 DEF Settings!SettingsInv, Settings!TypeOK, Settings!SeenInv
  <2>5. /\ Settings!RequestInv' /\ Settings!SeenInv'
        /\ request' \in [Admins -> Settings!Call \cup {None}]
        /\ \A b \in Admins \ {a} : request'[b] = request[b]
        /\ ~Settings!Decides(a, {"create", "default"})' /\ ~Settings!Decides(a, {"update"})'
    BY <1>1, <1>3, <2>4, DoneKeeps
  <2>6. Settings!TypeOK'
    BY <1>1, <2>3, <2>5 DEF Settings!SettingsInv, Settings!TypeOK
  <2>7. Settings!DefaultInv'
    <3> SUFFICES ASSUME "defaults" \notin races PROVE Settings!DefaultInv'
      BY <1>1 DEF Settings!DefaultInv
    <3>0. Settings!Decides(a, {"create", "default"})
      BY <1>1 DEF Settings!Decides, Settings!Under, Settings!Reading
    <3>1. \A b \in Admins : ~Settings!Decides(b, {"create", "default"})'
      BY <2>5, <3>0, LastDecider
    <3>2. \A id \in Settings!Ids : providers[id] # None =>
             request[a].seen[id] # None /\ providers[id].is_default = request[a].seen[id].is_default
      BY <3>0 DEF Settings!SettingsInv, Settings!DefaultInv, Settings!Stored
    <3>3. ASSUME NEW i \in Settings!Ids, providers'[i] # None, providers'[i].is_default[kind]
          PROVE  wanted(i)
      <4>1. CASE i \in changed
        <5>1. providers[i].is_default \in [Settings!Kinds -> BOOLEAN]
          <6>1. providers[i] \in Settings!Provider
            BY <2>9, <4>1
          <6> QED
            BY <6>1 DEF Settings!Provider
        <5>2. providers'[i].is_default[kind] = wanted(i)
          <6> DEFINE old == providers[i].is_default
                     bool == wanted(i)
          <6>1. providers'[i].is_default = [old EXCEPT ![kind] = bool] /\ old \in [Settings!Kinds -> BOOLEAN]
            BY <2>2, <4>1, <5>1
          <6> HIDE DEF old, bool
          <6>2. providers'[i].is_default[kind] = bool
            BY <2>0, <6>1
          <6> QED
            BY Zenon, <6>2 DEF bool
        <5> QED
          BY Zenon, <3>3, <5>2
      <4>2. CASE i \notin changed
        <5>1. providers'[i] = providers[i]
          BY <2>1, <4>2
        <5>2. /\ request[a].seen[i] # None /\ providers[i].is_default = request[a].seen[i].is_default
          BY <3>2, <3>3, <5>1
        <5>3. wanted(i) = request[a].seen[i].is_default[kind]
          BY Zenon, <4>2, <5>2 DEF changed, Settings!Stored
        <5> QED
          BY Zenon, <3>3, <5>1, <5>2, <5>3
      <4> QED
        BY <4>1, <4>2
    <3>4. ASSUME NEW i \in Settings!Ids, providers'[i] # None, NEW use \in Settings!Kinds, use # kind,
                 providers'[i].is_default[use]
          PROVE  providers[i] # None /\ providers[i].is_default[use]
      <4>1. CASE i \in changed
        <5>1. providers[i] # None /\ providers[i] \in Settings!Provider
          BY <2>9, <4>1
        <5>2. providers[i].is_default \in [Settings!Kinds -> BOOLEAN]
          BY <5>1 DEF Settings!Provider
        <5> DEFINE old == providers[i].is_default
                   bool == wanted(i)
        <5>3. providers'[i].is_default = [old EXCEPT ![kind] = bool] /\ old \in [Settings!Kinds -> BOOLEAN]
          BY <2>2, <4>1, <5>2
        <5> HIDE DEF old, bool
        <5>4. providers'[i].is_default[use] = old[use]
          BY <3>4, <5>3
        <5> QED
          BY Zenon, <3>4, <5>1, <5>4 DEF old
      <4>2. CASE i \notin changed
        BY <2>1, <3>4, <4>2
      <4> QED
        BY <4>1, <4>2
    <3>5. ASSUME NEW use \in Settings!Kinds, NEW i \in Settings!Ids, NEW j \in Settings!Ids,
                 providers'[i] # None, providers'[j] # None,
                 providers'[i].is_default[use], providers'[j].is_default[use]
          PROVE  i = j
      <4>1. CASE use = kind
        BY Zenon, <3>3, <3>5, <4>1
      <4>2. CASE use # kind
        BY Zenon, <3>4, <3>5, <4>2 DEF Settings!SettingsInv, Settings!DefaultInv, Settings!Stored
      <4> QED
        BY <4>1, <4>2
    <3> QED
      BY Zenon, <3>1, <3>5 DEF Settings!DefaultInv, Settings!Stored
  <2>8. Settings!EditInv'
    BY <1>1, <2>3, <2>5, EditsUndisturbed
  <2> QED
    BY <2>5, <2>6, <2>7, <2>8 DEF Settings!SettingsInv
<1> QED
  BY <1>1, <1>2, <1>3

LEMMA UpdateKeeps ==
    ASSUME Settings!SettingsInv, NEW a \in Admins, Settings!CommitUpdate(a)
    PROVE  Settings!SettingsInv'
<1> DEFINE id == request[a].id
           body == request[a].body
           seen == request[a].seen[id]
           Put(new, old, now) == IF new # old THEN new ELSE now
           was == providers[id]
           key == IF body.key = None THEN was.key ELSE Put(body.key, seen.key, was.key)
           row == Settings!Row(Put(body.type, seen.type, was.type), Put(body.url, seen.url, was.url), key,
                               Put(body.settings, seen.settings, was.settings),
                               Put(body.enabled, seen.enabled, was.enabled), was.is_default)
           written == editor[a].form
           aim == [key |-> IF written.clear THEN Settings!Blank
                           ELSE IF written.key = Settings!Blank THEN meant[id].key ELSE written.key,
                   settings |-> written.settings]
<1>1. /\ request[a] # None /\ request[a].op = "update" /\ request[a].step = "read"
      /\ UNCHANGED <<created, list, editor, changes, races>>
      /\ \/ Settings!Reply(a, "refused") /\ UNCHANGED <<providers, meant>>
         \/ /\ was # None
            /\ providers' = [providers EXCEPT ![id] = row]
            /\ meant' = IF editor[a] = None THEN meant ELSE [meant EXCEPT ![id] = aim]
            /\ Settings!Reply(a, "done")
  BY Zenon DEF Settings!CommitUpdate, Settings!At, Settings!Form
<1>2. CASE Settings!Reply(a, "refused") /\ UNCHANGED <<providers, meant>>
  BY <1>1, <1>2, RefusalKeeps
<1>3. CASE /\ was # None
           /\ providers' = [providers EXCEPT ![id] = row]
           /\ meant' = IF editor[a] = None THEN meant ELSE [meant EXCEPT ![id] = aim]
           /\ Settings!Reply(a, "done")
  <2>1. /\ id \in Settings!Ids /\ body \in Settings!Body
        /\ IF editor[a] = None
           THEN body.key = None /\ list[a][id] # None /\ body.settings = list[a][id].settings
           ELSE /\ editor[a].id = id /\ body.key = Settings!BodyKey(id, written)
                /\ body.settings = written.settings
    BY <1>1 DEF Settings!SettingsInv, Settings!RequestInv, Settings!Under, Settings!Form
  <2>2. /\ providers \in Settings!Table /\ was \in Settings!Provider
        /\ meant \in [Settings!Ids -> Settings!Meant \cup {None}]
        /\ editor[a] # None => written \in Settings!Filled
    BY <1>3, <2>1 DEF Settings!SettingsInv, Settings!TypeOK, Settings!Table
  <2>3. row \in Settings!Provider
    <3>1. key \in Settings!Keys
      BY <2>1, <2>2 DEF Settings!Body, Settings!Provider
    <3> HIDE DEF key
    <3> QED
      BY <2>1, <2>2, <3>1 DEF Settings!Row, Settings!Body, Settings!Provider
  <2>4. row.key = key /\ row.settings = Put(body.settings, seen.settings, was.settings) /\ row.is_default = was.is_default
    BY DEF Settings!Row
  <2>5. Settings!Decides(a, {"update"})
    BY <1>1 DEF Settings!Decides, Settings!Under, Settings!Reading
  <2>6. "edits" \notin races =>
           /\ meant[id] = [key |-> was.key, settings |-> was.settings]
           /\ was.settings = seen.settings /\ was.key = seen.key
           /\ seen.settings = list[a][id].settings
    <3> SUFFICES ASSUME "edits" \notin races
                 PROVE  /\ meant[id] = [key |-> was.key, settings |-> was.settings]
                        /\ was.settings = seen.settings /\ was.key = seen.key
                        /\ seen.settings = list[a][id].settings
      OBVIOUS
    <3>1. meant[id] = [key |-> was.key, settings |-> was.settings]
      BY <1>3, <2>1 DEF Settings!SettingsInv, Settings!EditInv, Settings!Stored
    <3>2. /\ Settings!Editable(seen) = Settings!Editable(list[a][id])
          /\ Settings!Editable(was) = Settings!Editable(seen) /\ was.key = seen.key
      BY <1>3, <2>5 DEF Settings!SettingsInv, Settings!EditInv
    <3> QED
      BY <3>1, <3>2 DEF Settings!Editable
  <2>7. "edits" \notin races => row.key = key /\ row.settings = body.settings
    BY <2>4, <2>6
  <2>8. editor[a] # None => aim \in Settings!Meant
    <3> SUFFICES ASSUME editor[a] # None PROVE aim \in Settings!Meant
      OBVIOUS
    <3>1. id <= created
      BY <1>3, <2>1 DEF Settings!SettingsInv, Settings!SeenInv
    <3>2. meant[id] \in Settings!Meant
      BY <2>1, <3>1 DEF Settings!SettingsInv, Settings!TypeOK
    <3>3. /\ meant[id].key \in Settings!Keys /\ written.key \in Settings!Keys /\ written.settings \in Nat
          /\ Settings!Blank \in Settings!Keys
      BY <2>1, <2>2, <3>2 DEF Settings!Filled, Settings!Keys, Settings!Meant
    <3> QED
      BY <3>3 DEF Settings!Meant
  <2>9. "edits" \notin races => row.key = key /\ row.settings = body.settings
           /\ (IF editor[a] = None THEN meant[id] ELSE aim) = [key |-> row.key, settings |-> row.settings]
    <3> SUFFICES ASSUME "edits" \notin races
                 PROVE  (IF editor[a] = None THEN meant[id] ELSE aim) = [key |-> row.key, settings |-> row.settings]
      BY <2>7
    <3>1. CASE editor[a] = None
      <4>1. body.key = None /\ body.settings = list[a][id].settings
        BY <2>1, <3>1
      <4>2. key = was.key
        BY <4>1
      <4> QED
        BY <2>6, <2>7, <3>1, <4>1, <4>2, ZenonT(30)
    <3>2. CASE editor[a] # None
      <4>1. body.key = Settings!BodyKey(id, written) /\ body.settings = written.settings /\ id # 0
        BY <2>1, <3>2, SettingsAssumption DEF Settings!Ids
      <4>2. key = aim.key
        <5>1. key = IF body.key = None THEN was.key ELSE body.key
          BY <2>6
        <5>2. meant[id].key = was.key /\ None # Settings!Blank /\ written.key # None
          BY <2>2, <2>6, <3>2, SettingsAssumption DEF Settings!Filled, Settings!Keys
        <5> HIDE DEF key
        <5> QED
          BY <4>1, <5>1, <5>2 DEF Settings!BodyKey
      <4>3. aim = [key |-> aim.key, settings |-> aim.settings] /\ aim.settings = body.settings
        BY <4>1
      <4> HIDE DEF aim, row
      <4> QED
        BY <2>7, <3>2, <4>2, <4>3
    <3> QED
      BY <3>1, <3>2
  <2>10. row.is_default = was.is_default
    BY <2>4
  <2> HIDE DEF row, aim, key, seen, body, written, Put
  <2>11. /\ providers' \in Settings!Table
         /\ \A i \in Settings!Ids : providers'[i] = IF i = id THEN row ELSE providers[i]
    BY <1>3, <2>1, <2>2, <2>3 DEF Settings!Table
  <2>12. /\ meant' \in [Settings!Ids -> Settings!Meant \cup {None}]
         /\ \A i \in Settings!Ids : meant'[i] = IF i = id /\ editor[a] # None THEN aim ELSE meant[i]
    BY <1>3, <2>1, <2>2, <2>8
  <2>13. \A i \in Settings!Ids : providers'[i] # None => providers[i] # None /\ i <= created'
    BY <1>1, <1>3, <2>11 DEF Settings!SettingsInv, Settings!SeenInv
  <2>14. created' \in Nat /\ created <= created'
    BY <1>1 DEF Settings!SettingsInv, Settings!TypeOK
  <2>15. /\ Settings!RequestInv' /\ Settings!SeenInv'
         /\ request' \in [Admins -> Settings!Call \cup {None}]
         /\ \A b \in Admins \ {a} : request'[b] = request[b]
         /\ ~Settings!Decides(a, {"create", "default"})' /\ ~Settings!Decides(a, {"update"})'
    BY <1>1, <1>3, <2>13, <2>14, DoneKeeps
  <2>16. Settings!TypeOK'
    <3>1. \A i \in Settings!Ids : i <= created' => meant'[i] \in Settings!Meant
      BY <1>1, <2>8, <2>12 DEF Settings!SettingsInv, Settings!TypeOK
    <3> QED
      BY <1>1, <2>11, <2>12, <2>15, <3>1 DEF Settings!SettingsInv, Settings!TypeOK
  <2>17. Settings!DefaultInv'
    <3> SUFFICES ASSUME "defaults" \notin races PROVE Settings!DefaultInv'
      BY <1>1 DEF Settings!DefaultInv
    <3>1. \A i \in Settings!Stored(providers)' :
             i \in Settings!Stored(providers) /\ providers'[i].is_default = providers[i].is_default
      BY <2>10, <2>11, <2>13 DEF Settings!Stored
    <3>2. \A b \in Admins : Settings!Decides(b, {"create", "default"})' =>
             Settings!Decides(b, {"create", "default"}) /\ request'[b] = request[b]
      BY <2>15 DEF Settings!Decides, Settings!Under, Settings!Reading
    <3>3. /\ \A kind \in Settings!Kinds : \A i, j \in Settings!Stored(providers)' :
                providers'[i].is_default[kind] /\ providers'[j].is_default[kind] => i = j
          /\ \A b, c \in Admins : Settings!Decides(b, {"create", "default"})'
                                  /\ Settings!Decides(c, {"create", "default"})' => b = c
      BY Zenon, <3>1, <3>2 DEF Settings!SettingsInv, Settings!DefaultInv
    <3>4. ASSUME NEW b \in Admins, Settings!Decides(b, {"create", "default"})',
                 NEW i \in Settings!Stored(providers)'
          PROVE  request'[b].seen[i] # None /\ providers'[i].is_default = request'[b].seen[i].is_default
      <4>1. request[b].seen[i] # None /\ providers[i].is_default = request[b].seen[i].is_default
        BY <3>1, <3>2, <3>4 DEF Settings!SettingsInv, Settings!DefaultInv
      <4> QED
        BY <3>1, <3>2, <3>4, <4>1
    <3> QED
      BY Zenon, <3>3, <3>4 DEF Settings!DefaultInv
  <2>18. Settings!EditInv'
    <3> SUFFICES ASSUME "edits" \notin races
                 PROVE  /\ \A i \in Settings!Ids : providers'[i] # None =>
                              meant'[i] = [key |-> providers'[i].key, settings |-> providers'[i].settings]
                        /\ \A b \in Admins : Settings!Decides(b, {"update"})' =>
                              /\ request'[b].seen[request'[b].id] # None
                              /\ Settings!Editable(request'[b].seen[request'[b].id])
                                 = Settings!Editable(list[b][request'[b].id])
                              /\ providers'[request'[b].id] # None =>
                                    /\ Settings!Editable(providers'[request'[b].id])
                                       = Settings!Editable(request'[b].seen[request'[b].id])
                                    /\ providers'[request'[b].id].key = request'[b].seen[request'[b].id].key
                        /\ \A b, c \in Admins :
                              Settings!Decides(b, {"update"})' /\ Settings!Decides(c, {"update"})'
                              /\ request'[b].id = request'[c].id => b = c
      BY <1>1 DEF Settings!EditInv, Settings!Stored, Settings!Editable
    <3>1. ASSUME NEW i \in Settings!Ids, providers'[i] # None
          PROVE  meant'[i] = [key |-> providers'[i].key, settings |-> providers'[i].settings]
      <4>1. CASE i = id
        BY <2>9, <2>11, <2>12, <4>1
      <4>2. CASE i # id
        BY <2>11, <2>12, <3>1, <4>2 DEF Settings!SettingsInv, Settings!EditInv, Settings!Stored
      <4> QED
        BY <4>1, <4>2
    <3>2. \A b \in Admins : Settings!Decides(b, {"update"})' =>
             /\ b # a /\ Settings!Decides(b, {"update"}) /\ request'[b] = request[b]
             /\ request[b].id \in Settings!Ids
      BY <2>15 DEF Settings!Decides, Settings!Under, Settings!Reading, Settings!SettingsInv, Settings!RequestInv
    <3>3. \A b, c \in Admins : Settings!Decides(b, {"update"}) /\ Settings!Decides(c, {"update"})
                               /\ request[b].id = request[c].id => b = c
      BY DEF Settings!SettingsInv, Settings!EditInv
    <3>4. ASSUME NEW b \in Admins, Settings!Decides(b, {"update"})'
          PROVE  /\ request'[b].seen[request'[b].id] # None
                 /\ Settings!Editable(request'[b].seen[request'[b].id])
                    = Settings!Editable(list[b][request'[b].id])
                 /\ providers'[request'[b].id] # None =>
                       /\ Settings!Editable(providers'[request'[b].id])
                          = Settings!Editable(request'[b].seen[request'[b].id])
                       /\ providers'[request'[b].id].key = request'[b].seen[request'[b].id].key
      <4>1. /\ request[b].seen[request[b].id] # None
            /\ Settings!Editable(request[b].seen[request[b].id]) = Settings!Editable(list[b][request[b].id])
            /\ providers[request[b].id] # None =>
                  /\ Settings!Editable(providers[request[b].id])
                     = Settings!Editable(request[b].seen[request[b].id])
                  /\ providers[request[b].id].key = request[b].seen[request[b].id].key
        BY <3>2, <3>4 DEF Settings!SettingsInv, Settings!EditInv
      <4>2. request[b].id # id
        BY <2>5, <3>2, <3>3, <3>4
      <4> QED
        BY <2>11, <3>2, <3>4, <4>1, <4>2
    <3>5. \A b, c \in Admins : Settings!Decides(b, {"update"})' /\ Settings!Decides(c, {"update"})'
                               /\ request'[b].id = request'[c].id => b = c
      BY <3>2, <3>3
    <3> QED
      BY <3>1, <3>4, <3>5
  <2> QED
    BY <2>15, <2>16, <2>17, <2>18 DEF Settings!SettingsInv
<1> QED
  BY <1>1, <1>2, <1>3

\* The dialog of a page that waits for nothing.
LEMMA ChangesKeep ==
    ASSUME Settings!SettingsInv, NEW a \in Admins, NEW new \in Settings!Filled, Settings!ChangeForm(a, new)
    PROVE  Settings!SettingsInv'
<1>1. /\ editor[a] # None /\ request[a] = None /\ changes' = changes + 1
      /\ editor' = [editor EXCEPT ![a].form = new]
      /\ UNCHANGED <<providers, created, list, request, meant, races>>
  BY DEF Settings!ChangeForm
<1>2. editor[a] \in [id : Settings!Ids \cup {0}, form : Settings!Filled] /\ changes \in Nat
  BY <1>1 DEF Settings!SettingsInv, Settings!TypeOK
<1> DEFINE other == [editor[a] EXCEPT !.form = new]
<1>3. /\ other \in [id : Settings!Ids \cup {0}, form : Settings!Filled] \cup {None}
      /\ editor' = [editor EXCEPT ![a] = other] /\ changes' \in Nat
  BY <1>1, <1>2
<1> HIDE DEF other
<1> QED
  BY <1>1, <1>3, DialogsFree

LEMMA Texts == {Settings!Blank, "usual", "own"} = Settings!Urls /\ {Settings!Blank, "old", "new"} = Settings!Keys
BY DEF Settings!Urls, Settings!Keys

LEMMA DialogSteps ==
    ASSUME Settings!SettingsInv, NEW a \in Admins,
           \/ \E id \in Settings!Ids \cup {0} : Settings!openDialog(a, id)
           \/ Settings!closeDialog(a)
           \/ \E type \in Settings!Types : Settings!changeType(a, type)
           \/ \E url \in {Settings!Blank, "own"} : Settings!setUrl(a, url)
           \/ Settings!setEnabled(a) \/ Settings!setSettings(a) \/ Settings!setKey(a, "new")
           \/ Settings!setClearKey(a)
    PROVE  Settings!SettingsInv'
<1>1. ASSUME NEW id \in Settings!Ids \cup {0}, Settings!openDialog(a, id) PROVE Settings!SettingsInv'
  <2> DEFINE row == list[a][id]
             new == IF id = 0
                    THEN [type |-> "cloud", url |-> Settings!Blank, key |-> Settings!Blank, clear |-> FALSE,
                          settings |-> 0, enabled |-> TRUE]
                    ELSE [type |-> row.type, url |-> row.url, key |-> Settings!Blank, clear |-> FALSE,
                          settings |-> row.settings, enabled |-> row.enabled]
             dialog0 == [id |-> id, form |-> new]
  <2>1. /\ request[a] = None
        /\ editor' = [editor EXCEPT ![a] = dialog0]
        /\ UNCHANGED <<providers, created, list, request, changes, meant, races>>
    BY <1>1, Zenon DEF Settings!openDialog
  <2>5. id # 0 => list[a][id] # None
    BY <1>1 DEF Settings!openDialog
  <2>2. new \in Settings!Filled
    <3>1. CASE id = 0
      BY <3>1 DEF Settings!Filled, Settings!Types, Settings!Urls, Settings!Keys
    <3>2. CASE id # 0
      <4>1. row \in Settings!Provider
        BY <2>5, <3>2 DEF Settings!SettingsInv, Settings!TypeOK, Settings!Table
      <4> QED
        BY <3>2, <4>1 DEF Settings!Filled, Settings!Provider, Settings!Keys
    <3> QED
      BY <3>1, <3>2
  <2>3. dialog0 \in [id : Settings!Ids \cup {0}, form : Settings!Filled] \cup {None}
    <3> HIDE DEF new
    <3> QED
      BY <2>2
  <2>4. changes' \in Nat
    BY <2>1 DEF Settings!SettingsInv, Settings!TypeOK
  <2> HIDE DEF dialog0
  <2> QED
    BY <2>1, <2>3, <2>4, DialogsFree
<1>2. ASSUME Settings!closeDialog(a) PROVE Settings!SettingsInv'
  <2>1. /\ request[a] = None /\ editor' = [editor EXCEPT ![a] = None] /\ changes' \in Nat
        /\ UNCHANGED <<providers, created, list, request, meant, races>>
    BY <1>2 DEF Settings!closeDialog, Settings!SettingsInv, Settings!TypeOK
  <2> QED
    BY <2>1, DialogsFree
<1>3. editor[a] # None => editor[a].form \in Settings!Filled
  BY DEF Settings!SettingsInv, Settings!TypeOK
<1>4. ASSUME NEW type \in Settings!Types, Settings!changeType(a, type) PROVE Settings!SettingsInv'
  <2> DEFINE old == editor[a].form
             url == IF old.url # Settings!Blank THEN old.url ELSE Settings!default_base_url(type)
             new == [old EXCEPT !.type = type, !.url = url]
  <2>1. editor[a] # None /\ Settings!ChangeForm(a, new)
    BY <1>4, Zenon DEF Settings!changeType, Settings!Form
  <2>2. old \in Settings!Filled
    BY <1>3, <2>1
  <2>3. url \in Settings!Urls
    BY <2>2 DEF Settings!Filled, Settings!Urls, Settings!default_base_url
  <2>4. new \in Settings!Filled
    <3> HIDE DEF url, old
    <3> QED
      BY <2>2, <2>3 DEF Settings!Filled
  <2> HIDE DEF new
  <2> QED
    BY <2>1, <2>4, ChangesKeep
<1>5. ASSUME NEW url \in {Settings!Blank, "own"}, Settings!setUrl(a, url) PROVE Settings!SettingsInv'
  <2> DEFINE new == [editor[a].form EXCEPT !.url = url]
  <2>1. editor[a] # None /\ Settings!ChangeForm(a, new)
    BY <1>5 DEF Settings!setUrl, Settings!Form
  <2>2. new \in Settings!Filled
    BY <1>3, <2>1, Texts DEF Settings!Filled
  <2> HIDE DEF new
  <2> QED
    BY <2>1, <2>2, ChangesKeep
<1>6. ASSUME Settings!setEnabled(a) PROVE Settings!SettingsInv'
  <2> DEFINE new == [editor[a].form EXCEPT !.enabled = ~@]
  <2>1. editor[a] # None /\ Settings!ChangeForm(a, new)
    BY <1>6 DEF Settings!setEnabled, Settings!Form
  <2>2. new \in Settings!Filled
    BY <1>3, <2>1 DEF Settings!Filled
  <2> HIDE DEF new
  <2> QED
    BY <2>1, <2>2, ChangesKeep
<1>7. ASSUME Settings!setSettings(a) PROVE Settings!SettingsInv'
  <2> DEFINE new == [editor[a].form EXCEPT !.settings = changes + 1]
  <2>1. editor[a] # None /\ Settings!ChangeForm(a, new)
    BY <1>7 DEF Settings!setSettings, Settings!Form
  <2>2. new \in Settings!Filled
    BY <1>3, <2>1 DEF Settings!Filled, Settings!SettingsInv, Settings!TypeOK
  <2> HIDE DEF new
  <2> QED
    BY <2>1, <2>2, ChangesKeep
<1>8. ASSUME Settings!setKey(a, "new") PROVE Settings!SettingsInv'
  <2> DEFINE new == [editor[a].form EXCEPT !.key = "new"]
  <2>1. editor[a] # None /\ Settings!ChangeForm(a, new)
    BY <1>8 DEF Settings!setKey, Settings!Form
  <2>2. new \in Settings!Filled
    BY <1>3, <2>1, Texts DEF Settings!Filled
  <2> HIDE DEF new
  <2> QED
    BY <2>1, <2>2, ChangesKeep
<1>9. ASSUME Settings!setClearKey(a) PROVE Settings!SettingsInv'
  <2> DEFINE new == [editor[a].form EXCEPT !.clear = ~@]
  <2>1. editor[a] # None /\ Settings!ChangeForm(a, new)
    BY <1>9 DEF Settings!setClearKey, Settings!Form
  <2>2. new \in Settings!Filled
    BY <1>3, <2>1 DEF Settings!Filled
  <2> HIDE DEF new
  <2> QED
    BY <2>1, <2>2, ChangesKeep
<1> QED
  BY <1>1, <1>2, <1>4, <1>5, <1>6, <1>7, <1>8, <1>9

LEMMA SendSteps ==
    ASSUME Settings!SettingsInv, NEW a \in Admins,
           \/ Settings!save(a)
           \/ \E id \in Settings!Ids : Settings!toggleEnabled(a, id) \/ Settings!remove(a, id)
           \/ \E id \in Settings!Ids, kind \in Settings!Kinds : Settings!setDefault(a, id, kind)
    PROVE  Settings!SettingsInv'
<1>0. \A id \in Settings!Ids : id # 0
  BY SettingsAssumption DEF Settings!Ids
<1>1. ASSUME Settings!save(a) PROVE Settings!SettingsInv'
  <2> DEFINE id == editor[a].id
             written == editor[a].form
             op == IF id = 0 THEN "create" ELSE "update"
             body == [type |-> written.type, url |-> written.url, settings |-> written.settings,
                      enabled |-> written.enabled, key |-> Settings!BodyKey(id, written)]
  <2>1. /\ editor[a] # None /\ Settings!Request(a, op, id, body, None)
        /\ UNCHANGED <<providers, created, list, editor, changes, meant, races>>
    BY <1>1, Zenon DEF Settings!save, Settings!Form
  <2>2. id \in Settings!Ids \cup {0} /\ written \in Settings!Filled
    BY <2>1 DEF Settings!SettingsInv, Settings!TypeOK
  <2>3. /\ Settings!BodyKey(id, written) \in Settings!Keys \cup {None}
        /\ id = 0 => Settings!BodyKey(id, written) \in Settings!Keys
    BY <2>2 DEF Settings!BodyKey, Settings!Filled, Settings!Keys
  <2>4. /\ body \in Settings!Body /\ body.key = Settings!BodyKey(id, written)
        /\ body.settings = written.settings
    BY <2>2, <2>3 DEF Settings!Body, Settings!Filled
  <2>5. /\ op \in {"create", "update"} /\ op = "create" => id = 0 /\ body.key # None
        /\ op # "create" => id \in Settings!Ids
    BY <2>2, <2>3, <2>4, SettingsAssumption
  <2>6. /\ op \in {"create", "update", "default", "delete"} /\ op # "default"
        /\ body \in Settings!Body \cup {None} /\ None \in Settings!Kinds \cup {None}
    BY <2>4, <2>5
  <2>7. op = "update" => IF editor[a] = None
                         THEN /\ body.key = None
                              /\ list[a][id] # None /\ body.settings = list[a][id].settings
                         ELSE /\ editor[a].id = id
                              /\ body.key = Settings!BodyKey(id, editor[a].form)
                              /\ body.settings = editor[a].form.settings
    BY <2>1, <2>4, Zenon DEF id, written
  <2> HIDE DEF body, op, id, written
  <2> QED
    BY <2>1, <2>2, <2>4, <2>5, <2>6, <2>7, SentKeeps
<1>2. ASSUME NEW id \in Settings!Ids, Settings!toggleEnabled(a, id) PROVE Settings!SettingsInv'
  <2> DEFINE row == list[a][id]
             body == [type |-> row.type, url |-> row.url, settings |-> row.settings,
                      enabled |-> ~row.enabled, key |-> None]
  <2>1. /\ editor[a] = None /\ Settings!Request(a, "update", id, body, None)
        /\ UNCHANGED <<providers, created, list, editor, changes, meant, races>>
    BY <1>2, Zenon DEF Settings!toggleEnabled
  <2>2. row # None
    BY <1>2 DEF Settings!toggleEnabled
  <2>3. row \in Settings!Provider
    BY <2>2 DEF Settings!SettingsInv, Settings!TypeOK, Settings!Table
  <2>4. body \in Settings!Body /\ body.key = None /\ body.settings = row.settings
    BY <2>3 DEF Settings!Body, Settings!Provider
  <2> HIDE DEF body
  <2> QED
    BY <1>0, <2>1, <2>2, <2>4, SentKeeps
<1>3. ASSUME NEW id \in Settings!Ids, Settings!remove(a, id) PROVE Settings!SettingsInv'
  BY <1>3, SentKeeps DEF Settings!remove
<1>4. ASSUME NEW id \in Settings!Ids, NEW kind \in Settings!Kinds, Settings!setDefault(a, id, kind)
      PROVE  Settings!SettingsInv'
  BY <1>4, SentKeeps DEF Settings!setDefault
<1> QED
  BY <1>1, <1>2, <1>3, <1>4

LEMMA DecideKeeps ==
    ASSUME Settings!SettingsInv, NEW a \in Admins,
           \/ Settings!BeginCreate(a) \/ Settings!BeginDefault(a)
           \/ Settings!BeginUpdate(a) \/ Settings!BeginDelete(a)
    PROVE  Settings!SettingsInv'
<1>1. ASSUME NEW op \in {"create", "default"}, NEW ok \in BOOLEAN, Settings!At(a, op, "sent"), Settings!Decide(a, ok),
             races' = races \cup (IF Settings!Others(a, {"create", "default"}) # {} THEN {"defaults"} ELSE {})
      PROVE  Settings!SettingsInv'
  <2>1. /\ request[a] # None /\ request[a].op = op /\ races \subseteq races'
        /\ UNCHANGED <<providers, created, list, editor, changes, meant>>
        /\ Settings!Read(a) \/ Settings!Reply(a, "refused")
    BY <1>1 DEF Settings!At, Settings!Decide
  <2>2. "defaults" \in races' \/ \A b \in Admins \ {a} : ~Settings!Decides(b, {"create", "default"})
    BY <1>1 DEF Settings!Others, Settings!Decides, Settings!Under
  <2>3. CASE Settings!Read(a)
    BY <2>1, <2>2, <2>3, ReadingKeeps
  <2>4. CASE Settings!Reply(a, "refused")
    BY <2>1, <2>4, RefusalKeeps
  <2> QED
    BY <2>1, <2>3, <2>4
<1>2. ASSUME Settings!BeginUpdate(a) PROVE Settings!SettingsInv'
  <2> DEFINE id == request[a].id
  <2>1. /\ request[a] # None /\ request[a].op = "update" /\ races \subseteq races'
        /\ UNCHANGED <<providers, created, list, editor, changes, meant>>
        /\ \/ Settings!Read(a) /\ providers[id] # None
           \/ Settings!Reply(a, "refused")
    BY <1>2 DEF Settings!BeginUpdate, Settings!At, Settings!Decide
  <2>2. \/ "edits" \in races'
        \/ /\ ~\E b \in Settings!Others(a, {"update"}) : request[b].id = id
           /\ ~(providers[id] # None /\ Settings!Editable(providers[id]) # Settings!Editable(list[a][id]))
    BY <1>2, Zenon DEF Settings!BeginUpdate
  <2>3. CASE Settings!Read(a) /\ providers[id] # None
    <3>1. \/ "edits" \in races'
          \/ /\ Settings!Editable(providers[id]) = Settings!Editable(list[a][id])
             /\ \A b \in Admins \ {a} : Settings!Decides(b, {"update"}) => request[b].id # id
      <4>1. \A b \in Admins \ {a} : Settings!Decides(b, {"update"}) => b \in Settings!Others(a, {"update"})
        BY DEF Settings!Others, Settings!Decides, Settings!Under
      <4> QED
        BY <2>2, <2>3, <4>1
    <3> QED
      BY <2>1, <2>3, <3>1, ReadingKeeps
  <2>4. CASE Settings!Reply(a, "refused")
    BY <2>1, <2>4, RefusalKeeps
  <2> QED
    BY <2>1, <2>3, <2>4
<1>3. ASSUME Settings!BeginDelete(a) PROVE Settings!SettingsInv'
  <2>1. /\ request[a] # None /\ request[a].op = "delete" /\ races \subseteq races'
        /\ UNCHANGED <<providers, created, list, editor, changes, meant>>
        /\ Settings!Read(a) \/ Settings!Reply(a, "refused")
    BY <1>3 DEF Settings!BeginDelete, Settings!At, Settings!Decide
  <2>2. CASE Settings!Read(a)
    BY <2>1, <2>2, ReadingKeeps
  <2>3. CASE Settings!Reply(a, "refused")
    BY <2>1, <2>3, RefusalKeeps
  <2> QED
    BY <2>1, <2>2, <2>3
<1>4. Settings!BeginCreate(a) => Settings!SettingsInv'
  <2> DEFINE ok == Settings!_validate(a, 0)
  <2>1. ok \in BOOLEAN
    BY DEF Settings!_validate
  <2> HIDE DEF ok
  <2>2. Settings!BeginCreate(a) =>
          /\ Settings!At(a, "create", "sent") /\ Settings!Decide(a, ok)
          /\ races' = races \cup (IF Settings!Others(a, {"create", "default"}) # {} THEN {"defaults"} ELSE {})
    BY Zenon DEF Settings!BeginCreate, ok
  <2> QED
    BY <1>1, <2>1, <2>2
<1>5. Settings!BeginDefault(a) => Settings!SettingsInv'
  <2> DEFINE ok == providers[request[a].id] # None
  <2>1. ok \in BOOLEAN
    OBVIOUS
  <2> HIDE DEF ok
  <2>2. Settings!BeginDefault(a) =>
          /\ Settings!At(a, "default", "sent") /\ Settings!Decide(a, ok)
          /\ races' = races \cup (IF Settings!Others(a, {"create", "default"}) # {} THEN {"defaults"} ELSE {})
    BY Zenon DEF Settings!BeginDefault, ok
  <2> QED
    BY <1>1, <2>1, <2>2
<1> QED
  BY <1>2, <1>3, <1>4, <1>5

LEMMA AnswerSteps ==
    ASSUME Settings!SettingsInv, NEW a \in Admins, Settings!load(a) \/ Settings!Refused(a)
    PROVE  Settings!SettingsInv'
<1>1. /\ request[a] # None /\ request' = [request EXCEPT ![a] = None]
      /\ UNCHANGED <<providers, created, changes, meant, races>>
      /\ \/ editor' = [editor EXCEPT ![a] = None] /\ list' = [list EXCEPT ![a] = providers]
         \/ UNCHANGED <<list, editor>>
  BY DEF Settings!load, Settings!Refused
<1>2. /\ list' \in [Admins -> Settings!Table]
      /\ editor' \in [Admins -> [id : Settings!Ids \cup {0}, form : Settings!Filled] \cup {None}]
      /\ request' \in [Admins -> Settings!Call \cup {None}] /\ request'[a] = None
      /\ \A b \in Admins \ {a} : request'[b] = request[b] /\ editor'[b] = editor[b] /\ list'[b] = list[b]
  BY <1>1 DEF Settings!SettingsInv, Settings!TypeOK
<1> QED
  BY <1>1, <1>2, AnsweredKeeps

LEMMA SettingsStep == Settings!SettingsInv /\ [Settings!Next]_settingsVars => Settings!SettingsInv'
<1> SUFFICES ASSUME Settings!SettingsInv, [Settings!Next]_settingsVars PROVE Settings!SettingsInv'
  OBVIOUS
<1>1. CASE UNCHANGED settingsVars
  <2>0. /\ Settings!TypeOK /\ Settings!RequestInv /\ Settings!SeenInv /\ Settings!DefaultInv /\ Settings!EditInv
        /\ UNCHANGED <<providers, created, list, editor, request, changes, calls, meant, races>>
    BY <1>1 DEF settingsVars, Settings!SettingsInv
  <2>1. Settings!TypeOK'
    BY <2>0 DEF Settings!TypeOK
  <2>2. Settings!RequestInv'
    BY <2>0 DEF Settings!RequestInv, Settings!Decides, Settings!Under, Settings!Reading, Settings!Stored,
         Settings!Editable, Settings!Form
  <2>3. Settings!SeenInv'
    BY <2>0 DEF Settings!SeenInv, Settings!Decides, Settings!Under, Settings!Reading, Settings!Stored,
         Settings!Editable, Settings!Form
  <2>4. Settings!DefaultInv'
    BY <2>0 DEF Settings!DefaultInv, Settings!Decides, Settings!Under, Settings!Reading, Settings!Stored,
         Settings!Editable, Settings!Form
  <2>5. Settings!EditInv'
    BY <2>0 DEF Settings!EditInv, Settings!Decides, Settings!Under, Settings!Reading, Settings!Stored,
         Settings!Editable, Settings!Form
  <2> QED
    BY <2>1, <2>2, <2>3, <2>4, <2>5 DEF Settings!SettingsInv
<1>2. CASE Settings!Next
  BY <1>2, DialogSteps, SendSteps, DecideKeeps, AnswerSteps, CreateKeeps, ChoiceKeeps, UpdateKeeps, DeleteKeeps
     DEF Settings!Next
<1> QED
  BY <1>1, <1>2

LEMMA SettingsShows == Settings!SettingsInv => Settings!SettingsSound
<1> SUFFICES ASSUME Settings!SettingsInv PROVE Settings!SettingsSound
  OBVIOUS
<1>2. Settings!OneDefaultUnlessRaced
  BY Zenon DEF Settings!OneDefaultUnlessRaced, Settings!SettingsInv, Settings!DefaultInv
<1>3. Settings!EditsStand
  BY DEF Settings!EditsStand, Settings!SettingsInv, Settings!EditInv
<1> QED
  BY <1>2, <1>3 DEF Settings!SettingsSound

LEMMA SettingsMoves ==
    [PagesNext]_pagesVars /\ part' = "settings" => part = "settings" /\ [Settings!Next]_settingsVars
BY DEF PagesNext, pagesVars, settingsVars

\* A kind of use never has two default providers, and a provider has the settings and the
\* key that were saved last, whatever pages create, choose, edit, toggle and delete side by
\* side: unless requests about the defaults, or edits of a row, overlapped between their
\* reads and their commits (routers/settings.py), or a page had not seen the edit before.
THEOREM DefaultsAndEditsStand == PagesSpec => []SettingsSound
<1> DEFINE Inv == part = "settings" => Settings!SettingsInv
<1>1. PagesInit => Inv
  BY SettingsInit DEF PagesInit
<1>2. Inv /\ [PagesNext]_pagesVars => Inv'
  BY SettingsMoves, SettingsStep
<1>3. Inv => SettingsSound
  BY SettingsShows DEF SettingsSound
<1> QED
  BY <1>1, <1>2, <1>3, PTL DEF PagesSpec

----------------------------------------------------------------------------
(* The draft of a problem *)

LEMMA EditsAre ==
    ASSUME NEW f \in Studio!Draft, NEW x
    PROVE  x \in Studio!EditsIn(f) <=>
              /\ x # 0
              /\ \/ \E p \in Studio!Plain : f.plain[p] = x
                 \/ \E l \in Studio!Lists : \E i \in DOMAIN f.lists[l] : f.lists[l][i] = x
BY DEF Studio!EditsIn, Studio!Range, Studio!Draft

\* What an edit of a field, or of a list, leaves in the draft.
LEMMA PlainEdited ==
    ASSUME NEW f \in Studio!Draft, NEW p \in Studio!Plain, NEW n \in Nat \ {0}
    PROVE  /\ [f EXCEPT !.plain[p] = n] \in Studio!Draft
           /\ n \in Studio!EditsIn([f EXCEPT !.plain[p] = n])
           /\ Studio!EditsIn(f) \ {f.plain[p]} \subseteq Studio!EditsIn([f EXCEPT !.plain[p] = n])
<1> DEFINE g == [f EXCEPT !.plain[p] = n]
<1>1. /\ g \in Studio!Draft /\ g.plain[p] = n /\ g.lists = f.lists
      /\ \A q \in Studio!Plain : q # p => g.plain[q] = f.plain[q]
  BY DEF Studio!Draft
<1> HIDE DEF g
<1>2. n \in Studio!EditsIn(g)
  BY <1>1, EditsAre
<1>3. ASSUME NEW x \in Studio!EditsIn(f) \ {f.plain[p]} PROVE x \in Studio!EditsIn(g)
  BY <1>1, EditsAre
<1> QED
  BY <1>1, <1>2, <1>3 DEF g

LEMMA ListTyped ==
    ASSUME NEW f \in Studio!Draft, NEW l \in Studio!Lists, NEW new \in Seq(Nat),
           l = "starter" => DOMAIN new = 1..Languages
    PROVE  LET g == [f EXCEPT !.lists[l] = new] IN
           /\ g \in Studio!Draft /\ g.lists[l] = new /\ g.plain = f.plain
           /\ \A m \in Studio!Lists : m # l => g.lists[m] = f.lists[m]
<1> DEFINE g == [f EXCEPT !.lists[l] = new]
<1>1. /\ f \in [plain : [Studio!Plain -> Nat], lists : [Studio!Lists -> Seq(Nat)]]
      /\ f.lists \in [Studio!Lists -> Seq(Nat)] /\ f.plain \in [Studio!Plain -> Nat]
      /\ DOMAIN f.lists["starter"] = 1..Languages
  BY DEF Studio!Draft
<1>2. g.lists = [f.lists EXCEPT ![l] = new] /\ g.plain = f.plain
      /\ g \in [plain : [Studio!Plain -> Nat], lists : [Studio!Lists -> Seq(Nat)]]
  BY <1>1
<1>3. g.lists[l] = new /\ \A m \in Studio!Lists : m # l => g.lists[m] = f.lists[m]
  BY <1>1, <1>2
<1>4. DOMAIN g.lists["starter"] = 1..Languages
  BY <1>1, <1>3 DEF Studio!Lists
<1> HIDE DEF g
<1>5. g \in Studio!Draft
  BY <1>2, <1>4 DEF Studio!Draft
<1> QED
  BY <1>2, <1>3, <1>5 DEF g

LEMMA ListEdited ==
    ASSUME NEW f \in Studio!Draft, NEW l \in Studio!Lists, NEW new \in Seq(Nat), NEW gone,
           l = "starter" => DOMAIN new = 1..Languages,
           \A i \in DOMAIN f.lists[l] : f.lists[l][i] \in gone \/ \E j \in DOMAIN new : new[j] = f.lists[l][i]
    PROVE  /\ [f EXCEPT !.lists[l] = new] \in Studio!Draft
           /\ \A j \in DOMAIN new : new[j] # 0 => new[j] \in Studio!EditsIn([f EXCEPT !.lists[l] = new])
           /\ Studio!EditsIn(f) \ gone \subseteq Studio!EditsIn([f EXCEPT !.lists[l] = new])
<1> DEFINE g == [f EXCEPT !.lists[l] = new]
<1>1. /\ g \in Studio!Draft /\ g.lists[l] = new /\ g.plain = f.plain
      /\ \A m \in Studio!Lists : m # l => g.lists[m] = f.lists[m]
  BY ListTyped
<1> HIDE DEF g
<1>2. ASSUME NEW j \in DOMAIN new, new[j] # 0 PROVE new[j] \in Studio!EditsIn(g)
  BY <1>1, <1>2, EditsAre
<1>3. ASSUME NEW x \in Studio!EditsIn(f) \ gone PROVE x \in Studio!EditsIn(g)
  <2>1. CASE \E p \in Studio!Plain : f.plain[p] = x
    BY <1>1, <2>1, EditsAre
  <2>2. ASSUME NEW m \in Studio!Lists, NEW i \in DOMAIN f.lists[m], f.lists[m][i] = x, m # l
        PROVE  x \in Studio!EditsIn(g)
    BY <1>1, <2>2, EditsAre
  <2>3. ASSUME NEW i \in DOMAIN f.lists[l], f.lists[l][i] = x PROVE x \in Studio!EditsIn(g)
    <3>1. PICK j \in DOMAIN new : new[j] = x
      BY <2>3
    <3> QED
      BY <1>1, <3>1, EditsAre
  <2> QED
    BY <2>1, <2>2, <2>3, EditsAre
<1> QED
  BY <1>1, <1>2, <1>3 DEF g

\* One item of a list is replaced, added or removed.
LEMMA ItemSet ==
    ASSUME NEW s \in Seq(Nat), NEW i \in DOMAIN s, NEW n \in Nat
    PROVE  /\ [s EXCEPT ![i] = n] \in Seq(Nat) /\ DOMAIN [s EXCEPT ![i] = n] = DOMAIN s
           /\ i \in DOMAIN [s EXCEPT ![i] = n] /\ [s EXCEPT ![i] = n][i] = n
           /\ \A k \in DOMAIN s : s[k] \in {s[i]} \/ \E j \in DOMAIN [s EXCEPT ![i] = n] : [s EXCEPT ![i] = n][j] = s[k]
<1>1. /\ [s EXCEPT ![i] = n] \in Seq(Nat) /\ DOMAIN [s EXCEPT ![i] = n] = DOMAIN s /\ [s EXCEPT ![i] = n][i] = n
  OBVIOUS
<1>2. \A k \in DOMAIN s : k # i => [s EXCEPT ![i] = n][k] = s[k]
  OBVIOUS
<1> QED
  BY <1>1, <1>2

LEMMA ItemAdded ==
    ASSUME NEW s \in Seq(Nat), NEW n \in Nat
    PROVE  /\ Append(s, n) \in Seq(Nat)
           /\ Len(s) + 1 \in DOMAIN Append(s, n) /\ Append(s, n)[Len(s) + 1] = n
           /\ \A k \in DOMAIN s : \E j \in DOMAIN Append(s, n) : Append(s, n)[j] = s[k]
<1>1. /\ Append(s, n) \in Seq(Nat) /\ DOMAIN Append(s, n) = 1..(Len(s) + 1) /\ Append(s, n)[Len(s) + 1] = n
      /\ \A k \in 1..Len(s) : Append(s, n)[k] = s[k]
  OBVIOUS
<1>2. DOMAIN s = 1..Len(s) /\ Len(s) \in Nat
  OBVIOUS
<1>3. ASSUME NEW k \in DOMAIN s PROVE k \in DOMAIN Append(s, n) /\ Append(s, n)[k] = s[k]
  BY <1>1, <1>2
<1> QED
  BY <1>1, <1>2, <1>3

LEMMA StudioInit == Studio!Init => Studio!StudioInv
<1> SUFFICES ASSUME Studio!Init PROVE Studio!StudioInv
  OBVIOUS
<1>1. Studio!New \in Studio!Draft
  <2>1. /\ [i \in 1..Languages |-> 0] \in Seq(Nat) /\ <<0, 0>> \in Seq(Nat) /\ <<0>> \in Seq(Nat)
    BY StudioAssumption
  <2> DEFINE a == [i \in 1..Languages |-> 0]
             b == <<0, 0>>
             c == <<0>>
  <2>2. a \in Seq(Nat) /\ b \in Seq(Nat) /\ c \in Seq(Nat)
    BY <2>1
  <2> HIDE DEF a, b, c
  <2>3. [starter |-> a, tests |-> b, grading |-> c] \in [Studio!Lists -> Seq(Nat)]
    BY <2>2 DEF Studio!Lists
  <2>4. [f \in Studio!Plain |-> 0] \in [Studio!Plain -> Nat]
    OBVIOUS
  <2>5. DOMAIN a = 1..Languages
    BY DEF a
  <2>6. [plain |-> [f \in Studio!Plain |-> 0], lists |-> [starter |-> a, tests |-> b, grading |-> c]] \in Studio!Draft
    BY <2>3, <2>4, <2>5 DEF Studio!Draft
  <2> QED
    BY <2>6 DEF Studio!New, a, b, c
<1>2. Studio!TypeOK
  BY <1>1 DEF Studio!Init, Studio!TypeOK, Studio!Tabs
<1> QED
  BY <1>2 DEF Studio!Init, Studio!StudioInv, Studio!SentInv, Studio!WorkKept, Studio!OnPage

\* An edit that nothing stale went into keeps every edit but those it replaces.
LEMMA WritesHold ==
    ASSUME Studio!StudioInv, NEW gone, NEW stale, NEW how, Studio!Writes(gone, stale, how),
           NEW new \in Studio!Draft, draft' = new, drawn' \in Studio!Draft, studioTab' \in Studio!Tabs,
           UNCHANGED <<saving, sent, saved>>,
           ~stale => edits + 1 \in Studio!EditsIn(new) /\ Studio!EditsIn(draft) \ gone \subseteq Studio!EditsIn(new)
    PROVE  Studio!StudioInv'
<1>1. /\ Studio!OnPage /\ edits' = edits + 1 /\ kept' = (kept \ gone) \cup {edits + 1}
      /\ studioSlips' = {} => studioSlips = {} /\ ~stale /\ saving # "sent"
  BY DEF Studio!Writes
<1>2. Studio!TypeOK'
  <2>1. /\ edits \in Nat /\ kept \subseteq Nat \ {0} /\ saving' \in {"no", "sent", "saved", "away"}
    BY DEF Studio!StudioInv, Studio!TypeOK
  <2>2. edits' \in Nat /\ edits + 1 \in Nat \ {0}
    BY <1>1, <2>1
  <2>3. kept' \subseteq Nat \ {0}
    BY <1>1, <2>1, <2>2
  <2> QED
    BY <2>1, <2>2, <2>3 DEF Studio!TypeOK
<1>3. Studio!SentInv'
  BY <1>1 DEF Studio!SentInv
<1>4. ASSUME studioSlips' = {} PROVE kept' \subseteq Studio!EditsIn(draft')
  <2>1. kept \subseteq Studio!EditsIn(draft)
    BY <1>1, <1>4 DEF Studio!StudioInv, Studio!WorkKept
  <2> QED
    BY <1>1, <1>4, <2>1
<1>5. Studio!WorkKept'
  BY <1>1, <1>4 DEF Studio!WorkKept, Studio!OnPage
<1> QED
  BY <1>2, <1>3, <1>5 DEF Studio!StudioInv

LEMMA PlainHolds ==
    ASSUME Studio!StudioInv, NEW f \in Studio!Plain, NEW how,
           Studio!setPlain(f, how) \/ (f # "weights" /\ Studio!update_plain(f))
    PROVE  Studio!StudioInv'
<1> DEFINE new == [draft EXCEPT !.plain[f] = edits + 1]
<1>0. Studio!TypeOK
  BY DEF Studio!StudioInv
<1>1. /\ \E h : Studio!Writes({draft.plain[f]}, FALSE, h)
      /\ draft' = new /\ drawn' \in {drawn, new} /\ studioTab' \in {studioTab, f}
      /\ f = "weights" => studioTab' = studioTab
      /\ UNCHANGED <<saving, sent, saved>>
  BY DEF Studio!setPlain, Studio!update_plain, Studio!ToolWrites, Studio!AsUpdated
<1>2. /\ new \in Studio!Draft /\ edits + 1 \in Studio!EditsIn(new)
      /\ Studio!EditsIn(draft) \ {draft.plain[f]} \subseteq Studio!EditsIn(new)
  <2>1. draft \in Studio!Draft /\ edits + 1 \in Nat \ {0}
    BY <1>0 DEF Studio!TypeOK
  <2> QED
    BY <2>1, PlainEdited
<1> HIDE DEF new
<1>3. drawn' \in Studio!Draft /\ studioTab' \in Studio!Tabs
  BY <1>0, <1>1, <1>2 DEF Studio!TypeOK, Studio!Tabs, Studio!Plain
<1>4. PICK h : Studio!Writes({draft.plain[f]}, FALSE, h)
  BY <1>1
<1> QED
  BY <1>1, <1>2, <1>3, <1>4, WritesHold

\* A list is replaced by new, made from old: what is rendered, or what is in the state.
ListWritten(l, old, new, gone, stale) ==
    /\ \E how : Studio!Writes(gone, stale, how)
    /\ ~stale => old = draft.lists[l]
    /\ draft' = [draft EXCEPT !.lists[l] = new]
    /\ drawn' \in {drawn, draft'} /\ studioTab' \in Studio!Tabs /\ UNCHANGED <<saving, sent, saved>>
    /\ \A k \in DOMAIN old : old[k] \in gone \/ \E j \in DOMAIN new : new[j] = old[k]
    /\ \E j \in DOMAIN new : new[j] = edits + 1
    /\ l = "starter" => DOMAIN new = 1..Languages

LEMMA ListHolds ==
    ASSUME Studio!StudioInv, NEW l \in Studio!Lists, NEW old \in Seq(Nat), NEW new \in Seq(Nat), NEW gone, NEW stale,
           ListWritten(l, old, new, gone, stale)
    PROVE  Studio!StudioInv'
<1>0. Studio!TypeOK
  BY DEF Studio!StudioInv
<1>a. /\ \E how : Studio!Writes(gone, stale, how)
      /\ (~stale => old = draft.lists[l])
      /\ draft' = [draft EXCEPT !.lists[l] = new]
      /\ drawn' \in {drawn, draft'} /\ studioTab' \in Studio!Tabs /\ UNCHANGED <<saving, sent, saved>>
      /\ \A k \in DOMAIN old : old[k] \in gone \/ \E j \in DOMAIN new : new[j] = old[k]
      /\ \E j \in DOMAIN new : new[j] = edits + 1
      /\ l = "starter" => DOMAIN new = 1..Languages
  BY DEF ListWritten
<1> DEFINE g == [draft EXCEPT !.lists[l] = new]
<1>1. draft \in Studio!Draft /\ drawn \in Studio!Draft /\ edits + 1 \in Nat \ {0}
  BY <1>0 DEF Studio!TypeOK
<1>2. g \in Studio!Draft
  BY <1>1, <1>a, ListTyped
<1>3. ASSUME old = draft.lists[l]
      PROVE  edits + 1 \in Studio!EditsIn(g) /\ Studio!EditsIn(draft) \ gone \subseteq Studio!EditsIn(g)
  <2>1. /\ \A j \in DOMAIN new : new[j] # 0 => new[j] \in Studio!EditsIn(g)
        /\ Studio!EditsIn(draft) \ gone \subseteq Studio!EditsIn(g)
    <3>1. \A k \in DOMAIN draft.lists[l] :
             draft.lists[l][k] \in gone \/ \E j \in DOMAIN new : new[j] = draft.lists[l][k]
      BY <1>3, <1>a
    <3>2. l = "starter" => DOMAIN new = 1..Languages
      BY <1>a
    <3> HIDE DEF g
    <3> QED
      BY <1>1, <3>1, <3>2, ListEdited DEF g
  <2> QED
    BY <1>1, <1>a, <2>1
<1>4. draft' = g /\ drawn' \in Studio!Draft
  BY <1>1, <1>2, <1>a
<1> HIDE DEF g
<1>5. PICK how : Studio!Writes(gone, stale, how)
  BY <1>a
<1>6. /\ studioTab' \in Studio!Tabs /\ UNCHANGED <<saving, sent, saved>>
      /\ ~stale => edits + 1 \in Studio!EditsIn(g) /\ Studio!EditsIn(draft) \ gone \subseteq Studio!EditsIn(g)
  BY <1>3, <1>a
<1> QED
  BY <1>2, <1>4, <1>5, <1>6, WritesHold

LEMMA setItemHolds ==
    ASSUME Studio!StudioInv, NEW l \in Studio!Lists, NEW i \in 1..MaxItems, NEW how, Studio!setItem(l, i, how)
    PROVE  Studio!StudioInv'
<1> DEFINE old == drawn.lists[l]
           new == [old EXCEPT ![i] = edits + 1]
<1>0. old \in Seq(Nat) /\ (l = "starter" => DOMAIN old = 1..Languages) /\ edits + 1 \in Nat /\ studioTab \in Studio!Tabs
  BY DEF Studio!StudioInv, Studio!TypeOK, Studio!Draft
<1>1. /\ i \in DOMAIN old /\ Studio!Writes({old[i]}, old # draft.lists[l], how)
      /\ draft' = [draft EXCEPT !.lists[l] = new] /\ drawn' = draft' /\ UNCHANGED <<studioTab, saving, sent, saved>>
  BY DEF Studio!setItem, Studio!setList, Studio!AsUpdated
<1>2. /\ new \in Seq(Nat) /\ DOMAIN new = DOMAIN old /\ i \in DOMAIN new /\ new[i] = edits + 1
      /\ \A k \in DOMAIN old : old[k] \in {old[i]} \/ \E j \in DOMAIN new : new[j] = old[k]
  BY <1>0, <1>1, ItemSet
<1> HIDE DEF new
<1>3. /\ \E j \in DOMAIN new : new[j] = edits + 1
      /\ l = "starter" => DOMAIN new = 1..Languages
      /\ drawn' \in {drawn, draft'} /\ studioTab' \in Studio!Tabs
  BY <1>0, <1>1, <1>2
<1> HIDE DEF old
<1>4. ListWritten(l, old, new, {old[i]}, old # draft.lists[l])
  BY <1>1, <1>2, <1>3 DEF ListWritten
<1> QED
  BY <1>0, <1>2, <1>4, ListHolds

LEMMA addItemHolds ==
    ASSUME Studio!StudioInv, NEW l \in Studio!Lists, Studio!addItem(l)
    PROVE  Studio!StudioInv'
<1> DEFINE old == drawn.lists[l]
           new == Append(old, edits + 1)
<1>0. old \in Seq(Nat) /\ edits + 1 \in Nat /\ studioTab \in Studio!Tabs
  BY DEF Studio!StudioInv, Studio!TypeOK, Studio!Draft
<1>1. /\ l # "starter" /\ \E how : Studio!Writes({}, old # draft.lists[l], how)
      /\ draft' = [draft EXCEPT !.lists[l] = new] /\ drawn' = draft' /\ UNCHANGED <<studioTab, saving, sent, saved>>
  BY DEF Studio!addItem, Studio!setList, Studio!AsUpdated
<1>2. /\ new \in Seq(Nat) /\ Len(old) + 1 \in DOMAIN new /\ new[Len(old) + 1] = edits + 1
      /\ \A k \in DOMAIN old : \E j \in DOMAIN new : new[j] = old[k]
  BY <1>0, ItemAdded
<1> HIDE DEF old, new
<1>3. /\ \E j \in DOMAIN new : new[j] = edits + 1
      /\ l = "starter" => DOMAIN new = 1..Languages
      /\ \A k \in DOMAIN old : old[k] \in {} \/ \E j \in DOMAIN new : new[j] = old[k]
      /\ drawn' \in {drawn, draft'} /\ studioTab' \in Studio!Tabs
  BY <1>0, <1>1, <1>2
<1>4. ListWritten(l, old, new, {}, old # draft.lists[l])
  BY <1>1, <1>2, <1>3 DEF ListWritten
<1> QED
  BY <1>0, <1>2, <1>4, ListHolds

\* The assistant's tools start from what is in the state.
LEMMA ToolHolds ==
    ASSUME Studio!StudioInv,
           \/ Studio!set_test_cases \/ Studio!add_test_case
           \/ \E i \in 1..Languages : Studio!update_starter_code(i)
    PROVE  Studio!StudioInv'
<1>0. /\ draft \in Studio!Draft /\ edits + 1 \in Nat /\ "starter" \in Studio!Lists /\ "tests" \in Studio!Lists
      /\ "starter" \in Studio!Tabs /\ "tests" \in Studio!Tabs
  BY DEF Studio!StudioInv, Studio!TypeOK, Studio!Lists, Studio!Tabs
<1>1. CASE Studio!set_test_cases
  <2> DEFINE old == draft.lists["tests"]
             new == <<edits + 1>>
  <2>1. /\ Studio!Writes(Studio!Range(old), FALSE, "well") /\ draft' = [draft EXCEPT !.lists["tests"] = new]
        /\ studioTab' = "tests" /\ UNCHANGED <<drawn, saving, sent, saved>>
    BY <1>1 DEF Studio!set_test_cases, Studio!ToolWrites
  <2>2. old \in Seq(Nat) /\ new \in Seq(Nat) /\ 1 \in DOMAIN new /\ new[1] = edits + 1
    BY <1>0 DEF Studio!Draft
  <2>3. \A k \in DOMAIN old : old[k] \in Studio!Range(old)
    BY DEF Studio!Range
  <2>4. old = draft.lists["tests"]
    OBVIOUS
  <2> HIDE DEF old, new
  <2>5. /\ \E j \in DOMAIN new : new[j] = edits + 1
        /\ "tests" = "starter" => DOMAIN new = 1..Languages
        /\ \A k \in DOMAIN old : old[k] \in Studio!Range(old) \/ \E j \in DOMAIN new : new[j] = old[k]
        /\ drawn' \in {drawn, draft'} /\ studioTab' \in Studio!Tabs
    BY <1>0, <2>1, <2>2, <2>3
  <2>6. ListWritten("tests", old, new, Studio!Range(old), FALSE)
    BY <2>1, <2>4, <2>5 DEF ListWritten
  <2> QED
    BY <1>0, <2>2, <2>3, <2>4, <2>6, ListHolds
<1>2. CASE Studio!add_test_case
  <2> DEFINE old == draft.lists["tests"]
             new == Append(old, edits + 1)
  <2>1. /\ Studio!Writes({}, FALSE, "well") /\ draft' = [draft EXCEPT !.lists["tests"] = new]
        /\ studioTab' = "tests" /\ UNCHANGED <<drawn, saving, sent, saved>>
    BY <1>2 DEF Studio!add_test_case, Studio!ToolWrites
  <2>2. old \in Seq(Nat)
    BY <1>0 DEF Studio!Draft
  <2>3. /\ new \in Seq(Nat) /\ Len(old) + 1 \in DOMAIN new /\ new[Len(old) + 1] = edits + 1
        /\ \A k \in DOMAIN old : \E j \in DOMAIN new : new[j] = old[k]
    BY <1>0, <2>2, ItemAdded
  <2>4. old = draft.lists["tests"]
    OBVIOUS
  <2> HIDE DEF old, new
  <2>5. /\ \E j \in DOMAIN new : new[j] = edits + 1
        /\ "tests" = "starter" => DOMAIN new = 1..Languages
        /\ \A k \in DOMAIN old : old[k] \in {} \/ \E j \in DOMAIN new : new[j] = old[k]
        /\ drawn' \in {drawn, draft'} /\ studioTab' \in Studio!Tabs
    BY <1>0, <2>1, <2>3
  <2>6. ListWritten("tests", old, new, {}, FALSE)
    BY <2>1, <2>4, <2>5 DEF ListWritten
  <2> QED
    BY <1>0, <2>2, <2>3, <2>4, <2>6, ListHolds
<1>3. ASSUME NEW i \in 1..Languages, Studio!update_starter_code(i) PROVE Studio!StudioInv'
  <2> DEFINE old == draft.lists["starter"]
             new == [old EXCEPT ![i] = edits + 1]
  <2>1. /\ Studio!Writes({old[i]}, FALSE, "well") /\ draft' = [draft EXCEPT !.lists["starter"][i] = edits + 1]
        /\ studioTab' = "starter" /\ UNCHANGED <<drawn, saving, sent, saved>>
    BY <1>3 DEF Studio!update_starter_code, Studio!ToolWrites
  <2>2. old \in Seq(Nat) /\ draft' = [draft EXCEPT !.lists["starter"] = new]
    BY <1>0, <2>1 DEF Studio!Draft
  <2>3. DOMAIN old = 1..Languages
    BY <1>0 DEF Studio!Draft
  <2>4. /\ new \in Seq(Nat) /\ DOMAIN new = DOMAIN old /\ i \in DOMAIN new /\ new[i] = edits + 1
        /\ \A k \in DOMAIN old : old[k] \in {old[i]} \/ \E j \in DOMAIN new : new[j] = old[k]
    BY <1>0, <2>2, <2>3, ItemSet
  <2>5. old = draft.lists["starter"]
    OBVIOUS
  <2> HIDE DEF old, new
  <2>6. ListWritten("starter", old, new, {old[i]}, FALSE)
    BY <1>0, <2>1, <2>2, <2>3, <2>4, <2>5 DEF ListWritten
  <2> QED
    BY <1>0, <2>2, <2>3, <2>4, <2>6, ListHolds
<1> QED
  BY <1>1, <1>2, <1>3

LEMMA removeItemHolds ==
    ASSUME Studio!StudioInv, NEW l \in Studio!Lists, NEW i \in 1..MaxItems, Studio!removeItem(l, i)
    PROVE  Studio!StudioInv'
<1> DEFINE old == drawn.lists[l]
           new == RemoveAt(old, i)
           g == [draft EXCEPT !.lists[l] = new]
<1>0. Studio!TypeOK /\ Studio!SentInv /\ Studio!WorkKept
  BY DEF Studio!StudioInv
<1>1. /\ Studio!OnPage /\ i \in DOMAIN old /\ l # "starter"
      /\ draft' = g /\ drawn' = draft' /\ kept' = kept \ {old[i]}
      /\ studioSlips' = {} => studioSlips = {} /\ old = draft.lists[l] /\ saving # "sent"
      /\ UNCHANGED <<studioTab, saving, sent, saved, edits>>
  BY DEF Studio!removeItem, Studio!AsUpdated, Studio!RemoveAt, RemoveAt
<1>2. draft \in Studio!Draft /\ old \in Seq(Nat)
  BY <1>0 DEF Studio!TypeOK, Studio!Draft
<1>3. /\ new \in Seq(Nat)
      /\ \A k \in DOMAIN old : old[k] \in {old[i]} \/ \E j \in DOMAIN new : new[j] = old[k]
  <2> HIDE DEF old
  <2>1. i \in DOMAIN old
    BY <1>1
  <2>2. new \in Seq(Nat)
    BY <1>2, <2>1, Removed
  <2>3. \A k \in DOMAIN old : k # i => \E j \in DOMAIN new : new[j] = old[k]
    BY <1>2, <2>1, Others
  <2> QED
    BY <2>2, <2>3
<1> HIDE DEF new
<1>4. g \in Studio!Draft
  BY <1>1, <1>2, <1>3, ListTyped
<1>5. ASSUME old = draft.lists[l] PROVE Studio!EditsIn(draft) \ {old[i]} \subseteq Studio!EditsIn(g)
  <2>1. \A k \in DOMAIN draft.lists[l] :
           draft.lists[l][k] \in {old[i]} \/ \E j \in DOMAIN new : new[j] = draft.lists[l][k]
    BY <1>3, <1>5
  <2>2. l = "starter" => DOMAIN new = 1..Languages
    BY <1>1
  <2> HIDE DEF old
  <2> QED
    BY <1>2, <1>3, <2>1, <2>2, ListEdited
<1> HIDE DEF g
<1>6. Studio!TypeOK'
  BY <1>0, <1>1, <1>4 DEF Studio!TypeOK
<1>7. Studio!SentInv'
  BY <1>1 DEF Studio!SentInv
<1>8. Studio!WorkKept'
  BY <1>0, <1>1, <1>5 DEF Studio!WorkKept, Studio!OnPage
<1> QED
  BY <1>6, <1>7, <1>8 DEF Studio!StudioInv

\* The server's normalization drops no edit but those it names.
LEMMA NormalizedKeeps ==
    ASSUME NEW f \in Studio!Draft, NEW x \in Studio!EditsIn(f) \ Studio!Dropped(f)
    PROVE  x \in Studio!EditsIn(Studio!Normalized(f))
<1> DEFINE old == f.lists["grading"]
           K == {i \in DOMAIN old : old[i] \notin nameless}
           named == Studio!Named(f)
           within == [i \in DOMAIN named |-> Studio!Within(named[i])]
<1>1. /\ x # 0 /\ x \notin nameless /\ x \notin excess
      /\ (\A i \in DOMAIN old : old[i] \in nameless) => x # f.plain["weights"]
  BY EditsAre DEF Studio!Dropped
<1>2. /\ f \in [plain : [Studio!Plain -> Nat], lists : [Studio!Lists -> Seq(Nat)]]
      /\ old \in Seq(Nat) /\ "grading" \in Studio!Lists /\ "weights" \in Studio!Plain
  BY DEF Studio!Draft, Studio!Lists, Studio!Plain
<1>3. named = Kept(old, K)
  BY DEF Studio!Named, Studio!Kept, Kept
<1>4. named \in Seq(Nat) /\ \E h : Picks(named, old, K, Len(old), h)
  <2> HIDE DEF named, K, old
  <2> QED
    BY <1>2, <1>3, KeptPicks
<1>5. ASSUME NEW i \in DOMAIN old, old[i] \notin nameless
      PROVE  \E j \in DOMAIN named : named[j] = old[i]
  <2>1. PICK h : Picks(named, old, K, Len(old), h)
    BY <1>4
  <2> HIDE DEF named
  <2>2. DOMAIN named = 1..Len(named) /\ i \in K \cap 1..Len(old)
    BY <1>2, <1>4, <1>5
  <2>3. PICK j \in 1..Len(named) : h[j] = i
    BY <2>1, <2>2 DEF Picks
  <2> QED
    BY <2>1, <2>2, <2>3 DEF Picks
<1>6. (\E p \in Studio!Plain : f.plain[p] = x) \/ \E l \in Studio!Lists : \E i \in DOMAIN f.lists[l] : f.lists[l][i] = x
  BY EditsAre
<1>7. CASE named = <<>>
  <2> DEFINE g == [f EXCEPT !.plain["weights"] = 0, !.lists["grading"] = Studio!New.lists["grading"]]
  <2>1. Studio!Normalized(f) = g
    BY <1>7 DEF Studio!Normalized
  <2>2. \A i \in DOMAIN old : old[i] \in nameless
    BY <1>5, <1>7
  <2>3. /\ \A p \in Studio!Plain : p # "weights" => g.plain[p] = f.plain[p]
        /\ \A l \in Studio!Lists : l # "grading" => g.lists[l] = f.lists[l]
        /\ DOMAIN g.plain = Studio!Plain
    BY <1>2
  <2> HIDE DEF g
  <2>4. ASSUME NEW p \in Studio!Plain, f.plain[p] = x PROVE x \in Studio!EditsIn(g)
    BY <1>1, <2>2, <2>3, <2>4 DEF Studio!EditsIn, Studio!Range
  <2>5. ASSUME NEW l \in Studio!Lists, NEW i \in DOMAIN f.lists[l], f.lists[l][i] = x PROVE x \in Studio!EditsIn(g)
    BY <1>1, <2>2, <2>3, <2>5 DEF Studio!EditsIn, Studio!Range
  <2> QED
    BY <1>6, <2>1, <2>4, <2>5
<1>8. CASE named # <<>>
  <2> DEFINE g == [f EXCEPT !.plain["weights"] = Studio!Within(@), !.lists["grading"] = within]
  <2>1. Studio!Normalized(f) = g
    BY <1>8 DEF Studio!Normalized
  <2>2. /\ \A p \in Studio!Plain : p # "weights" => g.plain[p] = f.plain[p]
        /\ g.plain["weights"] = Studio!Within(f.plain["weights"]) /\ g.lists["grading"] = within
        /\ \A l \in Studio!Lists : l # "grading" => g.lists[l] = f.lists[l]
        /\ DOMAIN g.plain = Studio!Plain
    <3> HIDE DEF within
    <3> QED
      BY <1>2
  <2> HIDE DEF g, named
  <2>3. ASSUME NEW p \in Studio!Plain, f.plain[p] = x PROVE x \in Studio!EditsIn(g)
    <3>1. g.plain[p] = x
      BY <1>1, <2>2, <2>3 DEF Studio!Within
    <3> QED
      BY <1>1, <2>2, <3>1 DEF Studio!EditsIn, Studio!Range
  <2>4. ASSUME NEW l \in Studio!Lists, NEW i \in DOMAIN f.lists[l], f.lists[l][i] = x PROVE x \in Studio!EditsIn(g)
    <3>1. CASE l # "grading"
      BY <1>1, <2>2, <2>4, <3>1 DEF Studio!EditsIn, Studio!Range
    <3>2. CASE l = "grading"
      <4>1. PICK j \in DOMAIN named : named[j] = x
        BY <1>1, <1>5, <2>4, <3>2
      <4>2. j \in DOMAIN within /\ within[j] = x
        BY <1>1, <4>1 DEF Studio!Within
      <4> HIDE DEF within
      <4> QED
        BY <1>1, <1>2, <2>2, <4>2 DEF Studio!EditsIn, Studio!Range
    <3> QED
      BY <3>1, <3>2
  <2> QED
    BY <1>6, <2>1, <2>3, <2>4
<1> QED
  BY <1>7, <1>8

\* Everything but the edits.
LEMMA SaveHolds ==
    ASSUME Studio!StudioInv,
           \/ Studio!Render \/ Studio!save \/ Studio!Saved \/ Studio!SaveFails \/ Studio!Leave
           \/ \E t \in Studio!Tabs : Studio!setTab(t)
           \/ UNCHANGED studioVars
    PROVE  Studio!StudioInv'
<1>0. Studio!TypeOK /\ Studio!SentInv /\ Studio!WorkKept
  BY DEF Studio!StudioInv
<1>1. /\ UNCHANGED <<draft, edits, kept, nameless, excess>> /\ studioSlips \subseteq studioSlips' /\ drawn' \in {drawn, draft}
      /\ studioTab' \in Studio!Tabs /\ saving' \in {"no", "sent", "saved", "away"}
  BY <1>0 DEF Studio!Render, Studio!setTab, Studio!save, Studio!Saved, Studio!SaveFails, Studio!Leave, studioVars,
       Studio!values, Studio!TypeOK, Studio!Tabs
<1>2. Studio!TypeOK'
  BY <1>0, <1>1 DEF Studio!TypeOK
<1>3. Studio!SentInv'
  BY <1>0, <1>1 DEF Studio!Render, Studio!setTab, Studio!save, Studio!Saved, Studio!SaveFails, Studio!Leave, studioVars,
       Studio!SentInv
<1>4. Studio!WorkKept'
  <2>1. CASE Studio!Saved
    <3>1. /\ saving = "sent" /\ saving' = "saved" /\ saved' = Studio!Normalized(sent) /\ UNCHANGED studioSlips
      BY <2>1 DEF Studio!Saved
    <3>2. ASSUME studioSlips' = {} PROVE kept \ Studio!Dropped(draft) \subseteq Studio!EditsIn(saved')
      <4>1. sent = draft /\ kept \subseteq Studio!EditsIn(draft) /\ draft \in Studio!Draft
        BY <1>0, <3>1, <3>2 DEF Studio!SentInv, Studio!WorkKept, Studio!OnPage, Studio!TypeOK
      <4> QED
        BY <3>1, <4>1, NormalizedKeeps
    <3>3. Studio!Dropped(draft)' = Studio!Dropped(draft)
      BY <1>1 DEF Studio!Dropped
    <3> QED
      BY <1>1, <3>1, <3>2, <3>3 DEF Studio!WorkKept, Studio!OnPage
  <2>2. CASE ~Studio!Saved
    <3>1. /\ saving' = "saved" => saving = "saved" /\ saved' = saved
          /\ saving' \in {"no", "sent"} => saving \in {"no", "sent"}
      BY <2>2 DEF Studio!Render, Studio!setTab, Studio!save, Studio!SaveFails, Studio!Leave, Studio!OnPage, studioVars
    <3>2. Studio!Dropped(draft)' = Studio!Dropped(draft) /\ Studio!EditsIn(draft)' = Studio!EditsIn(draft)
      BY <1>1 DEF Studio!Dropped, Studio!EditsIn
    <3>3. saved' = saved => Studio!EditsIn(saved)' = Studio!EditsIn(saved)
      BY DEF Studio!EditsIn
    <3> QED
      BY <1>0, <1>1, <3>1, <3>2, <3>3 DEF Studio!WorkKept, Studio!OnPage
  <2> QED
    BY <2>1, <2>2
<1> QED
  BY <1>2, <1>3, <1>4 DEF Studio!StudioInv

LEMMA StudioStep == Studio!StudioInv /\ [Studio!Next]_studioVars => Studio!StudioInv'
<1> SUFFICES ASSUME Studio!StudioInv, [Studio!Next]_studioVars PROVE Studio!StudioInv'
  OBVIOUS
<1>1. ASSUME NEW f \in Studio!Plain, NEW how, Studio!setPlain(f, how) PROVE Studio!StudioInv'
  BY <1>1, PlainHolds
<1>2. ASSUME NEW f \in Studio!Plain \ {"weights"}, Studio!update_plain(f) PROVE Studio!StudioInv'
  BY <1>2, PlainHolds
<1>3. ASSUME NEW l \in Studio!Lists, NEW i \in 1..MaxItems, NEW how, Studio!setItem(l, i, how) PROVE Studio!StudioInv'
  BY <1>3, setItemHolds
<1> QED
  BY <1>1, <1>2, <1>3, addItemHolds, removeItemHolds, ToolHolds, SaveHolds DEF Studio!Next

LEMMA StudioMoves ==
    [PagesNext]_pagesVars /\ part' = "studio" => part = "studio" /\ [Studio!Next]_studioVars
BY DEF PagesNext, pagesVars, studioVars

\* No edit of the draft, the author's or the assistant's, is lost from the page or, after a
\* save, from the stored problem, however renders, tools and a running save interleave
\* (ProblemStudio.tsx), unless it was made over a list not yet rendered or during the save,
\* or is what normalize_grading_criteria drops: criteria without a name, values beyond the
\* limits, and the weights when no criterion has a name.
THEOREM EditsAreKept == PagesSpec => []WorkKept
<1> DEFINE Inv == part = "studio" => Studio!StudioInv
<1>1. PagesInit => Inv
  BY StudioInit DEF PagesInit
<1>2. Inv /\ [PagesNext]_pagesVars => Inv'
  BY StudioMoves, StudioStep
<1>3. Inv => WorkKept
  BY DEF WorkKept, Studio!StudioInv
<1> QED
  BY <1>1, <1>2, <1>3, PTL DEF PagesSpec

----------------------------------------------------------------------------
(* A review *)

LEMMA ReviewProblems == Review!Problems = Problems
BY DEF Review!Problems, Review!ToSet, Problems, ToSet

LEMMA PlayedTyped ==
    ASSUME NEW f \in Review!Problems \cup {"all"}
    PROVE  Review!Played(f) \in Review!Problems
<1>1. Head(ProblemList) = ProblemList[1] /\ 1 \in DOMAIN ProblemList
  BY ListAssumption
<1>2. Head(ProblemList) \in Review!Problems
  BY <1>1 DEF Review!Problems, Review!ToSet
<1> QED
  BY <1>2 DEF Review!Played

LEMMA Longer ==
    ASSUME NEW S, NEW s \in Seq(S), NEW v \in S
    PROVE  /\ Append(s, v) \in Seq(S) /\ Len(Append(s, v)) = Len(s) + 1 /\ Len(s) \in Nat
           /\ Len(s) + 1 \in DOMAIN Append(s, v) /\ Append(s, v)[Len(s) + 1] = v
           /\ \A k \in DOMAIN s : k \in DOMAIN Append(s, v) /\ Append(s, v)[k] = s[k] /\ k # Len(s) + 1
           /\ \A k \in DOMAIN Append(s, v) : k \in DOMAIN s \/ k = Len(s) + 1
<1>1. /\ Append(s, v) \in Seq(S) /\ DOMAIN Append(s, v) = 1..(Len(s) + 1) /\ Append(s, v)[Len(s) + 1] = v
      /\ \A k \in 1..Len(s) : Append(s, v)[k] = s[k]
  OBVIOUS
<1>2. DOMAIN s = 1..Len(s) /\ Len(s) \in Nat
  OBVIOUS
<1>3. Len(Append(s, v)) = Len(s) + 1
  OBVIOUS
<1>4. \A k \in DOMAIN s : k \in DOMAIN Append(s, v) /\ Append(s, v)[k] = s[k] /\ k # Len(s) + 1
  BY <1>1, <1>2
<1>5. \A k \in DOMAIN Append(s, v) : k \in DOMAIN s \/ k = Len(s) + 1
  BY <1>1, <1>2
<1> QED
  BY <1>1, <1>2, <1>3, <1>4, <1>5

LEMMA StoredAre ==
    ASSUME NEW x
    PROVE  /\ x \in Review!ToSet(stored) <=> \E i \in DOMAIN stored : stored[i] = x
           /\ x \in Review!ToSet(stored)' <=> \E i \in DOMAIN stored' : stored'[i] = x
BY DEF Review!ToSet

LEMMA StoredGrows ==
    ASSUME stored \in Seq(Int), NEW v \in Int, stored' = Append(stored, v), NEW x
    PROVE  x \in Review!ToSet(stored)' <=> x \in Review!ToSet(stored) \/ x = v
<1>1. x \in Review!ToSet(stored)' => x \in Review!ToSet(stored) \/ x = v
  BY StoredAre, Longer
<1>2. x \in Review!ToSet(stored) => x \in Review!ToSet(stored)'
  BY StoredAre, Longer
<1>3. v \in Review!ToSet(stored)'
  BY StoredAre, Longer
<1> QED
  BY <1>1, <1>2, <1>3

LEMMA ReviewInit == Review!Init => Review!ReviewInv
<1> SUFFICES ASSUME Review!Init PROVE Review!ReviewInv
  OBVIOUS
<1>1. /\ snapshots \in [Review!Problems -> Nat] /\ stored = <<>> /\ Len(stored) = 0 /\ DOMAIN stored = {}
      /\ detail = [evaluations |-> 0, snapshots |-> snapshots]
      /\ reviewLoads = <<>> /\ DOMAIN reviewLoads = {} /\ reviewPosts = <<>> /\ DOMAIN reviewPosts = {}
      /\ Len(reviewLoads) = 0
  BY ReviewProblems, ReviewAssumption DEF Review!Init, Review!Stored
<1>2. Review!TypeOK
  <2>1. detail \in Review!Loaded
    BY <1>1 DEF Review!Loaded
  <2>2. /\ stored \in Seq(Int) /\ reviewLoads \in Seq(Review!Load)
        /\ reviewPosts \in Seq(Review!Post)
    BY <1>1
  <2>3. /\ text = 0 /\ typed = 0 /\ asked = 0 /\ mount = 1 /\ waits = {} /\ tab = "overview" /\ filter = "all"
        /\ idx = 0 /\ playing = FALSE
    BY DEF Review!Init
  <2>4. /\ text \in 0..typed /\ typed \in Nat /\ asked \in Nat /\ mount \in Nat /\ waits \subseteq {"opinion", "auto"}
        /\ tab \in {"overview", "player", "records"} /\ filter \in Review!Problems \cup {"all"}
        /\ idx \in Nat /\ playing \in BOOLEAN
    <3>1. text \in 0..typed
      BY <2>3
    <3>2. typed \in Nat /\ asked \in Nat /\ mount \in Nat /\ idx \in Nat /\ playing \in BOOLEAN
      BY <2>3
    <3>3. waits \subseteq {"opinion", "auto"} /\ tab \in {"overview", "player", "records"} /\ filter \in Review!Problems \cup {"all"}
      BY <2>3
    <3> QED
      BY <3>1, <3>2, <3>3
  <2>5. snapshots \in [Review!Problems -> Nat]
    BY <1>1
  <2> QED
    BY <2>1, <2>2, <2>4, <2>5 DEF Review!TypeOK
<1>3. Review!FormInv /\ Review!OnceInv /\ Review!OpinionsKept /\ Review!OpinionsOnce
  BY <1>1 DEF Review!Init, Review!FormInv, Review!OnceInv, Review!OpinionsKept, Review!OpinionsOnce
<1>4. Review!LoadInv
  BY <1>1 DEF Review!LoadInv
<1>5. Review!PlayerHolds
  BY DEF Review!Init, Review!PlayerHolds
<1> QED
  BY <1>2, <1>3, <1>4, <1>5 DEF Review!ReviewInv

LEMMA ReviewStutters == Review!ReviewInv /\ UNCHANGED reviewVars => Review!ReviewInv'
<1> SUFFICES ASSUME Review!ReviewInv, UNCHANGED reviewVars PROVE Review!ReviewInv'
  OBVIOUS
<1>1. Review!TypeOK' /\ Review!PlayerHolds'
  BY DEF reviewVars, Review!ReviewInv, Review!TypeOK, Review!PlayerHolds, Review!Count
<1>2. Review!FormInv' /\ Review!OnceInv' /\ Review!OpinionsKept' /\ Review!OpinionsOnce'
  BY DEF reviewVars, Review!ReviewInv, Review!FormInv, Review!OnceInv, Review!OpinionsKept, Review!OpinionsOnce,
       Review!Waiting, Review!IsOpinion
<1>3. Review!LoadInv'
  BY DEF reviewVars, Review!ReviewInv, Review!LoadInv
<1> QED
  BY <1>1, <1>2, <1>3 DEF Review!ReviewInv

\* What is looked at: the form stays as it is, or is left with its text.
Stays == UNCHANGED <<text, waits, mount, given>> /\ (tab' = tab \/ tab # "overview")
Leaves ==
    /\ tab = "overview" /\ tab' # "overview"
    /\ text' = 0 /\ waits' = {} /\ mount' = mount + 1 /\ given' = given \cup ({text} \ {0})

LEMMA FormLooked ==
    ASSUME Review!ReviewInv, UNCHANGED <<stored, reviewPosts, typed, reviewMishaps>>, Stays \/ Leaves
    PROVE  Review!FormInv' /\ Review!OnceInv' /\ Review!OpinionsKept'
<1>0. Review!TypeOK /\ Review!FormInv /\ Review!OnceInv /\ Review!OpinionsKept
  BY DEF Review!ReviewInv
<1>1. \A k \in DOMAIN reviewPosts : reviewPosts[k].from \in Nat /\ reviewPosts[k].text \in Nat
  <2>1. \A k \in DOMAIN reviewPosts : reviewPosts[k] \in Review!Post
    BY <1>0 DEF Review!TypeOK
  <2> QED
    BY <2>1 DEF Review!Post
<1>2. mount \in Nat /\ text \in Nat /\ text <= typed
  BY <1>0 DEF Review!TypeOK
<1>3. CASE Stays
  <2>1. Review!FormInv'
    BY <1>0, <1>3 DEF Stays, Review!FormInv, Review!Waiting, Review!IsOpinion
  <2>2. Review!OnceInv' /\ Review!OpinionsKept'
    BY <1>0, <1>3 DEF Stays, Review!OnceInv, Review!OpinionsKept, Review!Waiting, Review!IsOpinion
  <2> QED
    BY <2>1, <2>2
<1>4. CASE Leaves
  <2>1. \A k \in DOMAIN reviewPosts : reviewPosts[k].from <= mount /\ reviewPosts[k].from # mount + 1
    BY <1>0, <1>1, <1>2 DEF Review!FormInv
  <2>2. Review!FormInv'
    BY <1>0, <1>1, <1>2, <1>4, <2>1 DEF Leaves, Review!FormInv, Review!Waiting, Review!IsOpinion
  <2>3. Review!OnceInv'
    BY <1>0, <1>4 DEF Leaves, Review!OnceInv, Review!FormInv, Review!Waiting, Review!IsOpinion
  <2>4. Review!OpinionsKept'
    BY <1>0, <1>4 DEF Leaves, Review!OpinionsKept
  <2> QED
    BY <2>2, <2>3, <2>4
<1> QED
  BY <1>3, <1>4

LEMMA StoredSame ==
    ASSUME Review!ReviewInv, UNCHANGED <<stored, detail, reviewLoads, reviewPosts, reviewMishaps>>
    PROVE  Review!LoadInv' /\ Review!OpinionsOnce'
BY DEF Review!ReviewInv, Review!LoadInv, Review!OpinionsOnce

LEMMA Rendered ==
    ASSUME Review!ReviewInv, NEW t \in {"overview", "player", "records"}, NEW f \in Review!Problems \cup {"all"},
           NEW d \in Review!Loaded, Review!PlayerRenders(t, f, d)
    PROVE  /\ idx' \in Nat /\ playing' \in BOOLEAN
           /\ t = "player" /\ d.snapshots[Review!Played(f)] > 0 => idx' < d.snapshots[Review!Played(f)]
<1>1. /\ idx \in Nat /\ playing \in BOOLEAN /\ filter \in Review!Problems \cup {"all"} /\ Review!PlayerHolds
  BY DEF Review!ReviewInv, Review!TypeOK
<1>2. d.snapshots[Review!Played(f)] \in Nat
  BY PlayedTyped DEF Review!Loaded
<1> DEFINE n == d.snapshots[Review!Played(f)]
<1>3. n \in Nat
  BY <1>2
<1>4. CASE Review!Rewind(Review!Played(f), d)
  <2>1. idx' = IF n > 0 THEN n - 1 ELSE 0
    BY <1>4 DEF Review!Rewind
  <2>2. playing' = FALSE
    BY <1>4 DEF Review!Rewind
  <2> HIDE DEF n
  <2>3. idx' \in Nat /\ (n > 0 => idx' < n)
    BY <1>3, <2>1
  <2> QED
    BY <2>2, <2>3 DEF n
<1>5. CASE t # "player" /\ idx' = 0 /\ playing' = FALSE
  BY <1>5
<1>6. CASE /\ t = "player" /\ tab = "player" /\ n = Review!Count /\ idx' = idx /\ playing' = playing
  BY <1>1, <1>6 DEF Review!PlayerHolds
<1>7. \/ Review!Rewind(Review!Played(f), d)
      \/ t # "player" /\ idx' = 0 /\ playing' = FALSE
      \/ t = "player" /\ tab = "player" /\ n = Review!Count /\ idx' = idx /\ playing' = playing
  BY DEF Review!PlayerRenders, Review!Count, Review!player
<1> HIDE DEF n
<1> QED
  BY <1>4, <1>5, <1>6, <1>7

LEMMA LookSteps ==
    ASSUME Review!ReviewInv,
           \/ \E t \in {"overview", "player", "records"} : Review!setTab(t)
           \/ \E f \in Review!Problems \cup {"all"} : Review!setProblemFilter(f)
           \/ \E p \in Review!Problems : Review!openProblemRecords(p)
           \/ Review!togglePlay \/ Review!Advance
           \/ \E i \in 0..MaxSnapshots : Review!seek(i)
    PROVE  Review!ReviewInv'
<1> DEFINE Frame == UNCHANGED <<snapshots, stored, detail, reviewLoads, reviewPosts, typed, asked, reviewMishaps>>
           Player == /\ idx' \in Nat /\ playing' \in BOOLEAN
                     /\ tab' \in {"overview", "player", "records"} /\ filter' \in Review!Problems \cup {"all"}
                     /\ tab' = "player" /\ detail.snapshots[Review!Played(filter')] > 0 =>
                           idx' < detail.snapshots[Review!Played(filter')]
<1>0. Review!TypeOK /\ Review!PlayerHolds
  BY DEF Review!ReviewInv
<1>a. /\ detail \in Review!Loaded /\ idx \in Nat /\ playing \in BOOLEAN
      /\ tab \in {"overview", "player", "records"} /\ filter \in Review!Problems \cup {"all"}
  BY <1>0 DEF Review!TypeOK
<1>b. Review!Count \in Nat /\ Review!Count = detail.snapshots[Review!Played(filter)]
  BY <1>a, PlayedTyped DEF Review!Count, Review!Loaded
<1>1. ASSUME NEW t \in {"overview", "player", "records"}, Review!setTab(t) PROVE Frame /\ Player /\ (Stays \/ Leaves)
  <2>1. /\ t # tab /\ tab' = t /\ Review!Leave(t) /\ Review!PlayerRenders(t, filter, detail)
        /\ UNCHANGED <<snapshots, stored, detail, reviewLoads, filter, reviewPosts, typed, asked, reviewMishaps>>
    BY <1>1 DEF Review!setTab, Review!player, Review!form, Review!history
  <2>2. Stays \/ Leaves
    BY <2>1 DEF Review!Leave, Review!form, Stays, Leaves
  <2>3. Player
    BY <1>a, <2>1, Rendered
  <2> QED
    BY <2>1, <2>2, <2>3
<1>2. ASSUME NEW f \in Review!Problems \cup {"all"}, Review!setProblemFilter(f)
      PROVE  Frame /\ Player /\ (Stays \/ Leaves)
  <2>1. /\ filter' = f /\ Review!PlayerRenders(tab, f, detail)
        /\ UNCHANGED <<snapshots, stored, detail, reviewLoads, tab, text, waits, mount, reviewPosts, typed, given, asked,
                       reviewMishaps>>
    BY <1>2 DEF Review!setProblemFilter, Review!player, Review!form, Review!history
  <2>2. Player
    BY <1>a, <2>1, Rendered
  <2> QED
    BY <2>1, <2>2 DEF Stays
<1>3. ASSUME NEW p \in Review!Problems, Review!openProblemRecords(p) PROVE Frame /\ Player /\ (Stays \/ Leaves)
  <2>1. /\ tab = "overview" /\ filter' = p /\ tab' = "records" /\ Review!Leave("records")
        /\ Review!PlayerRenders("records", p, detail)
        /\ UNCHANGED <<snapshots, stored, detail, reviewLoads, reviewPosts, typed, asked, reviewMishaps>>
    BY <1>3 DEF Review!openProblemRecords, Review!player, Review!form, Review!history
  <2>2. Stays \/ Leaves
    BY <2>1 DEF Review!Leave, Review!form, Stays, Leaves
  <2>3. Player
    BY <1>a, <2>1, Rendered
  <2> QED
    BY <2>1, <2>2, <2>3
<1>4. ASSUME Review!togglePlay \/ Review!Advance \/ \E i \in 0..MaxSnapshots : Review!seek(i)
      PROVE  Frame /\ Player /\ (Stays \/ Leaves)
  <2>1. /\ UNCHANGED <<snapshots, stored, detail, reviewLoads, tab, filter, text, waits, mount, reviewPosts, typed, given,
                       asked, reviewMishaps>>
        /\ \/ idx' = idx
           \/ ~(idx >= Review!Count - 1) /\ idx' = idx + 1
           \/ \E i \in 0..MaxSnapshots : i < Review!Count /\ idx' = i
        /\ playing' \in BOOLEAN
    BY <1>4, <1>a DEF Review!togglePlay, Review!Advance, Review!seek, Review!player, Review!form, Review!history
  <2>2. idx' \in Nat /\ (tab = "player" /\ Review!Count > 0 => idx' < Review!Count)
    BY <1>0, <1>a, <1>b, <2>1 DEF Review!PlayerHolds
  <2> QED
    BY <1>a, <1>b, <2>1, <2>2 DEF Stays
<1>5. Frame /\ Player /\ (Stays \/ Leaves)
  BY <1>1, <1>2, <1>3, <1>4
<1> HIDE DEF Player
<1>6. Review!FormInv' /\ Review!OnceInv' /\ Review!OpinionsKept' /\ Review!LoadInv' /\ Review!OpinionsOnce'
  BY <1>5, FormLooked, StoredSame
<1>7. Review!TypeOK'
  <2>1. text' \in 0..typed' /\ waits' \subseteq {"opinion", "auto"} /\ mount' \in Nat
    <3>1. text \in 0..typed /\ typed \in Nat /\ waits \subseteq {"opinion", "auto"} /\ mount \in Nat
      BY <1>0 DEF Review!TypeOK
    <3>2. waits' \subseteq {"opinion", "auto"}
      BY <1>5, <3>1 DEF Stays, Leaves
    <3>3. mount' \in Nat
      BY <1>5, <3>1 DEF Stays, Leaves
    <3>4. text' \in 0..typed'
      BY <1>5, <3>1 DEF Stays, Leaves
    <3> QED
      BY <3>2, <3>3, <3>4
  <2> QED
    BY <1>0, <1>5, <2>1 DEF Review!TypeOK, Player
<1>8. Review!PlayerHolds'
  BY <1>5 DEF Player, Review!PlayerHolds, Review!Count
<1> QED
  BY <1>6, <1>7, <1>8 DEF Review!ReviewInv

\* What others store is no opinion of this page.
LEMMA FormOutside ==
    ASSUME Review!ReviewInv, UNCHANGED <<tab, text, waits, mount, reviewPosts, typed, given>>,
           reviewMishaps \subseteq reviewMishaps', stored' = stored \/ stored' = Append(stored, -1)
    PROVE  Review!FormInv' /\ Review!OnceInv' /\ Review!OpinionsKept' /\ Review!OpinionsOnce'
<1>0. /\ Review!FormInv /\ Review!OnceInv /\ Review!OpinionsKept /\ Review!OpinionsOnce
      /\ stored \in Seq(Int) /\ typed \in Nat /\ text \in Nat /\ -1 \in Int
  BY DEF Review!ReviewInv, Review!TypeOK
<1>1. \A k \in DOMAIN reviewPosts : reviewPosts[k].text \in Nat
  <2>1. \A k \in DOMAIN reviewPosts : reviewPosts[k] \in Review!Post
    BY DEF Review!ReviewInv, Review!TypeOK
  <2> QED
    BY <2>1 DEF Review!Post
<1>2. \A x : x \in Review!ToSet(stored)' <=> x \in Review!ToSet(stored) \/ (x = -1 /\ stored' # stored)
  <2>1. CASE stored' = stored
    BY <2>1, StoredAre
  <2>2. CASE stored' = Append(stored, -1)
    <3>1. stored' # stored
      BY <1>0, <2>2, Longer
    <3> QED
      BY <1>0, <2>2, <3>1, StoredGrows
  <2> QED
    BY <2>1, <2>2
<1>3. \A i \in DOMAIN stored' : stored'[i] <= typed /\ (stored'[i] > 0 => i \in DOMAIN stored /\ stored'[i] = stored[i])
  <2>1. CASE stored' = stored
    BY <1>0, <2>1 DEF Review!OnceInv
  <2>2. CASE stored' = Append(stored, -1)
    <3>1. \A i \in DOMAIN stored' : (i \in DOMAIN stored /\ stored'[i] = stored[i]) \/ stored'[i] = -1
      BY <1>0, <2>2, Longer
    <3>2. \A i \in DOMAIN stored : stored[i] <= typed
      BY <1>0 DEF Review!OnceInv
    <3>3. -1 <= typed /\ ~(-1 > 0)
      BY <1>0
    <3> QED
      BY <3>1, <3>2, <3>3
  <2> QED
    BY <2>1, <2>2
<1>4. Review!FormInv'
  BY <1>0, <1>2 DEF Review!FormInv, Review!Waiting, Review!IsOpinion
<1>5. Review!OnceInv'
  <2>1. \A i \in DOMAIN stored' : stored'[i] <= typed'
    BY <1>3
  <2>2. text # 0 => text # -1 /\ (text \in Review!ToSet(stored)' <=> text \in Review!ToSet(stored))
    BY <1>0, <1>2
  <2>3. \A k \in DOMAIN reviewPosts :
           reviewPosts[k].text \in Review!ToSet(stored)' <=> reviewPosts[k].text \in Review!ToSet(stored)
    BY <1>1, <1>2
  <2>4. "answer lost" \notin reviewMishaps' =>
          /\ \A k \in DOMAIN reviewPosts :
                Review!IsOpinion(k) /\ reviewPosts[k].step # "stored" => reviewPosts[k].text \notin Review!ToSet(stored)'
          /\ text # 0 /\ text \in Review!ToSet(stored)' =>
                \E k \in DOMAIN reviewPosts :
                   Review!Waiting(k) /\ reviewPosts[k].text = text /\ reviewPosts[k].step = "stored"
    BY <1>0, <2>2, <2>3 DEF Review!OnceInv
  <2> QED
    BY <1>0, <2>1, <2>4 DEF Review!OnceInv, Review!Waiting, Review!IsOpinion
<1>6. Review!OpinionsKept'
  BY <1>0, <1>2 DEF Review!OpinionsKept
<1>7. Review!OpinionsOnce'
  BY <1>0, <1>3 DEF Review!OpinionsOnce
<1> QED
  BY <1>4, <1>5, <1>6, <1>7

LEMMA OtherSteps ==
    ASSUME Review!ReviewInv,
           Review!OtherEvaluates \/ \E p \in Review!Problems : Review!CandidateSaves(p)
    PROVE  Review!ReviewInv'
<1>0. Review!TypeOK /\ Review!LoadInv /\ Review!PlayerHolds
  BY DEF Review!ReviewInv
<1>1. /\ UNCHANGED <<detail, reviewLoads, tab, filter, idx, playing, text, waits, mount, reviewPosts, typed, given,
                     reviewMishaps>>
      /\ snapshots' \in [Review!Problems -> Nat] /\ asked' \in Nat
      /\ stored' = stored \/ stored' = Append(stored, -1)
  <2>1. snapshots \in [Review!Problems -> Nat] /\ asked \in Nat
    BY <1>0 DEF Review!TypeOK
  <2> QED
    BY <2>1 DEF Review!OtherEvaluates, Review!CandidateSaves, Review!player, Review!form, Review!history
<1>2. Review!FormInv' /\ Review!OnceInv' /\ Review!OpinionsKept' /\ Review!OpinionsOnce'
  BY <1>1, FormOutside
<1>3. stored \in Seq(Int) /\ -1 \in Int /\ detail.evaluations \in Nat /\ Len(stored) \in Nat
  BY <1>0 DEF Review!TypeOK, Review!Loaded
<1>4. /\ stored' \in Seq(Int) /\ Len(stored) <= Len(stored') /\ Len(stored') \in Nat
      /\ \A i \in DOMAIN stored' : stored'[i] >= 0 => i \in DOMAIN stored /\ stored'[i] = stored[i]
  <2>1. CASE stored' = stored
    BY <1>3, <2>1
  <2>2. CASE stored' = Append(stored, -1)
    <3>1. \A i \in DOMAIN stored' : (i \in DOMAIN stored /\ stored'[i] = stored[i]) \/ stored'[i] = -1
      BY <1>3, <2>2, Longer
    <3>2. stored' \in Seq(Int) /\ Len(stored') = Len(stored) + 1
      BY <1>3, <2>2, Longer
    <3> QED
      BY <1>3, <3>1, <3>2
  <2> QED
    BY <1>1, <2>1, <2>2
<1>5. Review!TypeOK'
  BY <1>0, <1>1, <1>4 DEF Review!TypeOK
<1>6. Review!LoadInv'
  <2>1. \A k \in DOMAIN reviewLoads : reviewLoads[k].answer.evaluations \in Nat
    <3>1. \A k \in DOMAIN reviewLoads : reviewLoads[k] \in Review!Load
      BY <1>0 DEF Review!TypeOK
    <3> QED
      BY <3>1 DEF Review!Load, Review!Loaded
  <2> QED
    BY <1>0, <1>1, <1>3, <1>4, <2>1 DEF Review!LoadInv
<1>7. Review!PlayerHolds'
  BY <1>0, <1>1 DEF Review!PlayerHolds, Review!Count
<1> QED
  BY <1>2, <1>5, <1>6, <1>7 DEF Review!ReviewInv

LEMMA LoadSteps ==
    ASSUME Review!ReviewInv, NEW k \in DOMAIN reviewLoads,
           Review!ServeLoad(k) \/ Review!Show(k) \/ Review!LoadFails(k)
    PROVE  Review!ReviewInv'
<1>0. Review!TypeOK /\ Review!LoadInv /\ Review!PlayerHolds
  BY DEF Review!ReviewInv
<1>a. /\ reviewLoads \in Seq(Review!Load) /\ \A j \in DOMAIN reviewLoads : reviewLoads[j] \in Review!Load
      /\ stored \in Seq(Int) /\ Len(stored) \in Nat /\ detail \in Review!Loaded
      /\ tab \in {"overview", "player", "records"} /\ filter \in Review!Problems \cup {"all"}
  BY <1>0 DEF Review!TypeOK
<1>b. /\ \A j \in DOMAIN reviewLoads : /\ reviewLoads[j].answer \in Review!Loaded
                                       /\ reviewLoads[j].answer.evaluations \in Nat
      /\ detail.evaluations \in Nat
  BY <1>a DEF Review!Load, Review!Loaded
<1>c. Review!Stored \in Review!Loaded /\ Review!Stored.evaluations = Len(stored)
  BY <1>0, <1>a DEF Review!TypeOK, Review!Stored, Review!Loaded
<1>1. /\ UNCHANGED <<snapshots, stored, tab, filter, text, waits, mount, reviewPosts, typed, given, asked>>
      /\ reviewMishaps \subseteq reviewMishaps'
  BY DEF Review!ServeLoad, Review!Show, Review!LoadFails, Review!Mishap, Review!player, Review!form, Review!history
<1>2. Review!FormInv' /\ Review!OnceInv' /\ Review!OpinionsKept' /\ Review!OpinionsOnce'
  BY <1>1, FormOutside
<1>3. CASE Review!ServeLoad(k)
  <2>1. /\ reviewLoads' = [reviewLoads EXCEPT ![k] = [served |-> TRUE, answer |-> Review!Stored]]
        /\ UNCHANGED <<detail, idx, playing, reviewMishaps>>
    BY <1>3 DEF Review!ServeLoad, Review!player, Review!form, Review!history
  <2>2. [served |-> TRUE, answer |-> Review!Stored] \in Review!Load
    BY <1>c DEF Review!Load
  <2>3. /\ reviewLoads' \in Seq(Review!Load) /\ DOMAIN reviewLoads' = DOMAIN reviewLoads /\ Len(reviewLoads') = Len(reviewLoads)
        /\ reviewLoads'[k] = [served |-> TRUE, answer |-> Review!Stored]
        /\ \A j \in DOMAIN reviewLoads : j # k => reviewLoads'[j] = reviewLoads[j]
    BY <1>a, <2>1, <2>2
  <2>4. \A j \in DOMAIN reviewLoads :
           \/ reviewLoads'[j].answer.evaluations = Len(stored)
           \/ reviewLoads'[j] = reviewLoads[j]
    BY <1>c, <2>3
  <2>5. \A i \in DOMAIN stored : i <= Len(stored)
    BY <1>a
  <2>6. Review!LoadInv'
    <3>1. \A j \in DOMAIN reviewLoads' : reviewLoads'[j].answer.evaluations <= Len(stored)
      BY <1>0, <1>a, <2>3, <2>4 DEF Review!LoadInv
    <3>2. detail.evaluations <= Len(stored)
      BY <1>0 DEF Review!LoadInv
    <3>3. ASSUME reviewMishaps \subseteq {"refused"}, NEW j \in DOMAIN reviewLoads', reviewLoads'[j].served
          PROVE  detail.evaluations <= reviewLoads'[j].answer.evaluations
      BY <1>0, <2>3, <2>4, <3>2, <3>3 DEF Review!LoadInv
    <3>4. ASSUME reviewMishaps \subseteq {"refused"}, NEW i \in DOMAIN stored, stored[i] >= 0
          PROVE  \/ i <= detail.evaluations
                 \/ \E j \in DOMAIN reviewPosts : reviewPosts[j].step = "stored"
                 \/ \E j \in DOMAIN reviewLoads' : reviewLoads'[j].served => i <= reviewLoads'[j].answer.evaluations
      BY <1>0, <2>3, <2>4, <2>5, <3>4 DEF Review!LoadInv
    <3>5. reviewMishaps \subseteq {"refused"} => Len(reviewLoads') <= 1
      BY <1>0, <2>3 DEF Review!LoadInv
    <3> QED
      BY <1>1, <2>1, <3>1, <3>2, <3>3, <3>4, <3>5 DEF Review!LoadInv
  <2>7. Review!TypeOK' /\ Review!PlayerHolds'
    BY <1>0, <1>1, <2>1, <2>3 DEF Review!TypeOK, Review!PlayerHolds, Review!Count
  <2> QED
    BY <1>2, <2>6, <2>7 DEF Review!ReviewInv
<1>4. CASE Review!Show(k)
  <2>1. /\ reviewLoads[k].served /\ reviewLoads' = RemoveAt(reviewLoads, k) /\ detail' = reviewLoads[k].answer
        /\ Review!PlayerRenders(tab, filter, reviewLoads[k].answer) /\ UNCHANGED reviewMishaps
    BY <1>4 DEF Review!Show, Review!RemoveAt, RemoveAt, Review!form, Review!history
  <2>2. /\ reviewLoads' \in Seq(Review!Load) /\ DOMAIN reviewLoads' = 1..(Len(reviewLoads) - 1)
        /\ Len(reviewLoads') = Len(reviewLoads) - 1
        /\ \A j \in DOMAIN reviewLoads' : \E i \in DOMAIN reviewLoads : reviewLoads'[j] = reviewLoads[i]
    <3>1. reviewLoads' \in Seq(Review!Load) /\ DOMAIN reviewLoads' = 1..(Len(reviewLoads) - 1)
      BY <1>a, <2>1, Removed
    <3>2. \A j \in DOMAIN reviewLoads' : \E i \in DOMAIN reviewLoads : reviewLoads'[j] = reviewLoads[i]
      BY <1>a, <2>1, Others
    <3>3. Len(reviewLoads) \in Nat /\ Len(reviewLoads) - 1 \in Nat
      BY <1>a
    <3>4. Len(reviewLoads') = Len(reviewLoads) - 1
      BY <3>1, <3>3
    <3> QED
      BY <3>1, <3>2, <3>4
  <2>3. detail' \in Review!Loaded /\ detail'.evaluations <= Len(stored)
    BY <1>0, <1>b, <2>1 DEF Review!LoadInv
  <2>4. ASSUME reviewMishaps \subseteq {"refused"}
        PROVE  /\ DOMAIN reviewLoads = {k} /\ DOMAIN reviewLoads' = {} /\ Len(reviewLoads') <= 1
               /\ detail.evaluations <= detail'.evaluations
    <3>1. Len(reviewLoads) <= 1 /\ detail.evaluations <= reviewLoads[k].answer.evaluations
      BY <1>0, <2>1, <2>4 DEF Review!LoadInv
    <3>2. Len(reviewLoads) \in Nat /\ DOMAIN reviewLoads = 1..Len(reviewLoads)
      BY <1>a
    <3>3. Len(reviewLoads) = 1 /\ k = 1
      BY <3>1, <3>2
    <3>4. DOMAIN reviewLoads = {k} /\ DOMAIN reviewLoads' = {} /\ Len(reviewLoads') <= 1
      BY <2>2, <3>2, <3>3
    <3> QED
      BY <2>1, <3>1, <3>4
  <2>5. Review!LoadInv'
    <3>1. \A j \in DOMAIN reviewLoads' : reviewLoads'[j].answer.evaluations <= Len(stored)
      BY <1>0, <2>2 DEF Review!LoadInv
    <3>2. ASSUME reviewMishaps \subseteq {"refused"}, NEW i \in DOMAIN stored, stored[i] >= 0
          PROVE  i <= detail'.evaluations \/ \E j \in DOMAIN reviewPosts : reviewPosts[j].step = "stored"
      <4>1. i \in Nat /\ detail'.evaluations \in Nat
        BY <1>a, <2>3 DEF Review!Loaded
      <4> QED
        BY <1>0, <1>b, <2>1, <2>4, <3>2, <4>1 DEF Review!LoadInv
    <3> QED
      BY <1>1, <2>1, <2>3, <2>4, <3>1, <3>2 DEF Review!LoadInv
  <2>6. /\ idx' \in Nat /\ playing' \in BOOLEAN
        /\ tab = "player" /\ detail'.snapshots[Review!Played(filter)] > 0 => idx' < detail'.snapshots[Review!Played(filter)]
    BY <1>a, <1>b, <2>1, Rendered
  <2>7. Review!PlayerHolds'
    BY <1>1, <2>6 DEF Review!PlayerHolds, Review!Count
  <2>8. Review!TypeOK'
    BY <1>0, <1>1, <2>2, <2>3, <2>6 DEF Review!TypeOK
  <2> QED
    BY <1>2, <2>5, <2>7, <2>8 DEF Review!ReviewInv
<1>5. CASE Review!LoadFails(k)
  <2>1. /\ reviewLoads' = RemoveAt(reviewLoads, k) /\ "load failed" \in reviewMishaps'
        /\ UNCHANGED <<detail, idx, playing>>
    BY <1>5 DEF Review!LoadFails, Review!Mishap, Review!RemoveAt, RemoveAt, Review!player, Review!form
  <2>2. /\ reviewLoads' \in Seq(Review!Load)
        /\ \A j \in DOMAIN reviewLoads' : \E i \in DOMAIN reviewLoads : reviewLoads'[j] = reviewLoads[i]
    BY <1>a, <2>1, Removed, Others
  <2>3. Review!LoadInv'
    BY <1>0, <1>1, <2>1, <2>2 DEF Review!LoadInv
  <2>4. Review!TypeOK' /\ Review!PlayerHolds'
    BY <1>0, <1>1, <2>1, <2>2 DEF Review!TypeOK, Review!PlayerHolds, Review!Count
  <2> QED
    BY <1>2, <2>3, <2>4 DEF Review!ReviewInv
<1> QED
  BY <1>3, <1>4, <1>5

LEMMA ReviewTypeStep == ASSUME Review!ReviewInv, Review!Type PROVE Review!ReviewInv'
<1>0. /\ Review!TypeOK /\ Review!FormInv /\ Review!OnceInv /\ Review!OpinionsKept /\ Review!PlayerHolds
      /\ stored \in Seq(Int) /\ typed \in Nat /\ text \in Nat /\ text <= typed
  BY DEF Review!ReviewInv, Review!TypeOK
<1>1. /\ typed' = typed + 1 /\ text' = typed + 1
      /\ given' = (given \cup ({text} \ {0})) \cup (IF "opinion" \in waits THEN {typed + 1} ELSE {})
      /\ UNCHANGED <<snapshots, stored, detail, reviewLoads, tab, filter, idx, playing, waits, mount, reviewPosts, asked,
                     reviewMishaps>>
  BY DEF Review!Type, Review!player
<1>2. \A k \in DOMAIN reviewPosts : reviewPosts[k].text \in Nat /\ reviewPosts[k].text <= typed
  <2>1. \A k \in DOMAIN reviewPosts : reviewPosts[k] \in Review!Post
    BY <1>0 DEF Review!TypeOK
  <2> QED
    BY <1>0, <2>1 DEF Review!Post, Review!FormInv
<1>3. \A i \in DOMAIN stored : stored[i] \in Int /\ stored[i] <= typed
  <2>1. \A i \in DOMAIN stored : stored[i] \in Int
    BY <1>0
  <2>2. \A i \in DOMAIN stored : stored[i] <= typed
    BY <1>0 DEF Review!OnceInv
  <2> QED
    BY <2>1, <2>2
<1>4. Review!FormInv'
  <2>1. \A k \in DOMAIN reviewPosts : reviewPosts[k].text <= typed'
    BY <1>0, <1>1, <1>2
  <2>2. \A k \in DOMAIN reviewPosts : Review!Waiting(k) => "opinion" \in waits /\ text' \in given'
    BY <1>0, <1>1 DEF Review!FormInv
  <2> QED
    BY <1>0, <1>1, <2>1, <2>2 DEF Review!FormInv, Review!Waiting, Review!IsOpinion
<1>5. Review!OnceInv'
  <2>1. \A i \in DOMAIN stored : stored[i] <= typed' /\ stored[i] # text'
    BY <1>0, <1>1, <1>3
  <2>2. text' \notin Review!ToSet(stored)
    BY <2>1, StoredAre
  <2>3. \A k \in DOMAIN reviewPosts : reviewPosts[k].text # text'
    BY <1>0, <1>1, <1>2
  <2> QED
    BY <1>0, <1>1, <2>1, <2>2, <2>3 DEF Review!OnceInv, Review!Waiting, Review!IsOpinion
<1>6. Review!OpinionsKept'
  <2>1. ASSUME NEW w \in 1..typed' PROVE w \in {text'} \cup Review!ToSet(stored) \cup given'
    <3>1. w \in 1..typed \/ w = text'
      BY <1>0, <1>1
    <3>2. w # 0
      OBVIOUS
    <3> QED
      BY <1>0, <1>1, <3>1, <3>2 DEF Review!OpinionsKept
  <2> QED
    BY <1>1, <2>1 DEF Review!OpinionsKept
<1>7. Review!LoadInv' /\ Review!OpinionsOnce'
  BY <1>1, StoredSame
<1>8. Review!TypeOK'
  <2>1. typed' \in Nat /\ text' \in 0..typed'
    BY <1>0, <1>1
  <2> QED
    BY <1>0, <1>1, <2>1 DEF Review!TypeOK
<1>9. Review!PlayerHolds'
  BY <1>0, <1>1 DEF Review!PlayerHolds, Review!Count
<1> QED
  BY <1>4, <1>5, <1>6, <1>7, <1>8, <1>9 DEF Review!ReviewInv

\* A form that is not waiting has sent nothing that it still shows.
LEMMA SendStep ==
    ASSUME Review!ReviewInv, NEW kind \in {"opinion", "auto"}, NEW opinion \in 0..typed, Review!Send(kind, opinion),
           kind = "opinion" <=> opinion # 0, kind = "opinion" => opinion = text
    PROVE  Review!ReviewInv'
<1> DEFINE post == [kind |-> kind, text |-> opinion, from |-> mount, step |-> "sent"]
           n == Len(reviewPosts) + 1
<1>0. /\ Review!TypeOK /\ Review!FormInv /\ Review!OnceInv /\ Review!OpinionsKept /\ Review!OpinionsOnce
      /\ Review!LoadInv /\ Review!PlayerHolds
      /\ stored \in Seq(Int) /\ typed \in Nat /\ text \in 0..typed /\ asked \in Nat /\ mount \in Nat
      /\ waits \subseteq {"opinion", "auto"} /\ reviewPosts \in Seq(Review!Post)
  BY DEF Review!ReviewInv, Review!TypeOK
<1>1. /\ tab = "overview" /\ kind \notin waits /\ asked' = asked + 1 /\ waits' = waits \cup {kind}
      /\ reviewPosts' = Append(reviewPosts, post)
      /\ UNCHANGED <<snapshots, stored, detail, reviewLoads, tab, filter, idx, playing, text, mount, typed, given,
                     reviewMishaps>>
  BY DEF Review!Send, Review!player
<1>2. opinion \in Nat /\ opinion <= typed
  BY <1>0
<1>3. /\ post \in Review!Post /\ post.kind = kind /\ post.text = opinion /\ post.from = mount /\ post.step = "sent"
  BY <1>0, <1>2 DEF Review!Post
<1> HIDE DEF post
<1>4. /\ reviewPosts' \in Seq(Review!Post) /\ n \in DOMAIN reviewPosts' /\ reviewPosts'[n] = post
      /\ \A k \in DOMAIN reviewPosts : k \in DOMAIN reviewPosts' /\ reviewPosts'[k] = reviewPosts[k]
      /\ \A k \in DOMAIN reviewPosts' : (k \in DOMAIN reviewPosts /\ reviewPosts'[k] = reviewPosts[k]) \/ k = n
  BY <1>0, <1>1, <1>3, Longer
<1> HIDE DEF n
<1>5. ASSUME kind = "opinion"
      PROVE  /\ \A k \in DOMAIN reviewPosts : ~(reviewPosts[k].kind = "opinion" /\ reviewPosts[k].from = mount)
             /\ \A k \in DOMAIN reviewPosts : ~(reviewPosts[k].kind = "opinion" /\ reviewPosts[k].text = text)
             /\ "answer lost" \notin reviewMishaps => text \notin Review!ToSet(stored)
  <2>1. \A k \in DOMAIN reviewPosts : ~(reviewPosts[k].kind = "opinion" /\ reviewPosts[k].from = mount)
    BY <1>0, <1>1, <1>5 DEF Review!FormInv, Review!Waiting, Review!IsOpinion
  <2>2. \A k \in DOMAIN reviewPosts : ~(reviewPosts[k].kind = "opinion" /\ reviewPosts[k].text = text)
    BY <1>0, <2>1 DEF Review!OnceInv, Review!IsOpinion
  <2>3. "answer lost" \notin reviewMishaps => text \notin Review!ToSet(stored)
    BY <1>0, <1>5, <2>1 DEF Review!OnceInv, Review!Waiting, Review!IsOpinion
  <2> QED
    BY <2>1, <2>2, <2>3
<1>6. Review!FormInv'
  <2>1. \A k \in DOMAIN reviewPosts' : reviewPosts'[k].from <= mount /\ (reviewPosts'[k].from = mount => tab = "overview")
    BY <1>0, <1>1, <1>3, <1>4 DEF Review!FormInv
  <2>2. \A k \in DOMAIN reviewPosts' : reviewPosts'[k].kind = "opinion" /\ reviewPosts'[k].from = mount =>
           "opinion" \in waits' /\ text \in {reviewPosts'[k].text} \cup given
    <3>1. kind = "opinion" => "opinion" \in waits' /\ text \in {post.text} \cup given
      BY <1>1, <1>3
    <3>2. \A k \in DOMAIN reviewPosts : reviewPosts[k].kind = "opinion" /\ reviewPosts[k].from = mount =>
             "opinion" \in waits' /\ text \in {reviewPosts[k].text} \cup given
      BY <1>0, <1>1 DEF Review!FormInv, Review!Waiting, Review!IsOpinion
    <3> QED
      BY <1>3, <1>4, <3>1, <3>2
  <2>3. \A k \in DOMAIN reviewPosts' : reviewPosts'[k].kind = "opinion" <=> reviewPosts'[k].text # 0
    BY <1>0, <1>3, <1>4 DEF Review!FormInv, Review!IsOpinion
  <2>4. \A k \in DOMAIN reviewPosts' : /\ reviewPosts'[k].text <= typed
                                       /\ reviewPosts'[k].step = "stored" => reviewPosts'[k].text \in Review!ToSet(stored)
    BY <1>0, <1>2, <1>3, <1>4 DEF Review!FormInv
  <2>5. \A j, k \in DOMAIN reviewPosts' :
           (/\ reviewPosts'[j].kind = "opinion" /\ reviewPosts'[j].from = mount
            /\ reviewPosts'[k].kind = "opinion" /\ reviewPosts'[k].from = mount) => j = k
    <3>1. \A j, k \in DOMAIN reviewPosts :
             (/\ reviewPosts[j].kind = "opinion" /\ reviewPosts[j].from = mount
              /\ reviewPosts[k].kind = "opinion" /\ reviewPosts[k].from = mount) => j = k
      BY <1>0 DEF Review!FormInv, Review!Waiting, Review!IsOpinion
    <3>2. \A k \in DOMAIN reviewPosts : reviewPosts[k].kind = "opinion" /\ reviewPosts[k].from = mount => post.kind # "opinion"
      BY <1>3, <1>5
    <3> QED
      BY <1>4, <3>1, <3>2
  <2>6. UNCHANGED <<mount, tab, text, given, typed, stored>> /\ Review!ToSet(stored)' = Review!ToSet(stored)
    BY <1>1 DEF Review!ToSet
  <2>7. \A k \in DOMAIN reviewPosts' : Review!Waiting(k)' =>
           "opinion" \in waits' /\ text' \in {reviewPosts'[k].text} \cup given'
    BY <2>2, <2>6 DEF Review!Waiting, Review!IsOpinion
  <2>8. \A j, k \in DOMAIN reviewPosts' : Review!Waiting(j)' /\ Review!Waiting(k)' => j = k
    BY <2>5, <2>6 DEF Review!Waiting, Review!IsOpinion
  <2>9. \A k \in DOMAIN reviewPosts' : Review!IsOpinion(k)' <=> reviewPosts'[k].text # 0
    BY <2>3 DEF Review!IsOpinion
  <2>10. \A k \in DOMAIN reviewPosts' : /\ reviewPosts'[k].from <= mount'
                                        /\ reviewPosts'[k].from = mount' => tab' = "overview"
    BY <2>1, <2>6
  <2>11. \A k \in DOMAIN reviewPosts' :
            /\ reviewPosts'[k].text <= typed'
            /\ reviewPosts'[k].step = "stored" => reviewPosts'[k].text \in Review!ToSet(stored)'
    BY <2>4, <2>6
  <2> QED
    BY <2>7, <2>8, <2>9, <2>10, <2>11 DEF Review!FormInv
<1>7. Review!OnceInv'
  <2>1. \A k \in DOMAIN reviewPosts' :
           reviewPosts'[k].kind = "opinion" /\ reviewPosts'[k].text = text => reviewPosts'[k].from = mount
    <3>1. \A k \in DOMAIN reviewPosts :
             reviewPosts[k].kind = "opinion" /\ reviewPosts[k].text = text => reviewPosts[k].from = mount
      BY <1>0 DEF Review!OnceInv, Review!IsOpinion
    <3> QED
      BY <1>3, <1>4, <3>1
  <2>2. \A j, k \in DOMAIN reviewPosts' :
           reviewPosts'[j].kind = "opinion" /\ reviewPosts'[j].text = reviewPosts'[k].text => j = k
    <3>1. \A j \in DOMAIN reviewPosts : reviewPosts[j].kind = "opinion" <=> reviewPosts[j].text # 0
      BY <1>0 DEF Review!FormInv, Review!IsOpinion
    <3>2. \A j \in DOMAIN reviewPosts : ~(reviewPosts[j].kind = "opinion" /\ reviewPosts[j].text = post.text)
      BY <1>3, <1>5, <3>1
    <3>3. \A j, k \in DOMAIN reviewPosts :
             reviewPosts[j].kind = "opinion" /\ reviewPosts[j].text = reviewPosts[k].text => j = k
      BY <1>0 DEF Review!OnceInv, Review!IsOpinion
    <3>4. \A k \in DOMAIN reviewPosts : ~(kind = "opinion" /\ post.text = reviewPosts[k].text)
      BY <1>3, <3>1, <3>2
    <3> QED
      BY <1>3, <1>4, <3>2, <3>3, <3>4
  <2>3. ASSUME "answer lost" \notin reviewMishaps
        PROVE  /\ \A k \in DOMAIN reviewPosts' : reviewPosts'[k].kind = "opinion" /\ reviewPosts'[k].step # "stored" =>
                     reviewPosts'[k].text \notin Review!ToSet(stored)
               /\ text # 0 /\ text \in Review!ToSet(stored) =>
                     \E k \in DOMAIN reviewPosts' : /\ reviewPosts'[k].kind = "opinion" /\ reviewPosts'[k].from = mount
                                                    /\ reviewPosts'[k].text = text /\ reviewPosts'[k].step = "stored"
    <3>1. kind = "opinion" => post.text \notin Review!ToSet(stored)
      BY <1>3, <1>5, <2>3
    <3>2. \A k \in DOMAIN reviewPosts : reviewPosts[k].kind = "opinion" /\ reviewPosts[k].step # "stored" =>
             reviewPosts[k].text \notin Review!ToSet(stored)
      BY <1>0, <2>3 DEF Review!OnceInv, Review!IsOpinion
    <3>3. text # 0 /\ text \in Review!ToSet(stored) =>
             \E k \in DOMAIN reviewPosts : /\ reviewPosts[k].kind = "opinion" /\ reviewPosts[k].from = mount
                                           /\ reviewPosts[k].text = text /\ reviewPosts[k].step = "stored"
      BY <1>0, <2>3 DEF Review!OnceInv, Review!IsOpinion, Review!Waiting
    <3> QED
      BY <1>3, <1>4, <3>1, <3>2, <3>3
  <2> QED
    BY <1>0, <1>1, <2>1, <2>2, <2>3 DEF Review!OnceInv, Review!Waiting, Review!IsOpinion
<1>8. Review!OpinionsKept' /\ Review!OpinionsOnce'
  BY <1>0, <1>1 DEF Review!OpinionsKept, Review!OpinionsOnce
<1>9. Review!LoadInv'
  <2>1. (\E k \in DOMAIN reviewPosts : reviewPosts[k].step = "stored")
           => \E k \in DOMAIN reviewPosts' : reviewPosts'[k].step = "stored"
    BY <1>4
  <2> QED
    BY <1>0, <1>1, <2>1 DEF Review!LoadInv
<1>10. Review!TypeOK'
  BY <1>0, <1>1, <1>4 DEF Review!TypeOK
<1>11. Review!PlayerHolds'
  BY <1>0, <1>1 DEF Review!PlayerHolds, Review!Count
<1> QED
  BY <1>6, <1>7, <1>8, <1>9, <1>10, <1>11 DEF Review!ReviewInv

LEMMA FormSteps ==
    ASSUME Review!ReviewInv, Review!Type \/ Review!saveHuman \/ Review!runAutoEval
    PROVE  Review!ReviewInv'
<1>0. text \in 0..typed /\ typed \in Nat /\ 0 \in 0..typed
  BY DEF Review!ReviewInv, Review!TypeOK
<1>1. CASE Review!saveHuman
  BY <1>0, <1>1, SendStep DEF Review!saveHuman
<1>2. CASE Review!runAutoEval
  BY <1>0, <1>2, SendStep DEF Review!runAutoEval
<1> QED
  BY <1>1, <1>2, ReviewTypeStep

\* A request is carried out, or fails, or its answer is lost.
LEMMA ServeSteps ==
    ASSUME Review!ReviewInv, NEW k \in DOMAIN reviewPosts,
           Review!Serve(k) \/ Review!ServeFails(k) \/ Review!AnswerLost(k)
    PROVE  Review!ReviewInv'
<1> DEFINE Served == /\ reviewPosts[k].step = "sent" /\ reviewPosts'[k].step = "stored"
                     /\ stored' = Append(stored, reviewPosts[k].text) /\ reviewMishaps' = reviewMishaps
           Refused == /\ reviewPosts[k].step = "sent" /\ reviewPosts'[k].step = "failed"
                      /\ stored' = stored /\ reviewMishaps' = reviewMishaps \cup {"refused"}
           Lost == /\ reviewPosts[k].step = "stored" /\ reviewPosts'[k].step = "failed"
                   /\ stored' = stored /\ reviewMishaps' = reviewMishaps \cup {"answer lost"}
<1>0. /\ Review!TypeOK /\ Review!FormInv /\ Review!OnceInv /\ Review!OpinionsKept /\ Review!OpinionsOnce
      /\ Review!LoadInv /\ Review!PlayerHolds
      /\ stored \in Seq(Int) /\ Len(stored) \in Nat /\ typed \in Nat /\ text \in Nat
      /\ reviewPosts \in Seq(Review!Post) /\ detail \in Review!Loaded /\ reviewLoads \in Seq(Review!Load)
  BY DEF Review!ReviewInv, Review!TypeOK
<1>a. \A j \in DOMAIN reviewPosts : reviewPosts[j] \in Review!Post /\ reviewPosts[j].text \in Nat
  <2>1. \A j \in DOMAIN reviewPosts : reviewPosts[j] \in Review!Post
    BY <1>0
  <2> QED
    BY <2>1 DEF Review!Post
<1>1. UNCHANGED <<snapshots, detail, reviewLoads, tab, filter, idx, playing, text, waits, mount, typed, given, asked>>
  BY DEF Review!Serve, Review!ServeFails, Review!AnswerLost, Review!player, Review!form, Review!history
<1>2. PICK x \in {"stored", "failed"} : reviewPosts' = [reviewPosts EXCEPT ![k].step = x]
  BY DEF Review!Serve, Review!ServeFails, Review!AnswerLost
<1>3. [reviewPosts[k] EXCEPT !.step = x] \in Review!Post
  BY <1>a DEF Review!Post
<1>4. /\ reviewPosts' \in Seq(Review!Post) /\ DOMAIN reviewPosts' = DOMAIN reviewPosts
      /\ \A j \in DOMAIN reviewPosts : j # k => reviewPosts'[j] = reviewPosts[j]
      /\ reviewPosts'[k] = [reviewPosts[k] EXCEPT !.step = x]
  BY <1>0, <1>2, <1>3
<1>5. /\ reviewPosts'[k].step = x
      /\ \A j \in DOMAIN reviewPosts : /\ reviewPosts'[j].kind = reviewPosts[j].kind
                                       /\ reviewPosts'[j].text = reviewPosts[j].text
                                       /\ reviewPosts'[j].from = reviewPosts[j].from
                                       /\ j # k => reviewPosts'[j].step = reviewPosts[j].step
  BY <1>a, <1>4 DEF Review!Post
<1>6. Served \/ Refused \/ Lost
  <2>1. CASE Review!Serve(k)
    <3>1. /\ reviewPosts[k].step = "sent" /\ reviewPosts' = [reviewPosts EXCEPT ![k].step = "stored"]
          /\ stored' = Append(stored, reviewPosts[k].text) /\ reviewMishaps' = reviewMishaps
      BY <2>1 DEF Review!Serve, Review!history
    <3>2. reviewPosts'[k] = [reviewPosts[k] EXCEPT !.step = "stored"]
      BY <1>0, <3>1
    <3>3. reviewPosts'[k].step = "stored"
      BY <1>a, <3>2 DEF Review!Post
    <3> QED
      BY <3>1, <3>3
  <2>2. CASE Review!ServeFails(k)
    <3>1. /\ reviewPosts[k].step = "sent" /\ reviewPosts' = [reviewPosts EXCEPT ![k].step = "failed"]
          /\ stored' = stored /\ reviewMishaps' = reviewMishaps \cup {"refused"}
      BY <2>2 DEF Review!ServeFails, Review!Mishap
    <3>2. reviewPosts'[k] = [reviewPosts[k] EXCEPT !.step = "failed"]
      BY <1>0, <3>1
    <3>3. reviewPosts'[k].step = "failed"
      BY <1>a, <3>2 DEF Review!Post
    <3> QED
      BY <3>1, <3>3
  <2>3. CASE Review!AnswerLost(k)
    <3>1. /\ reviewPosts[k].step = "stored" /\ reviewPosts' = [reviewPosts EXCEPT ![k].step = "failed"]
          /\ stored' = stored /\ reviewMishaps' = reviewMishaps \cup {"answer lost"}
      BY <2>3 DEF Review!AnswerLost, Review!Mishap
    <3>2. reviewPosts'[k] = [reviewPosts[k] EXCEPT !.step = "failed"]
      BY <1>0, <3>1
    <3>3. reviewPosts'[k].step = "failed"
      BY <1>a, <3>2 DEF Review!Post
    <3> QED
      BY <3>1, <3>3
  <2> QED
    BY <2>1, <2>2, <2>3
<1>7. reviewMishaps \subseteq reviewMishaps'
  BY <1>6
<1>8. /\ stored' \in Seq(Int) /\ Len(stored) <= Len(stored') /\ Len(stored') \in Nat
      /\ \A y : y \in Review!ToSet(stored)' <=> y \in Review!ToSet(stored) \/ (Served /\ y = reviewPosts[k].text)
      /\ \A i \in DOMAIN stored' : (i \in DOMAIN stored /\ stored'[i] = stored[i]) \/ (Served /\ stored'[i] = reviewPosts[k].text)
  <2>1. CASE Served
    <3>1. reviewPosts[k].text \in Int
      BY <1>a
    <3>2. stored' \in Seq(Int) /\ Len(stored) <= Len(stored') /\ Len(stored') \in Nat
      BY <1>0, <2>1, <3>1, Longer
    <3>3. \A y : y \in Review!ToSet(stored)' <=> y \in Review!ToSet(stored) \/ y = reviewPosts[k].text
      BY <1>0, <2>1, <3>1, StoredGrows
    <3>4. \A i \in DOMAIN stored' : (i \in DOMAIN stored /\ stored'[i] = stored[i]) \/ stored'[i] = reviewPosts[k].text
      BY <1>0, <2>1, <3>1, Longer
    <3> HIDE DEF Served
    <3> QED
      BY <2>1, <3>2, <3>3, <3>4
  <2>2. CASE stored' = stored
    <3>1. stored # Append(stored, reviewPosts[k].text)
      <4>1. reviewPosts[k].text \in Int
        BY <1>a
      <4> QED
        BY <1>0, <4>1, Longer
    <3>2. ~Served
      BY <2>2, <3>1
    <3> HIDE DEF Served
    <3> QED
      BY <1>0, <2>2, <3>2, StoredAre
  <2> QED
    BY <1>6, <2>1, <2>2
<1>9. Review!FormInv'
  <2>1. \A j \in DOMAIN reviewPosts : reviewPosts'[j].step = "stored" => reviewPosts[j].text \in Review!ToSet(stored)'
    <3>1. CASE Served
      BY <1>0, <1>5, <1>8, <3>1 DEF Review!FormInv
    <3>2. CASE ~Served
      <4>1. reviewPosts'[k].step # "stored"
        BY <1>6, <3>2
      <4> HIDE DEF Served
      <4> QED
        BY <1>0, <1>5, <1>8, <4>1 DEF Review!FormInv
    <3> QED
      BY <3>1, <3>2
  <2>2. \A j \in DOMAIN reviewPosts' : /\ reviewPosts'[j].from <= mount'
                                       /\ reviewPosts'[j].from = mount' => tab' = "overview"
    BY <1>0, <1>1, <1>4, <1>5 DEF Review!FormInv
  <2>3. \A j \in DOMAIN reviewPosts' : Review!Waiting(j)' <=> Review!Waiting(j)
    BY <1>1, <1>4, <1>5 DEF Review!Waiting, Review!IsOpinion
  <2>4. \A j \in DOMAIN reviewPosts' : Review!Waiting(j)' =>
           "opinion" \in waits' /\ text' \in {reviewPosts'[j].text} \cup given'
    BY <1>0, <1>1, <1>4, <1>5, <2>3 DEF Review!FormInv
  <2>5. \A j \in DOMAIN reviewPosts' : Review!IsOpinion(j)' <=> reviewPosts'[j].text # 0
    BY <1>0, <1>4, <1>5 DEF Review!FormInv, Review!IsOpinion
  <2>6. \A j \in DOMAIN reviewPosts' :
           /\ reviewPosts'[j].text <= typed'
           /\ reviewPosts'[j].step = "stored" => reviewPosts'[j].text \in Review!ToSet(stored)'
    BY <1>0, <1>1, <1>4, <1>5, <2>1 DEF Review!FormInv
  <2>7. \A i, j \in DOMAIN reviewPosts' : Review!Waiting(i)' /\ Review!Waiting(j)' => i = j
    BY <1>0, <1>4, <2>3 DEF Review!FormInv
  <2> QED
    BY <2>2, <2>4, <2>5, <2>6, <2>7 DEF Review!FormInv
<1>10. /\ \A j \in DOMAIN reviewPosts : reviewPosts[j].kind = "opinion" <=> reviewPosts[j].text # 0
       /\ \A j \in DOMAIN reviewPosts : reviewPosts[j].kind = "opinion" /\ reviewPosts[j].text = text => reviewPosts[j].from = mount
       /\ \A i, j \in DOMAIN reviewPosts :
             reviewPosts[i].kind = "opinion" /\ reviewPosts[i].text = reviewPosts[j].text => i = j
  BY <1>0 DEF Review!FormInv, Review!OnceInv, Review!IsOpinion
<1>11. Review!OnceInv'
  <2>1. \A i \in DOMAIN stored' : stored'[i] <= typed'
    <3>1. \A i \in DOMAIN stored : stored[i] <= typed
      BY <1>0 DEF Review!OnceInv
    <3>2. reviewPosts[k].text <= typed
      BY <1>0 DEF Review!FormInv
    <3> HIDE DEF Served
    <3> QED
      BY <1>1, <1>8, <3>1, <3>2
  <2>2. \A j \in DOMAIN reviewPosts' : Review!IsOpinion(j)' /\ reviewPosts'[j].text = text' => reviewPosts'[j].from = mount'
    BY <1>1, <1>4, <1>5, <1>10 DEF Review!IsOpinion
  <2>3. \A i, j \in DOMAIN reviewPosts' : Review!IsOpinion(i)' /\ reviewPosts'[i].text = reviewPosts'[j].text => i = j
    BY <1>4, <1>5, <1>10 DEF Review!IsOpinion
  <2>4. ASSUME "answer lost" \notin reviewMishaps'
        PROVE  /\ \A j \in DOMAIN reviewPosts : reviewPosts[j].kind = "opinion" /\ reviewPosts'[j].step # "stored" =>
                     reviewPosts[j].text \notin Review!ToSet(stored)'
               /\ text # 0 /\ text \in Review!ToSet(stored)' =>
                     \E j \in DOMAIN reviewPosts : /\ reviewPosts[j].kind = "opinion" /\ reviewPosts[j].from = mount
                                                   /\ reviewPosts[j].text = text /\ reviewPosts'[j].step = "stored"
    <3>1. /\ \A j \in DOMAIN reviewPosts : reviewPosts[j].kind = "opinion" /\ reviewPosts[j].step # "stored" =>
                reviewPosts[j].text \notin Review!ToSet(stored)
          /\ text # 0 /\ text \in Review!ToSet(stored) =>
                \E j \in DOMAIN reviewPosts : /\ reviewPosts[j].kind = "opinion" /\ reviewPosts[j].from = mount
                                              /\ reviewPosts[j].text = text /\ reviewPosts[j].step = "stored"
      BY <1>0, <1>7, <2>4 DEF Review!OnceInv, Review!IsOpinion, Review!Waiting
    <3>2. Served \/ Refused
      BY <1>6, <2>4
    <3>3. reviewPosts[k].step # "stored" /\ (~Served => stored' = stored)
      BY <3>2
    <3>4. ASSUME NEW j \in DOMAIN reviewPosts, reviewPosts[j].kind = "opinion", reviewPosts'[j].step # "stored"
          PROVE  reviewPosts[j].text \notin Review!ToSet(stored)'
      <4>1. reviewPosts[j].step # "stored"
        BY <1>5, <3>3, <3>4
      <4>2. Served => j # k
        BY <3>4
      <4>3. Served => reviewPosts[j].text # reviewPosts[k].text
        BY <1>10, <3>4, <4>2
      <4> HIDE DEF Served
      <4> QED
        BY <1>8, <3>1, <3>4, <4>1, <4>3
    <3>5. ASSUME text # 0, text \in Review!ToSet(stored)'
          PROVE  \E j \in DOMAIN reviewPosts : /\ reviewPosts[j].kind = "opinion" /\ reviewPosts[j].from = mount
                                               /\ reviewPosts[j].text = text /\ reviewPosts'[j].step = "stored"
      <4>1. CASE text \in Review!ToSet(stored)
        BY <1>5, <3>1, <3>3, <3>5, <4>1
      <4>2. CASE Served /\ text = reviewPosts[k].text
        <5>1. reviewPosts[k].kind = "opinion"
          BY <1>10, <3>5, <4>2
        <5>2. reviewPosts[k].from = mount
          BY <1>0, <4>2, <5>1 DEF Review!OnceInv, Review!IsOpinion
        <5> QED
          BY <4>2, <5>1, <5>2
      <4> HIDE DEF Served
      <4> QED
        BY <1>8, <3>5, <4>1, <4>2
    <3> QED
      BY <3>4, <3>5
  <2>5. "answer lost" \notin reviewMishaps' =>
           /\ \A j \in DOMAIN reviewPosts' : Review!IsOpinion(j)' /\ reviewPosts'[j].step # "stored" =>
                 reviewPosts'[j].text \notin Review!ToSet(stored)'
           /\ text' # 0 /\ text' \in Review!ToSet(stored)' =>
                 \E j \in DOMAIN reviewPosts' :
                    Review!Waiting(j)' /\ reviewPosts'[j].text = text' /\ reviewPosts'[j].step = "stored"
    BY <1>1, <1>4, <1>5, <2>4 DEF Review!IsOpinion, Review!Waiting
  <2> QED
    BY <2>1, <2>2, <2>3, <2>5 DEF Review!OnceInv
<1>12. Review!OpinionsKept'
  <2> HIDE DEF Served
  <2> QED
    BY <1>0, <1>1, <1>8 DEF Review!OpinionsKept
<1>13. Review!OpinionsOnce'
  <2>1. ASSUME NEW i \in DOMAIN stored', NEW j \in DOMAIN stored', stored'[i] = stored'[j], stored'[i] > 0, i # j,
               "answer lost" \notin reviewMishaps'
        PROVE  FALSE
    <3>1. "answer lost" \notin reviewMishaps /\ (Served => reviewPosts[k].step = "sent")
      BY <1>7, <2>1
    <3>2. ASSUME Served PROVE reviewPosts[k].text = 0 \/ reviewPosts[k].text \notin Review!ToSet(stored)
      <4>1. reviewPosts[k].text # 0 => reviewPosts[k].kind = "opinion"
        BY <1>10
      <4> QED
        BY <1>0, <3>1, <3>2, <4>1 DEF Review!OnceInv, Review!IsOpinion
    <3>3. /\ i \in DOMAIN stored /\ stored'[i] = stored[i] => stored'[i] \in Review!ToSet(stored)
          /\ j \in DOMAIN stored /\ stored'[j] = stored[j] => stored'[j] \in Review!ToSet(stored)
      BY StoredAre
    <3>4. CASE Served
      <4>1. \A h \in DOMAIN stored' : (h \in DOMAIN stored /\ stored'[h] = stored[h]) \/ h = Len(stored) + 1
        BY <1>0, <1>a, <3>4, Longer
      <4>2. stored'[Len(stored) + 1] = reviewPosts[k].text
        BY <1>0, <1>a, <3>4, Longer
      <4> HIDE DEF Served
      <4>3. reviewPosts[k].text # 0 => reviewPosts[k].text \notin Review!ToSet(stored)
        BY <3>2, <3>4
      <4>4. reviewPosts[k].text \in Nat /\ stored'[i] # 0 /\ stored'[j] # 0
        <5>1. stored'[i] \in Int /\ stored'[j] \in Int
          BY <1>8
        <5>2. reviewPosts[k].text \in Nat
          BY <1>a
        <5>3. \A v \in Int : v > 0 => v # 0
          OBVIOUS
        <5>4. stored'[i] # 0
          BY <2>1, <5>1, <5>3
        <5>5. stored'[j] # 0
          BY <2>1, <5>4
        <5> QED
          BY <5>2, <5>4, <5>5
      <4>5. CASE (i \in DOMAIN stored /\ stored'[i] = stored[i]) /\ (j \in DOMAIN stored /\ stored'[j] = stored[j])
        BY <1>0, <2>1, <3>1, <4>5 DEF Review!OpinionsOnce
      <4>6. CASE i = Len(stored) + 1
        BY <2>1, <3>3, <4>1, <4>2, <4>3, <4>6, <4>4
      <4>7. CASE j = Len(stored) + 1
        BY <2>1, <3>3, <4>1, <4>2, <4>3, <4>7, <4>4
      <4> QED
        BY <4>1, <4>5, <4>6, <4>7
    <3>5. CASE stored' = stored
      BY <1>0, <2>1, <3>1, <3>5 DEF Review!OpinionsOnce
    <3> QED
      BY <1>6, <3>4, <3>5
  <2> QED
    BY <2>1 DEF Review!OpinionsOnce
<1>14. Review!LoadInv'
  <2>1. \A j \in DOMAIN reviewLoads : reviewLoads[j].answer.evaluations \in Nat
    <3>1. \A j \in DOMAIN reviewLoads : reviewLoads[j] \in Review!Load
      BY <1>0
    <3> QED
      BY <3>1 DEF Review!Load, Review!Loaded
  <2>2. detail.evaluations \in Nat /\ detail.evaluations <= Len(stored)
    BY <1>0 DEF Review!Loaded, Review!LoadInv
  <2>3. detail.evaluations <= Len(stored') /\ \A j \in DOMAIN reviewLoads : reviewLoads[j].answer.evaluations <= Len(stored')
    BY <1>0, <1>8, <2>1, <2>2 DEF Review!LoadInv
  <2>4. ASSUME reviewMishaps' \subseteq {"refused"}
        PROVE  /\ Len(reviewLoads) <= 1
               /\ \A j \in DOMAIN reviewLoads : reviewLoads[j].served => detail.evaluations <= reviewLoads[j].answer.evaluations
               /\ \A i \in DOMAIN stored' : stored'[i] >= 0 =>
                     \/ i <= detail.evaluations
                     \/ \E j \in DOMAIN reviewPosts' : reviewPosts'[j].step = "stored"
                     \/ \E j \in DOMAIN reviewLoads : reviewLoads[j].served => i <= reviewLoads[j].answer.evaluations
    <3>1. reviewMishaps \subseteq {"refused"} /\ (Served \/ Refused)
      BY <1>6, <1>7, <2>4
    <3>2. CASE Served
      BY <1>0, <1>4, <3>1, <3>2 DEF Review!LoadInv
    <3>3. CASE Refused
      <4>1. \A j \in DOMAIN reviewPosts : reviewPosts[j].step = "stored" => reviewPosts'[j].step = "stored"
        BY <1>5, <3>3
      <4>2. stored' = stored
        BY <3>3
      <4>3. \A i \in DOMAIN stored : stored[i] >= 0 =>
               \/ i <= detail.evaluations
               \/ \E j \in DOMAIN reviewPosts : reviewPosts[j].step = "stored"
               \/ \E j \in DOMAIN reviewLoads : reviewLoads[j].served => i <= reviewLoads[j].answer.evaluations
        BY <1>0, <3>1 DEF Review!LoadInv
      <4> QED
        BY <1>0, <1>4, <3>1, <4>1, <4>2, <4>3 DEF Review!LoadInv
    <3> QED
      BY <3>1, <3>2, <3>3
  <2> QED
    BY <1>1, <2>3, <2>4 DEF Review!LoadInv
<1>15. Review!TypeOK' /\ Review!PlayerHolds'
  BY <1>0, <1>1, <1>4, <1>8 DEF Review!TypeOK, Review!PlayerHolds, Review!Count
<1> QED
  BY <1>9, <1>11, <1>12, <1>13, <1>14, <1>15 DEF Review!ReviewInv

\* The answer unlocks the form it belongs to, takes the text with it once that is stored,
\* and asks for a load.
LEMMA AnswerStep ==
    ASSUME Review!ReviewInv, NEW k \in DOMAIN reviewPosts, Review!Answer(k)
    PROVE  Review!ReviewInv'
<1> DEFINE post == reviewPosts[k]
<1>0. /\ Review!TypeOK /\ Review!FormInv /\ Review!OnceInv /\ Review!OpinionsKept /\ Review!OpinionsOnce
      /\ Review!LoadInv /\ Review!PlayerHolds
      /\ stored \in Seq(Int) /\ Len(stored) \in Nat /\ typed \in Nat /\ text \in 0..typed
      /\ waits \subseteq {"opinion", "auto"}
      /\ reviewPosts \in Seq(Review!Post) /\ detail \in Review!Loaded /\ reviewLoads \in Seq(Review!Load)
  BY DEF Review!ReviewInv, Review!TypeOK
<1>a. /\ \A j \in DOMAIN reviewPosts : Review!Waiting(j) =>
            /\ "opinion" \in waits /\ text \in {reviewPosts[j].text} \cup given
            /\ reviewPosts[j].kind = "opinion" /\ reviewPosts[j].from = mount /\ tab = "overview"
      /\ \A i, j \in DOMAIN reviewPosts : Review!Waiting(i) /\ Review!Waiting(j) => i = j
  BY <1>0 DEF Review!FormInv, Review!Waiting, Review!IsOpinion
<1>1. /\ post.step \in {"stored", "failed"} /\ reviewPosts' = RemoveAt(reviewPosts, k)
      /\ UNCHANGED <<snapshots, stored, detail, tab, filter, idx, playing, mount, typed, given, asked>>
  BY DEF Review!Answer, Review!RemoveAt, RemoveAt, Review!player
<1>2. \/ UNCHANGED <<text, waits>> /\ ~(Review!Waiting(k))
      \/ post.kind # "opinion" /\ UNCHANGED text /\ waits' = waits \ {post.kind}
      \/ post.kind = "opinion" /\ text' = text /\ waits' = waits \ {"opinion"} /\ post.step # "stored" /\ Review!Waiting(k)
      \/ post.kind = "opinion" /\ text' = 0 /\ waits' = waits \ {"opinion"} /\ post.step = "stored" /\ Review!Waiting(k)
  BY <1>a DEF Review!Answer, Review!Mounted, Review!Cleared, Review!Waiting, Review!IsOpinion
<1>3. \/ /\ post.step = "stored"
         /\ reviewLoads' = Append(reviewLoads, [served |-> FALSE, answer |-> detail])
         /\ reviewMishaps' = IF reviewLoads = <<>> THEN reviewMishaps ELSE reviewMishaps \cup {"loads overlap"}
      \/ post.step # "stored" /\ UNCHANGED <<reviewLoads, reviewMishaps>>
  BY DEF Review!Answer
<1>4. /\ text' \in {0, text} /\ waits' \subseteq waits
      /\ text' # text => Review!Waiting(k) /\ post.kind = "opinion" /\ post.step = "stored"
      /\ Review!Waiting(k) /\ post.step = "stored" => text' = 0
      /\ \A j \in DOMAIN reviewPosts : j # k /\ Review!Waiting(j) => "opinion" \in waits' /\ text' = text
  <2>1. \A j \in DOMAIN reviewPosts : j # k /\ Review!Waiting(j) => ~Review!Waiting(k) /\ "opinion" \in waits
    BY <1>a
  <2>2. Review!Waiting(k) => post.kind = "opinion"
    BY <1>a
  <2> HIDE DEF post
  <2> QED
    BY <1>2, <2>1, <2>2
<1>5. /\ reviewPosts' \in Seq(Review!Post)
      /\ \A j \in DOMAIN reviewPosts' :
            \E i \in DOMAIN reviewPosts : i # k /\ reviewPosts'[j] = reviewPosts[i] /\ i = IF j < k THEN j ELSE j + 1
      /\ \A i \in DOMAIN reviewPosts : i # k => \E j \in DOMAIN reviewPosts' : reviewPosts'[j] = reviewPosts[i]
  BY <1>0, <1>1, Removed, Others
<1>6. DOMAIN reviewPosts \subseteq Nat /\ DOMAIN reviewPosts' \subseteq Nat
  BY <1>0, <1>5
<1>7. \A i, j \in DOMAIN reviewPosts' : \E g, h \in DOMAIN reviewPosts :
         /\ g # k /\ h # k /\ reviewPosts'[i] = reviewPosts[g] /\ reviewPosts'[j] = reviewPosts[h]
         /\ g = h => i = j
  <2> SUFFICES ASSUME NEW i \in DOMAIN reviewPosts', NEW j \in DOMAIN reviewPosts'
               PROVE  \E g, h \in DOMAIN reviewPosts :
                         /\ g # k /\ h # k /\ reviewPosts'[i] = reviewPosts[g] /\ reviewPosts'[j] = reviewPosts[h]
                         /\ g = h => i = j
    OBVIOUS
  <2>1. PICK g \in DOMAIN reviewPosts : g # k /\ reviewPosts'[i] = reviewPosts[g] /\ g = IF i < k THEN i ELSE i + 1
    BY <1>5
  <2>2. PICK h \in DOMAIN reviewPosts : h # k /\ reviewPosts'[j] = reviewPosts[h] /\ h = IF j < k THEN j ELSE j + 1
    BY <1>5
  <2>3. g = h => i = j
    <3>1. i \in Nat /\ j \in Nat /\ k \in Nat
      BY <1>6
    <3> QED
      BY <2>1, <2>2, <3>1
  <2> QED
    BY <2>1, <2>2, <2>3
<1>8. \A i \in DOMAIN reviewPosts : Review!Waiting(i) <=> reviewPosts[i].kind = "opinion" /\ reviewPosts[i].from = mount
  BY DEF Review!Waiting, Review!IsOpinion
<1>9. /\ \A j : Review!Waiting(j)' <=> reviewPosts'[j].kind = "opinion" /\ reviewPosts'[j].from = mount
      /\ \A j : Review!IsOpinion(j)' <=> reviewPosts'[j].kind = "opinion"
      /\ Review!ToSet(stored)' = Review!ToSet(stored)
  BY <1>1 DEF Review!Waiting, Review!IsOpinion, Review!ToSet
<1> HIDE DEF post
<1>10. Review!FormInv'
  <2>1. \A i \in DOMAIN reviewPosts : /\ reviewPosts[i].from <= mount
                                      /\ reviewPosts[i].from = mount => tab = "overview"
                                      /\ reviewPosts[i].kind = "opinion" <=> reviewPosts[i].text # 0
                                      /\ reviewPosts[i].text <= typed
                                      /\ reviewPosts[i].step = "stored" => reviewPosts[i].text \in Review!ToSet(stored)
    BY <1>0 DEF Review!FormInv, Review!IsOpinion
  <2>2. \A j \in DOMAIN reviewPosts' : /\ reviewPosts'[j].from <= mount'
                                       /\ reviewPosts'[j].from = mount' => tab' = "overview"
    BY <1>1, <1>5, <2>1
  <2>3. \A j \in DOMAIN reviewPosts' : Review!Waiting(j)' =>
           "opinion" \in waits' /\ text' \in {reviewPosts'[j].text} \cup given'
    <3> SUFFICES ASSUME NEW j \in DOMAIN reviewPosts', Review!Waiting(j)'
                 PROVE  "opinion" \in waits' /\ text' \in {reviewPosts'[j].text} \cup given'
      OBVIOUS
    <3>1. PICK i \in DOMAIN reviewPosts : i # k /\ reviewPosts'[j] = reviewPosts[i]
      BY <1>5
    <3>2. Review!Waiting(i)
      BY <1>8, <1>9, <3>1
    <3>3. "opinion" \in waits' /\ text' = text
      BY <1>4, <3>1, <3>2
    <3>4. text \in {reviewPosts[i].text} \cup given
      BY <1>a, <3>2
    <3> QED
      BY <1>1, <3>1, <3>3, <3>4
  <2>4. \A j \in DOMAIN reviewPosts' : Review!IsOpinion(j)' <=> reviewPosts'[j].text # 0
    BY <1>5, <1>9, <2>1
  <2>5. \A j \in DOMAIN reviewPosts' :
           /\ reviewPosts'[j].text <= typed'
           /\ reviewPosts'[j].step = "stored" => reviewPosts'[j].text \in Review!ToSet(stored)'
    BY <1>1, <1>5, <1>9, <2>1
  <2>6. \A i, j \in DOMAIN reviewPosts' : Review!Waiting(i)' /\ Review!Waiting(j)' => i = j
    <3> SUFFICES ASSUME NEW i \in DOMAIN reviewPosts', NEW j \in DOMAIN reviewPosts',
                        Review!Waiting(i)', Review!Waiting(j)'
                 PROVE  i = j
      OBVIOUS
    <3>1. PICK g \in DOMAIN reviewPosts, h \in DOMAIN reviewPosts :
             /\ reviewPosts'[i] = reviewPosts[g] /\ reviewPosts'[j] = reviewPosts[h]
             /\ g = h => i = j
      BY <1>7
    <3>2. Review!Waiting(g) /\ Review!Waiting(h)
      BY <1>8, <1>9, <3>1
    <3> QED
      BY <1>a, <3>1, <3>2
  <2> QED
    BY <2>2, <2>3, <2>4, <2>5, <2>6 DEF Review!FormInv
<1>11. Review!OnceInv'
  <2>1. /\ \A i \in DOMAIN stored : stored[i] <= typed
        /\ \A i \in DOMAIN reviewPosts : reviewPosts[i].kind = "opinion" /\ reviewPosts[i].text = text => reviewPosts[i].from = mount
        /\ \A g, h \in DOMAIN reviewPosts :
              reviewPosts[g].kind = "opinion" /\ reviewPosts[g].text = reviewPosts[h].text => g = h
        /\ \A i \in DOMAIN reviewPosts : reviewPosts[i].kind = "opinion" <=> reviewPosts[i].text # 0
    BY <1>0 DEF Review!OnceInv, Review!FormInv, Review!IsOpinion
  <2>2. \A j \in DOMAIN reviewPosts' : Review!IsOpinion(j)' /\ reviewPosts'[j].text = text' => reviewPosts'[j].from = mount'
    <3> SUFFICES ASSUME NEW j \in DOMAIN reviewPosts', Review!IsOpinion(j)', reviewPosts'[j].text = text'
                 PROVE  reviewPosts'[j].from = mount'
      OBVIOUS
    <3>1. PICK i \in DOMAIN reviewPosts : reviewPosts'[j] = reviewPosts[i]
      BY <1>5
    <3>2. reviewPosts[i].kind = "opinion" /\ reviewPosts[i].text # 0
      BY <1>9, <2>1, <3>1
    <3> QED
      BY <1>1, <1>4, <2>1, <3>1, <3>2
  <2>3. \A i, j \in DOMAIN reviewPosts' : Review!IsOpinion(i)' /\ reviewPosts'[i].text = reviewPosts'[j].text => i = j
    <3> SUFFICES ASSUME NEW i \in DOMAIN reviewPosts', NEW j \in DOMAIN reviewPosts',
                        Review!IsOpinion(i)', reviewPosts'[i].text = reviewPosts'[j].text
                 PROVE  i = j
      OBVIOUS
    <3>1. PICK g \in DOMAIN reviewPosts, h \in DOMAIN reviewPosts :
             /\ reviewPosts'[i] = reviewPosts[g] /\ reviewPosts'[j] = reviewPosts[h]
             /\ g = h => i = j
      BY <1>7
    <3> QED
      BY <1>9, <2>1, <3>1
  <2>4. ASSUME "answer lost" \notin reviewMishaps'
        PROVE  /\ \A j \in DOMAIN reviewPosts' : Review!IsOpinion(j)' /\ reviewPosts'[j].step # "stored" =>
                     reviewPosts'[j].text \notin Review!ToSet(stored)'
               /\ text' # 0 /\ text' \in Review!ToSet(stored)' =>
                     \E j \in DOMAIN reviewPosts' :
                        Review!Waiting(j)' /\ reviewPosts'[j].text = text' /\ reviewPosts'[j].step = "stored"
    <3>1. "answer lost" \notin reviewMishaps
      BY <1>3, <2>4
    <3>2. /\ \A i \in DOMAIN reviewPosts : reviewPosts[i].kind = "opinion" /\ reviewPosts[i].step # "stored" =>
                reviewPosts[i].text \notin Review!ToSet(stored)
          /\ text # 0 /\ text \in Review!ToSet(stored) =>
                \E i \in DOMAIN reviewPosts :
                   Review!Waiting(i) /\ reviewPosts[i].text = text /\ reviewPosts[i].step = "stored"
      BY <1>0, <3>1 DEF Review!OnceInv, Review!IsOpinion
    <3>3. \A j \in DOMAIN reviewPosts' : Review!IsOpinion(j)' /\ reviewPosts'[j].step # "stored" =>
             reviewPosts'[j].text \notin Review!ToSet(stored)'
      BY <1>5, <1>9, <3>2
    <3>4. ASSUME text' # 0, text' \in Review!ToSet(stored)'
          PROVE  \E j \in DOMAIN reviewPosts' :
                    Review!Waiting(j)' /\ reviewPosts'[j].text = text' /\ reviewPosts'[j].step = "stored"
      <4>1. text' = text
        BY <1>4, <3>4
      <4>2. PICK i \in DOMAIN reviewPosts :
                    Review!Waiting(i) /\ reviewPosts[i].text = text /\ reviewPosts[i].step = "stored"
        BY <1>9, <3>2, <3>4, <4>1
      <4>3. i # k
        BY <1>4, <3>4, <4>2 DEF post
      <4>4. PICK j \in DOMAIN reviewPosts' : reviewPosts'[j] = reviewPosts[i]
        BY <1>5, <4>3
      <4> QED
        BY <1>8, <1>9, <4>1, <4>2, <4>4
    <3> QED
      BY <3>3, <3>4
  <2>5. \A i \in DOMAIN stored' : stored'[i] <= typed'
    BY <1>1, <2>1
  <2> QED
    BY <2>2, <2>3, <2>4, <2>5 DEF Review!OnceInv
<1>12. Review!OpinionsKept' /\ Review!OpinionsOnce'
  <2>1. reviewMishaps \subseteq reviewMishaps'
    BY <1>3
  <2>2. text' # text => text \in Review!ToSet(stored) \cup given
    <3>1. post.step = "stored" => post.text \in Review!ToSet(stored)
      BY <1>0 DEF Review!FormInv, post
    <3>2. Review!Waiting(k) => text \in {post.text} \cup given
      BY <1>a DEF post
    <3> QED
      BY <1>4, <3>1, <3>2
  <2>3. Review!OpinionsKept'
    BY <1>0, <1>1, <1>9, <2>2 DEF Review!OpinionsKept
  <2>4. Review!OpinionsOnce'
    BY <1>0, <1>1, <2>1 DEF Review!OpinionsOnce
  <2> QED
    BY <2>3, <2>4
<1>13. Review!TypeOK' /\ Review!PlayerHolds'
  <2>1. text' \in 0..typed /\ waits' \subseteq {"opinion", "auto"}
    <3>1. text' = text \/ text' = 0
      BY <1>4
    <3> QED
      BY <1>0, <1>4, <3>1
  <2>2. reviewLoads' \in Seq(Review!Load)
    <3>1. [served |-> FALSE, answer |-> detail] \in Review!Load
      BY <1>0 DEF Review!Load
    <3>2. Append(reviewLoads, [served |-> FALSE, answer |-> detail]) \in Seq(Review!Load)
      BY <1>0, <3>1, Longer
    <3> QED
      BY <1>0, <1>3, <3>2
  <2> QED
    BY <1>0, <1>1, <1>5, <2>1, <2>2 DEF Review!TypeOK, Review!PlayerHolds, Review!Count
<1>14. Review!LoadInv'
  <2>1. /\ detail.evaluations <= Len(stored)
        /\ \A j \in DOMAIN reviewLoads : reviewLoads[j].answer.evaluations <= Len(stored)
        /\ reviewMishaps \subseteq {"refused"} =>
              /\ Len(reviewLoads) <= 1
              /\ \A j \in DOMAIN reviewLoads : reviewLoads[j].served => detail.evaluations <= reviewLoads[j].answer.evaluations
              /\ \A i \in DOMAIN stored : stored[i] >= 0 =>
                    \/ i <= detail.evaluations
                    \/ \E j \in DOMAIN reviewPosts : reviewPosts[j].step = "stored"
                    \/ \E j \in DOMAIN reviewLoads : reviewLoads[j].served => i <= reviewLoads[j].answer.evaluations
    BY <1>0 DEF Review!LoadInv
  <2>2. CASE post.step # "stored" /\ UNCHANGED <<reviewLoads, reviewMishaps>>
    <3>1. (\E j \in DOMAIN reviewPosts : reviewPosts[j].step = "stored")
             => \E j \in DOMAIN reviewPosts' : reviewPosts'[j].step = "stored"
      BY <1>5, <2>2 DEF post
    <3> QED
      BY <1>1, <2>1, <2>2, <3>1 DEF Review!LoadInv
  <2>3. CASE /\ reviewLoads' = Append(reviewLoads, [served |-> FALSE, answer |-> detail])
             /\ reviewMishaps' = IF reviewLoads = <<>> THEN reviewMishaps ELSE reviewMishaps \cup {"loads overlap"}
    <3> DEFINE new == [served |-> FALSE, answer |-> detail]
    <3>1. new \in Review!Load /\ ~new.served /\ new.answer = detail
      BY <1>0 DEF Review!Load
    <3>2. reviewLoads' = Append(reviewLoads, new)
      BY <2>3
    <3> HIDE DEF new
    <3>3. /\ Len(reviewLoads') = Len(reviewLoads) + 1
          /\ Len(reviewLoads) + 1 \in DOMAIN reviewLoads' /\ reviewLoads'[Len(reviewLoads) + 1] = new
          /\ \A j \in DOMAIN reviewLoads' : (j \in DOMAIN reviewLoads /\ reviewLoads'[j] = reviewLoads[j]) \/ reviewLoads'[j] = new
      BY <1>0, <3>1, <3>2, Longer
    <3>4. \A j \in DOMAIN reviewLoads' : reviewLoads'[j].answer.evaluations <= Len(stored)
      BY <2>1, <3>1, <3>3
    <3>5. ASSUME reviewMishaps' \subseteq {"refused"}
          PROVE  /\ Len(reviewLoads') <= 1 /\ \A j \in DOMAIN reviewLoads' : ~reviewLoads'[j].served
                 /\ \E j \in DOMAIN reviewLoads' : ~reviewLoads'[j].served
      <4>1. reviewLoads = <<>>
        BY <2>3, <3>5
      <4>2. Len(reviewLoads) = 0 /\ DOMAIN reviewLoads = {}
        BY <4>1
      <4> QED
        BY <3>1, <3>3, <4>2
    <3> QED
      BY <1>1, <2>1, <3>4, <3>5 DEF Review!LoadInv
  <2> QED
    BY <1>3, <2>2, <2>3
<1> QED
  BY <1>10, <1>11, <1>12, <1>13, <1>14 DEF Review!ReviewInv

LEMMA ReviewStep == Review!ReviewInv /\ [Review!Next]_reviewVars => Review!ReviewInv'
<1> SUFFICES ASSUME Review!ReviewInv, [Review!Next]_reviewVars PROVE Review!ReviewInv'
  OBVIOUS
<1>1. CASE Review!Next
  BY <1>1, OtherSteps, LookSteps, LoadSteps, FormSteps, ServeSteps, AnswerStep DEF Review!Next
<1> QED
  BY <1>1, ReviewStutters

LEMMA ReviewMoves ==
    [PagesNext]_pagesVars /\ part' = "review" => part = "review" /\ [Review!Next]_reviewVars
BY DEF PagesNext, pagesVars, reviewVars

\* However the tabs, the loads, the answers and other evaluators interleave
\* (review/attempts/[id]/page.tsx): no opinion typed is lost unless it was given up, none is
\* stored twice unless an answer was lost, every evaluation asked for is shown at rest, and
\* the player stays at a snapshot there is.
THEOREM OpinionsStand == PagesSpec => []ReviewSound
<1> DEFINE Inv == part = "review" => Review!ReviewInv
<1>1. PagesInit => Inv
  BY ReviewInit DEF PagesInit
<1>2. Inv /\ [PagesNext]_pagesVars => Inv'
  BY ReviewMoves, ReviewStep
<1>3. Inv => ReviewSound
  <2>1. Review!ReviewInv => Review!ShownIsStored
    <3> SUFFICES ASSUME Review!ReviewInv, reviewPosts = <<>>, reviewLoads = <<>>, reviewMishaps \subseteq {"refused"},
                        NEW i \in DOMAIN stored, stored[i] >= 0
                 PROVE  i <= detail.evaluations
      BY DEF Review!ShownIsStored
    <3>1. DOMAIN reviewPosts = {} /\ DOMAIN reviewLoads = {}
      OBVIOUS
    <3> QED
      BY <3>1 DEF Review!ReviewInv, Review!LoadInv
  <2> QED
    BY <2>1 DEF ReviewSound, Review!ReviewSound, Review!ReviewInv
<1> QED
  BY <1>1, <1>2, <1>3, PTL DEF PagesSpec
----------------------------------------------------------------------------
(* An assessment *)

LEMMA FormInit == Assessment!Init => Assessment!FormInv
<1> SUFFICES ASSUME Assessment!Init PROVE Assessment!FormInv
  OBVIOUS
<1>1. PICK p \in Problems : problems = <<[id |-> p, points |-> 100]>>
  BY DEF Assessment!Init
<1>2. problems \in Seq(Assessment!Entries) /\ DOMAIN problems = {1}
  <2>1. [id |-> p, points |-> 100] \in Assessment!Entries
    BY DEF Assessment!Entries
  <2> QED
    BY <1>1, <2>1
<1>3. Assessment!Distinct(problems)
  BY <1>2 DEF Assessment!Distinct
<1>4. form = <<>> /\ form \in Seq(Assessment!Entries) /\ Assessment!Distinct(form)
  BY DEF Assessment!Init, Assessment!Distinct
<1>5. /\ live = Problems /\ chosen = {} /\ page = "away"
      /\ people \in [Users -> {"candidate", "staff", "gone"}]
      /\ assigned \in [Users -> {None, 0}] /\ since = assigned /\ candidates = None
  BY DEF Assessment!Init
<1> QED
  BY <1>2, <1>3, <1>4, <1>5 DEF Assessment!FormInv, Assessment!AssignmentsStay

\* A list that has one entry less, or one more that it did not have.
LEMMA TakenOut ==
    ASSUME NEW ps \in Seq(Assessment!Entries), Assessment!Distinct(ps), NEW K
    PROVE  /\ Assessment!Kept(ps, K) \in Seq(Assessment!Entries)
           /\ Assessment!Distinct(Assessment!Kept(ps, K))
           /\ Assessment!Ids(Assessment!Kept(ps, K)) \subseteq Assessment!Ids(ps)
<1> DEFINE t == Assessment!Kept(ps, K)
<1>1. t = Kept(ps, K)
  BY DEF Assessment!Kept, Kept
<1>2. t \in Seq(Assessment!Entries) /\ \E h : Picks(t, ps, K, Len(ps), h)
  BY <1>1, KeptPicks
<1> HIDE DEF t
<1>3. PICK h : Picks(t, ps, K, Len(ps), h)
  BY <1>2
<1>4. /\ DOMAIN t = 1..Len(t) /\ Len(t) \in Nat /\ DOMAIN ps = 1..Len(ps)
      /\ \A j \in DOMAIN t : h[j] \in DOMAIN ps /\ h[j] \in Nat /\ t[j] = ps[h[j]]
      /\ \A i, j \in DOMAIN t : i < j => h[i] < h[j]
  BY <1>2, <1>3 DEF Picks
<1>5. Assessment!Distinct(t)
  <2> SUFFICES ASSUME NEW i \in DOMAIN t, NEW j \in DOMAIN t, t[i].id = t[j].id PROVE i = j
    BY DEF Assessment!Distinct
  <2>1. h[i] = h[j]
    BY <1>4 DEF Assessment!Distinct
  <2>2. i \in Nat /\ j \in Nat /\ ~(i < j) /\ ~(j < i)
    BY <1>4, <2>1
  <2> QED
    BY <2>2
<1>6. Assessment!Ids(t) \subseteq Assessment!Ids(ps)
  BY <1>4 DEF Assessment!Ids
<1> QED
  BY <1>2, <1>5, <1>6 DEF t

LEMMA PutIn ==
    ASSUME NEW ps \in Seq(Assessment!Entries), Assessment!Distinct(ps),
           NEW x \in Assessment!Entries, x.id \notin Assessment!Ids(ps)
    PROVE  /\ Append(ps, x) \in Seq(Assessment!Entries) /\ Assessment!Distinct(Append(ps, x))
           /\ Assessment!Ids(Append(ps, x)) \subseteq Assessment!Ids(ps) \cup {x.id}
<1> DEFINE t == Append(ps, x)
<1>1. /\ t \in Seq(Assessment!Entries) /\ DOMAIN t = 1..(Len(ps) + 1)
      /\ t[Len(ps) + 1] = x /\ \A i \in 1..Len(ps) : t[i] = ps[i]
      /\ DOMAIN ps = 1..Len(ps) /\ Len(ps) \in Nat
  OBVIOUS
<1>2. \A i \in 1..Len(ps) : ps[i].id # x.id
  BY <1>1 DEF Assessment!Ids
<1> HIDE DEF t
<1>3. \A i \in DOMAIN t : i \in 1..Len(ps) \/ i = Len(ps) + 1
  BY <1>1
<1>4. Assessment!Distinct(t)
  BY <1>1, <1>2, <1>3 DEF Assessment!Distinct
<1>5. Assessment!Ids(t) \subseteq Assessment!Ids(ps) \cup {x.id}
  BY <1>1, <1>3 DEF Assessment!Ids
<1> QED
  BY <1>1, <1>4, <1>5 DEF t

LEMMA toggleProblemHolds ==
    ASSUME Assessment!FormInv, NEW p \in Problems, Assessment!toggleProblem(p)
    PROVE  Assessment!FormInv'
<1> DEFINE K == {i \in DOMAIN form : form[i].id # p}
           x == [id |-> p, points |-> 100]
<1>1. /\ offered # None /\ p \in offered /\ page = "open"
      /\ form' = IF p \in Assessment!Ids(form) THEN Assessment!Kept(form, K) ELSE Append(form, x)
      /\ UNCHANGED <<live, people, problems, assigned, page, chosen, offered, candidates, since, strangers>>
  BY DEF Assessment!toggleProblem, Assessment!Change, Assessment!store, Assessment!lists
<1>2. x \in Assessment!Entries /\ x.id = p
  BY DEF Assessment!Entries
<1>3. form \in Seq(Assessment!Entries) /\ Assessment!Distinct(form)
  BY DEF Assessment!FormInv
<1> HIDE DEF K, x
<1>4. /\ form' \in Seq(Assessment!Entries) /\ Assessment!Distinct(form')
      /\ Assessment!Ids(form') \subseteq Assessment!Ids(form) \cup {p}
  <2>1. CASE p \in Assessment!Ids(form)
    BY <1>1, <1>3, <2>1, TakenOut
  <2>2. CASE p \notin Assessment!Ids(form)
    BY <1>1, <1>2, <1>3, <2>2, PutIn
  <2> QED
    BY <2>1, <2>2
<1>5. Assessment!Ids(form)' = Assessment!Ids(form') /\ Assessment!Ids(problems)' = Assessment!Ids(problems)
  BY <1>1 DEF Assessment!Ids
<1> QED
  BY <1>1, <1>4, <1>5 DEF Assessment!FormInv, Assessment!AssignmentsStay, Assessment!Distinct

LEMMA setPointsHolds ==
    ASSUME Assessment!FormInv, NEW p \in Problems, Assessment!setPoints(p)
    PROVE  Assessment!FormInv'
<1>1. /\ form' = [i \in DOMAIN form |-> IF form[i].id = p THEN [form[i] EXCEPT !.points = 50] ELSE form[i]]
      /\ UNCHANGED <<live, people, problems, assigned, page, chosen, offered, candidates, since, strangers>>
  BY DEF Assessment!setPoints, Assessment!Change, Assessment!store, Assessment!lists
<1>2. form \in Seq(Assessment!Entries) /\ DOMAIN form = 1..Len(form) /\ Len(form) \in Nat
  BY DEF Assessment!FormInv
<1>3. ASSUME NEW i \in DOMAIN form
      PROVE  form'[i] \in Assessment!Entries /\ form'[i].id = form[i].id
  <2>1. form[i] \in Assessment!Entries
    BY <1>2
  <2>2. CASE form[i].id = p
    <3>1. form'[i] = [form[i] EXCEPT !.points = 50]
      BY <1>1, <2>2
    <3> QED
      BY <2>1, <3>1 DEF Assessment!Entries
  <2>3. CASE form[i].id # p
    BY <1>1, <2>1, <2>3
  <2> QED
    BY <2>2, <2>3
<1>4. form' \in Seq(Assessment!Entries) /\ DOMAIN form' = DOMAIN form
  BY <1>1, <1>2, <1>3
<1>5. Assessment!Ids(form)' = Assessment!Ids(form) /\ Assessment!Ids(problems)' = Assessment!Ids(problems)
  BY <1>1, <1>3, <1>4 DEF Assessment!Ids
<1>6. Assessment!Distinct(form)'
  BY <1>3, <1>4 DEF Assessment!FormInv, Assessment!Distinct
<1> QED
  BY <1>1, <1>4, <1>5, <1>6 DEF Assessment!FormInv, Assessment!AssignmentsStay, Assessment!Distinct

\* All of the form is stored, or nothing.
LEMMA updateHolds ==
    ASSUME Assessment!FormInv, Assessment!update_assessment
    PROVE  Assessment!FormInv'
<1>1. /\ page = "saving"
      /\ UNCHANGED <<live, people, form, chosen, offered, candidates, strangers>>
      /\ Assessment!AssignmentsStay /\ DOMAIN assigned = Users
  BY DEF Assessment!update_assessment, Assessment!inputs, Assessment!lists, Assessment!FormInv
<1>2. CASE UNCHANGED <<problems, assigned, since>>
  BY <1>1, <1>2 DEF Assessment!FormInv, Assessment!AssignmentsStay, Assessment!Distinct, Assessment!Ids
<1>3. CASE /\ problems' = form
           /\ assigned' = [u \in Users |-> IF Assessment!Stays(u) THEN assigned[u]
                                           ELSE IF u \in chosen THEN visits ELSE None]
           /\ since' = [u \in Users |-> IF assigned'[u] = None THEN None
                                        ELSE IF assigned[u] = None THEN visits ELSE since[u]]
  <2>1. ASSUME NEW u \in Users PROVE assigned'[u] = since'[u]
    BY <1>1, <1>3 DEF Assessment!Stays, Assessment!AssignmentsStay
  <2>2. assigned' = since' /\ DOMAIN assigned' = Users
    BY <1>3, <2>1
  <2>3. Assessment!Ids(problems)' = Assessment!Ids(form) /\ Assessment!Ids(form)' = Assessment!Ids(form)
    BY <1>1, <1>3 DEF Assessment!Ids
  <2> QED
    BY <1>1, <1>3, <2>2, <2>3 DEF Assessment!FormInv, Assessment!AssignmentsStay, Assessment!Distinct
<1> QED
  BY <1>2, <1>3 DEF Assessment!update_assessment

LEMMA OthersHold ==
    ASSUME Assessment!FormInv,
           \/ \E p \in Problems : Assessment!archiveProblem(p)
           \/ \E u \in Users : Assessment!deleteUser(u) \/ Assessment!changeRole(u)
    PROVE  Assessment!FormInv'
<1>1. UNCHANGED <<problems, page, form, chosen, offered, candidates, strangers>>
  BY DEF Assessment!archiveProblem, Assessment!deleteUser, Assessment!changeRole, Assessment!inputs, Assessment!lists
<1>2. Assessment!Ids(form)' = Assessment!Ids(form) /\ Assessment!Ids(problems)' = Assessment!Ids(problems)
  BY <1>1 DEF Assessment!Ids
<1>3. /\ live' \in SUBSET Problems /\ people' \in [Users -> {"candidate", "staff", "gone"}]
      /\ assigned' = since' /\ DOMAIN assigned' = Users
  BY DEF Assessment!archiveProblem, Assessment!deleteUser, Assessment!changeRole, Assessment!FormInv,
         Assessment!AssignmentsStay
<1> QED
  BY <1>1, <1>2, <1>3 DEF Assessment!FormInv, Assessment!AssignmentsStay, Assessment!Distinct

LEMMA PageHolds ==
    ASSUME Assessment!FormInv,
           \/ Assessment!Open \/ Assessment!ProblemsArrive \/ Assessment!CandidatesArrive
           \/ Assessment!setTitle \/ \E u \in Users : Assessment!toggleAssignee(u)
           \/ Assessment!save \/ Assessment!SaveFails \/ Assessment!Leave
           \/ UNCHANGED formVars
    PROVE  Assessment!FormInv'
<1>1. UNCHANGED <<live, people, problems, assigned, since>> /\ form' \in {form, problems}
  BY DEF Assessment!Open, Assessment!ProblemsArrive, Assessment!CandidatesArrive, Assessment!setTitle,
         Assessment!toggleAssignee, Assessment!save, Assessment!SaveFails, Assessment!Leave, Assessment!Change,
         Assessment!store, Assessment!inputs, Assessment!lists, formVars
<1>2. chosen' \in SUBSET Users
  BY DEF Assessment!Open, Assessment!ProblemsArrive, Assessment!CandidatesArrive, Assessment!setTitle,
         Assessment!toggleAssignee, Assessment!save, Assessment!SaveFails, Assessment!Leave, Assessment!Change,
         Assessment!store, Assessment!inputs, Assessment!lists, formVars, Assessment!FormInv
<1>3. Assessment!Ids(problems)' = Assessment!Ids(problems)
  BY <1>1 DEF Assessment!Ids
<1>4. page' # "away" =>
        (Assessment!Ids(form) \subseteq Assessment!Ids(problems) \cup (IF offered = None THEN {} ELSE offered))'
  <2>1. CASE Assessment!Open
    BY <2>1 DEF Assessment!Open, Assessment!Ids, Assessment!store
  <2>2. CASE Assessment!ProblemsArrive
    <3>1. form' = form /\ offered = None /\ page = "open"
      BY <2>2 DEF Assessment!ProblemsArrive, Assessment!inputs
    <3>2. Assessment!Ids(form)' = Assessment!Ids(form)
      BY <3>1 DEF Assessment!Ids
    <3> QED
      BY <1>3, <3>1, <3>2 DEF Assessment!FormInv
  <2>3. CASE ~Assessment!Open /\ ~Assessment!ProblemsArrive
    <3>1. form' = form /\ offered' = offered /\ (page' # "away" => page # "away")
      BY <2>3 DEF Assessment!CandidatesArrive, Assessment!setTitle, Assessment!toggleAssignee, Assessment!save,
             Assessment!SaveFails, Assessment!Leave, Assessment!Change, Assessment!inputs, Assessment!lists, formVars
    <3>2. Assessment!Ids(form)' = Assessment!Ids(form)
      BY <3>1 DEF Assessment!Ids
    <3> QED
      BY <1>3, <3>1, <3>2 DEF Assessment!FormInv
  <2> QED
    BY <2>1, <2>2, <2>3
<1>5. candidates' # None => chosen' \subseteq candidates' \cup strangers'
  <2>1. CASE Assessment!Open
    BY <2>1 DEF Assessment!Open
  <2>2. CASE Assessment!CandidatesArrive
    BY <2>2 DEF Assessment!CandidatesArrive, Assessment!inputs
  <2>3. CASE \E u \in Users : Assessment!toggleAssignee(u)
    BY <2>3 DEF Assessment!toggleAssignee, Assessment!lists, Assessment!FormInv
  <2>4. CASE ~Assessment!Open /\ ~Assessment!CandidatesArrive /\ ~\E u \in Users : Assessment!toggleAssignee(u)
    <3>1. UNCHANGED <<chosen, candidates, strangers>>
      BY <2>4 DEF Assessment!ProblemsArrive, Assessment!setTitle,
             Assessment!SaveFails, Assessment!save, Assessment!Leave, Assessment!inputs, Assessment!lists, formVars
    <3> QED
      BY <3>1 DEF Assessment!FormInv
  <2> QED
    BY <2>1, <2>2, <2>3, <2>4
<1> QED
  BY <1>1, <1>2, <1>4, <1>5 DEF Assessment!FormInv, Assessment!AssignmentsStay, Assessment!Distinct

LEMMA FormStep == Assessment!FormInv /\ [Assessment!Next]_formVars => Assessment!FormInv'
BY toggleProblemHolds, setPointsHolds, updateHolds, OthersHold, PageHolds DEF Assessment!Next

LEMMA FormShows == Assessment!FormInv => Assessment!FormSound
<1> SUFFICES ASSUME Assessment!FormInv PROVE Assessment!FormSound
  OBVIOUS
<1>1. Assessment!AssignmentsStay
  BY DEF Assessment!FormInv
<1>2. Assessment!SaveCanSucceed
  <2> SUFFICES ASSUME page = "open", offered # None, candidates # None, NEW x \in Assessment!Blocked
               PROVE  IF x \in Problems THEN x \in Assessment!Ids(problems) ELSE x \in strangers
    BY DEF Assessment!SaveCanSucceed
  <2>1. x \in Assessment!Unknown /\ x \notin offered /\ x \notin candidates
    BY DEF Assessment!Blocked
  <2>2. CASE x \in Assessment!Ids(form) /\ x \notin live
    <3>1. x \in Problems
      <4>1. form \in Seq(Assessment!Entries)
        BY DEF Assessment!FormInv
      <4>2. PICK i \in DOMAIN form : x = form[i].id
        BY <2>2 DEF Assessment!Ids
      <4>3. form[i] \in Assessment!Entries
        BY <4>1, <4>2
      <4> QED
        BY <4>2, <4>3 DEF Assessment!Entries
    <3> QED
      BY <2>1, <2>2, <3>1 DEF Assessment!FormInv
  <2>3. CASE x \in chosen
    <3>1. x \notin Problems
      BY <2>3, FormAssumption DEF Assessment!FormInv
    <3> QED
      BY <2>1, <2>3, <3>1 DEF Assessment!FormInv
  <2> QED
    BY <2>1, <2>2, <2>3 DEF Assessment!Unknown
<1>3. Assessment!ProblemsDistinct
  <2>1. /\ problems \in Seq(Assessment!Entries) /\ DOMAIN problems = 1..Len(problems) /\ Len(problems) \in Nat
        /\ Assessment!Distinct(problems)
    BY DEF Assessment!FormInv
  <2> DEFINE f == [i \in 1..Len(problems) |-> problems[i].id]
  <2>2. \A i, j \in 1..Len(problems) : f[i] = f[j] => i = j
    BY <2>1 DEF Assessment!Distinct
  <2>3. f \in [1..Len(problems) -> Assessment!Ids(problems)]
    BY <2>1 DEF Assessment!Ids
  <2>4. \A x \in Assessment!Ids(problems) : \E i \in 1..Len(problems) : f[i] = x
    BY <2>1 DEF Assessment!Ids
  <2> HIDE DEF f
  <2>5. Cardinality(Assessment!Ids(problems)) = Len(problems)
    BY <2>1, <2>2, <2>3, <2>4, Counted
  <2>6. Assessment!Cardinality(Assessment!Ids(problems)) = Cardinality(Assessment!Ids(problems))
    BY DEF Assessment!Cardinality, Cardinality
  <2> QED
    BY <2>5, <2>6 DEF Assessment!ProblemsDistinct
<1> QED
  BY <1>1, <1>2, <1>3 DEF Assessment!FormSound

LEMMA FormMoves ==
    [PagesNext]_pagesVars /\ part' = "assessment" => part = "assessment" /\ [Assessment!Next]_formVars
BY DEF PagesNext, pagesVars, formVars

\* Saving an assessment leaves the assignments that stay alone (routers/assessments.py), and
\* what makes a save fail can be taken out of the form (AssessmentForm.tsx), whatever is
\* archived, deleted and promoted meanwhile.  Except a problem archived while the assessment
\* had it, and a user who was no candidate any more when the list of them was loaded, and was
\* deleted; for any number of problems and users, forms and visits.
THEOREM SavesKeepAssignments == PagesSpec => []FormSound
<1> DEFINE Inv == part = "assessment" => Assessment!FormInv
<1>1. PagesInit => Inv
  BY FormInit DEF PagesInit
<1>2. Inv /\ [PagesNext]_pagesVars => Inv'
  BY FormMoves, FormStep
<1>3. Inv => FormSound
  BY FormShows DEF FormSound
<1> QED
  BY <1>1, <1>2, <1>3, PTL DEF PagesSpec

----------------------------------------------------------------------------
(* The reference files of a problem *)

\* A file is recognized by its path.
LEMMA PathNumber ==
    ASSUME NEW m, NEW n, Reference!Auto(m) = Reference!Auto(n)
    PROVE  m = n
<1>1. Reference!Auto(m)[2] = m /\ Reference!Auto(n)[2] = n
  BY DEF Reference!Auto
<1> QED
  BY <1>1

LEMMA NameNumber ==
    ASSUME NEW S, NEW name \in Seq(S), NEW m \in S, NEW n \in S, Append(name, m) = Append(name, n)
    PROVE  m = n
<1>1. Append(name, m)[Len(name) + 1] = m /\ Append(name, n)[Len(name) + 1] = n
  OBVIOUS
<1> QED
  BY <1>1

\* Of more numbers than there are paths one is free, and the least of them is found.
LEMMA SomeFree ==
    ASSUME NEW taken, IsFiniteSet(taken), NEW a \in Nat, NEW b \in Nat, Cardinality(taken) < b - a + 1,
           NEW f, DOMAIN f = a..b, \A i, j \in a..b : f[i] = f[j] => i = j
    PROVE  \E i \in a..b : f[i] \notin taken
<1> SUFFICES ASSUME \A i \in a..b : f[i] \in taken PROVE FALSE
  OBVIOUS
<1> DEFINE g == [i \in a..b |-> f[i]]
<1>1. g \in [a..b -> taken] /\ \A i, j \in a..b : g[i] = g[j] => i = j
  OBVIOUS
<1>2. IsFiniteSet(a..b) /\ Cardinality(a..b) = IF a > b THEN 0 ELSE b - a + 1
  BY FS_Interval
<1>3. Cardinality(taken) \in Nat
  BY FS_CardinalityType
<1>4. Cardinality(taken) < Cardinality(a..b)
  BY <1>2, <1>3
<1> HIDE DEF g
<1>5. \E i, j \in a..b : i # j /\ g[i] = g[j]
  BY <1>1, <1>2, <1>4, FS_PigeonHole
<1> QED
  BY <1>1, <1>5

LEMMA LeastIn ==
    ASSUME NEW T \in SUBSET Nat, T # {}
    PROVE  Reference!Min(T) \in T
<1>1. \E x \in T : \A y \in T : x <= y
  BY Least
<1> QED
  BY <1>1 DEF Reference!Min

LEMMA PathsCounted ==
    ASSUME NEW fs \in Seq(Reference!File)
    PROVE  IsFiniteSet(Reference!Paths(fs)) /\ Cardinality(Reference!Paths(fs)) \in Nat
           /\ Cardinality(Reference!Paths(fs)) <= Len(fs)
<1> DEFINE f == [i \in 1..Len(fs) |-> fs[i].path]
<1>1. DOMAIN fs = 1..Len(fs) /\ Len(fs) \in Nat
  OBVIOUS
<1>2. f \in Surjection(1..Len(fs), Reference!Paths(fs))
  BY <1>1 DEF Surjection, Reference!Paths
<1> HIDE DEF f
<1>3. IsFiniteSet(1..Len(fs)) /\ Cardinality(1..Len(fs)) = Len(fs)
  BY <1>1, FS_Interval
<1>4. IsFiniteSet(Reference!Paths(fs)) /\ Cardinality(Reference!Paths(fs)) <= Cardinality(1..Len(fs))
  BY <1>2, <1>3, FS_Surjection
<1> QED
  BY <1>3, <1>4, FS_CardinalityType

LEMMA NewNumber ==
    ASSUME files \in Seq(Reference!File)
    PROVE  Reference!FreeNumber \in Nat /\ Reference!Auto(Reference!FreeNumber) \notin Reference!Paths(files)
<1> DEFINE a == Len(files) + 1
           b == 2 * Len(files) + 1
           f == [i \in a..b |-> Reference!Auto(i)]
           T == {n \in a..b : Reference!Auto(n) \notin Reference!Paths(files)}
<1>1. Len(files) \in Nat /\ a \in Nat /\ b \in Nat /\ b - a + 1 = Len(files) + 1
  OBVIOUS
<1>2. IsFiniteSet(Reference!Paths(files)) /\ Cardinality(Reference!Paths(files)) < b - a + 1
  BY <1>1, PathsCounted
<1>3. DOMAIN f = a..b /\ \A i, j \in a..b : f[i] = f[j] => i = j
  BY PathNumber
<1>4. \A i \in a..b : f[i] = Reference!Auto(i) /\ i \in Nat
  BY <1>1
<1>5. \E i \in a..b : f[i] \notin Reference!Paths(files)
  <2> HIDE DEF f, a, b
  <2> QED
    BY <1>1, <1>2, <1>3, SomeFree
<1>6. T # {} /\ T \in SUBSET Nat
  BY <1>4, <1>5
<1>7. Reference!FreeNumber = Reference!Min(T)
  BY DEF Reference!FreeNumber
<1>8. Reference!Min(T) \in T
  <2> HIDE DEF T
  <2> QED
    BY <1>6, LeastIn
<1> QED
  BY <1>1, <1>7, <1>8

LEMMA NewName ==
    ASSUME NEW name \in Seq({"auto", "upload"} \cup Nat), NEW taken, IsFiniteSet(taken)
    PROVE  /\ Reference!FreeName(name, taken) \in Seq({"auto", "upload"} \cup Nat)
           /\ Reference!FreeName(name, taken) \notin taken
<1> DEFINE b == Cardinality(taken) + 1
           f == [i \in 1..b |-> Append(name, i)]
           T == {i \in 1..(Reference!Cardinality(taken) + 1) : Append(name, i) \notin taken}
<1>1. Cardinality(taken) \in Nat /\ b \in Nat /\ Cardinality(taken) < b - 1 + 1
  BY FS_CardinalityType
<1>2. Reference!Cardinality(taken) = Cardinality(taken)
  BY DEF Reference!Cardinality, Cardinality
<1>3. DOMAIN f = 1..b /\ \A i, j \in 1..b : f[i] = f[j] => i = j
  BY NameNumber
<1>4. \A i \in 1..b : f[i] = Append(name, i) /\ i \in Nat
  BY <1>1
<1>5. \E i \in 1..b : f[i] \notin taken
  <2> HIDE DEF f, b
  <2> QED
    BY <1>1, <1>3, SomeFree
<1>6. T # {} /\ T \in SUBSET Nat
  BY <1>1, <1>2, <1>4, <1>5
<1>7. Reference!Min(T) \in T
  <2> HIDE DEF T
  <2> QED
    BY <1>6, LeastIn
<1>8. Reference!FreeName(name, taken) = IF name \notin taken THEN name ELSE Append(name, Reference!Min(T))
  BY DEF Reference!FreeName
<1>9. Reference!Min(T) \in Nat /\ Append(name, Reference!Min(T)) \notin taken
  BY <1>6, <1>7
<1> HIDE DEF T
<1> QED
  BY <1>8, <1>9

----------------------------------------------------------------------------
(* What is done to the files *)

LEMMA FilesInit == Reference!Init => Reference!FilesInv
<1> SUFFICES ASSUME Reference!Init PROVE Reference!FilesInv
  OBVIOUS
<1>1. files \in Seq(Reference!File) /\ \A i, j \in DOMAIN files : i = j
  <2>1. Reference!Auto(1) \in Seq({"auto", "upload"} \cup Nat)
    BY DEF Reference!Auto
  <2>2. [path |-> Reference!Auto(1), content |-> 0] \in Reference!File
    BY <2>1 DEF Reference!File
  <2>3. CASE files = <<>>
    BY <2>3
  <2>4. CASE files = <<[path |-> Reference!Auto(1), content |-> 0]>>
    <3>1. files \in Seq(Reference!File) /\ DOMAIN files = {1}
      BY <2>2, <2>4
    <3> QED
      BY <3>1
  <2> QED
    BY <2>3, <2>4 DEF Reference!Init
<1>2. Reference!Distinct(files)
  BY <1>1 DEF Reference!Distinct
<1>3. /\ fileChanges = 0 /\ reading = {} /\ mine = {} /\ fileMishaps = {} /\ mounted = TRUE
      /\ selected = Reference!FirstPath(files)
  BY DEF Reference!Init
<1>4. Reference!FilesKept
  BY <1>3 DEF Reference!FilesKept
<1>5. Reference!SomethingSelected
  <2> SUFFICES ASSUME files # <<>> PROVE Reference!Editing
    BY DEF Reference!SomethingSelected
  <2>1. 1 \in DOMAIN files /\ selected = files[1].path
    BY <1>1, <1>3 DEF Reference!FirstPath
  <2> QED
    BY <1>3, <2>1 DEF Reference!Editing, Reference!Current
<1> QED
  BY <1>1, <1>2, <1>3, <1>4, <1>5 DEF Reference!FilesInv

\* The file that is edited is the one with the selected path.
LEMMA EditedIs ==
    ASSUME files \in Seq(Reference!File), Reference!Editing
    PROVE  \E e \in DOMAIN files : Reference!Edited = files[e] /\ files[e].path = selected
<1>1. Reference!Current # {} /\ Reference!Current \in SUBSET Nat
  BY DEF Reference!Editing, Reference!Current
<1>2. Reference!Min(Reference!Current) \in Reference!Current
  BY <1>1, LeastIn
<1> QED
  BY <1>2 DEF Reference!Edited, Reference!Current

\* One of the files has the selected path.
LEMMA Selects ==
    ASSUME NEW i \in DOMAIN files', files'[i].path = selected'
    PROVE  Reference!SomethingSelected'
BY DEF Reference!SomethingSelected, Reference!Editing, Reference!Current

LEMMA updateFileHolds ==
    ASSUME Reference!FilesInv, Reference!update(fileChanges + 1)
    PROVE  Reference!FilesInv'
<1> DEFINE c == fileChanges + 1
<1>1. /\ Reference!Editing /\ fileChanges' = c
      /\ files' = [i \in DOMAIN files |-> IF files[i].path = selected THEN [files[i] EXCEPT !.content = c] ELSE files[i]]
      /\ mine' = (mine \ {Reference!Edited.content}) \cup {c}
      /\ UNCHANGED <<selected, mounted, reading, fileMishaps>>
  BY DEF Reference!update, Reference!Change
<1>2. files \in Seq(Reference!File) /\ DOMAIN files = 1..Len(files) /\ Len(files) \in Nat /\ c \in Nat
  BY DEF Reference!FilesInv
<1> HIDE DEF c
<1>3. ASSUME NEW i \in DOMAIN files
      PROVE  /\ files'[i] \in Reference!File /\ files'[i].path = files[i].path
             /\ files'[i].content = IF files[i].path = selected THEN c ELSE files[i].content
  <2>1. files[i] \in Reference!File
    BY <1>2
  <2>2. CASE files[i].path = selected
    <3>1. files'[i] = [files[i] EXCEPT !.content = c]
      BY <1>1, <2>2
    <3> QED
      BY <1>2, <2>1, <2>2, <3>1 DEF Reference!File
  <2>3. CASE files[i].path # selected
    BY <1>1, <2>1, <2>3
  <2> QED
    BY <2>2, <2>3
<1>4. files' \in Seq(Reference!File) /\ DOMAIN files' = DOMAIN files
  BY <1>1, <1>2, <1>3
<1>5. PICK e \in DOMAIN files : Reference!Edited = files[e] /\ files[e].path = selected
  BY <1>1, <1>2, EditedIs
<1>6. "clash" \notin fileMishaps => Reference!Distinct(files) /\ Reference!Distinct(files')
  BY <1>3, <1>4 DEF Reference!FilesInv, Reference!Distinct
<1>7. Reference!FilesKept'
  <2> SUFFICES ASSUME fileMishaps \cap {"clash", "overtaken"} = {}, NEW v \in mine' PROVE v \in Reference!Contents(files')
    BY <1>1 DEF Reference!FilesKept, Reference!Contents
  <2>1. CASE v = c
    BY <1>3, <1>4, <1>5, <2>1 DEF Reference!Contents
  <2>2. CASE v # c
    <3>1. v \in mine /\ v # files[e].content
      BY <1>1, <1>5, <2>2
    <3>2. PICK i \in DOMAIN files : files[i].content = v
      BY <3>1 DEF Reference!FilesInv, Reference!FilesKept, Reference!Contents
    <3>3. files[i].path # selected
      BY <1>5, <1>6, <3>1, <3>2 DEF Reference!Distinct
    <3> QED
      BY <1>3, <1>4, <3>2, <3>3 DEF Reference!Contents
  <2> QED
    BY <2>1, <2>2
<1>8. Reference!SomethingSelected'
  BY <1>1, <1>3, <1>4, <1>5, Selects
<1> QED
  BY <1>1, <1>2, <1>4, <1>6, <1>7, <1>8 DEF Reference!FilesInv

LEMMA renameHolds ==
    ASSUME Reference!FilesInv, NEW path \in Seq({"auto", "upload"} \cup Nat), Reference!rename(path)
    PROVE  Reference!FilesInv'
<1>1. /\ Reference!Editing /\ fileChanges' = fileChanges + 1
      /\ files' = [i \in DOMAIN files |-> IF files[i].path = selected THEN [files[i] EXCEPT !.path = path] ELSE files[i]]
      /\ selected' = IF path = Reference!Empty THEN selected ELSE path
      /\ fileMishaps \subseteq fileMishaps'
      /\ path \in Reference!Paths(files) => "clash" \in fileMishaps'
      /\ path = Reference!Empty => "blank" \in fileMishaps'
      /\ UNCHANGED <<mounted, reading, mine>>
  BY DEF Reference!rename, Reference!Change
<1>2. files \in Seq(Reference!File) /\ DOMAIN files = 1..Len(files) /\ Len(files) \in Nat /\ fileChanges \in Nat
  BY DEF Reference!FilesInv
<1>3. ASSUME NEW i \in DOMAIN files
      PROVE  /\ files'[i] \in Reference!File /\ files'[i].content = files[i].content
             /\ files'[i].path = IF files[i].path = selected THEN path ELSE files[i].path
  <2>1. files[i] \in Reference!File
    BY <1>2
  <2>2. CASE files[i].path = selected
    <3>1. files'[i] = [files[i] EXCEPT !.path = path]
      BY <1>1, <2>2
    <3> QED
      BY <2>1, <2>2, <3>1 DEF Reference!File
  <2>3. CASE files[i].path # selected
    BY <1>1, <2>1, <2>3
  <2> QED
    BY <2>2, <2>3
<1>4. files' \in Seq(Reference!File) /\ DOMAIN files' = DOMAIN files
  BY <1>1, <1>2, <1>3
<1>5. PICK e \in DOMAIN files : files[e].path = selected
  BY <1>1, <1>2, EditedIs
<1>6. "clash" \notin fileMishaps' => Reference!Distinct(files')
  <2> SUFFICES ASSUME "clash" \notin fileMishaps', NEW i \in DOMAIN files, NEW j \in DOMAIN files,
                      files'[i].path = files'[j].path
               PROVE  i = j
    BY <1>4 DEF Reference!Distinct
  <2>1. path \notin Reference!Paths(files) /\ Reference!Distinct(files)
    BY <1>1 DEF Reference!FilesInv
  <2> QED
    BY <1>3, <2>1 DEF Reference!Distinct, Reference!Paths
<1>7. Reference!Contents(files)' = Reference!Contents(files)
  BY <1>3, <1>4 DEF Reference!Contents
<1>8. Reference!FilesKept'
  BY <1>1, <1>7 DEF Reference!FilesInv, Reference!FilesKept
<1>9. Reference!SomethingSelected'
  <2>1. CASE path = Reference!Empty
    BY <1>1, <2>1 DEF Reference!SomethingSelected
  <2>2. CASE path # Reference!Empty
    BY <1>1, <1>3, <1>4, <1>5, <2>2, Selects
  <2> QED
    BY <2>1, <2>2
<1> QED
  BY <1>1, <1>2, <1>4, <1>6, <1>8, <1>9 DEF Reference!FilesInv

LEMMA addFileHolds ==
    ASSUME Reference!FilesInv, Reference!addFile
    PROVE  Reference!FilesInv'
<1> DEFINE path == Reference!Auto(Reference!FreeNumber)
           x == [path |-> path, content |-> fileChanges + 1]
<1>1. /\ fileChanges' = fileChanges + 1 /\ files' = Append(files, x) /\ selected' = path
      /\ mine' = mine \cup {fileChanges + 1}
      /\ UNCHANGED <<mounted, reading, fileMishaps>>
  BY DEF Reference!addFile, Reference!Change
<1>2. files \in Seq(Reference!File) /\ DOMAIN files = 1..Len(files) /\ Len(files) \in Nat /\ fileChanges \in Nat
  BY DEF Reference!FilesInv
<1>3. Reference!FreeNumber \in Nat /\ path \notin Reference!Paths(files)
  BY <1>2, NewNumber
<1>4. path \in Seq({"auto", "upload"} \cup Nat)
  BY <1>3 DEF Reference!Auto
<1>5. x \in Reference!File /\ x.path = path /\ x.content = fileChanges + 1
  BY <1>2, <1>4 DEF Reference!File
<1> HIDE DEF x, path
<1>6. /\ files' \in Seq(Reference!File) /\ DOMAIN files' = 1..(Len(files) + 1)
      /\ files'[Len(files) + 1] = x /\ \A i \in 1..Len(files) : files'[i] = files[i]
  BY <1>1, <1>2, <1>5
<1>7. \A i \in 1..Len(files) : files[i].path # path
  BY <1>2, <1>3 DEF Reference!Paths
<1>8. \A i \in DOMAIN files' : i \in 1..Len(files) \/ i = Len(files) + 1
  BY <1>2, <1>6
<1>9. Reference!Distinct(files) => Reference!Distinct(files')
  BY <1>2, <1>5, <1>6, <1>7, <1>8 DEF Reference!Distinct
<1>10. Len(files) + 1 \in DOMAIN files' /\ \A i \in DOMAIN files : i \in DOMAIN files'
  BY <1>2, <1>6
<1>11. Reference!FilesKept'
  BY <1>1, <1>2, <1>5, <1>6, <1>10 DEF Reference!FilesInv, Reference!FilesKept, Reference!Contents
<1>12. Reference!SomethingSelected'
  BY <1>1, <1>5, <1>6, <1>10, Selects
<1> QED
  BY <1>1, <1>2, <1>6, <1>9, <1>11, <1>12 DEF Reference!FilesInv

LEMMA removeFileHolds ==
    ASSUME Reference!FilesInv, Reference!removeFile
    PROVE  Reference!FilesInv'
<1> DEFINE K == {i \in DOMAIN files : files[i].path # selected}
<1>1. /\ Reference!Editing /\ files' = Reference!Kept(files, K) /\ selected' = Reference!FirstPath(files')
      /\ mine' = mine \ {Reference!Edited.content}
      /\ UNCHANGED <<mounted, reading, fileChanges, fileMishaps>>
  BY DEF Reference!removeFile
<1>2. files \in Seq(Reference!File) /\ DOMAIN files = 1..Len(files) /\ Len(files) \in Nat
  BY DEF Reference!FilesInv
<1>3. \A i \in DOMAIN files : i \in K <=> files[i].path # selected
  OBVIOUS
<1> HIDE DEF K
<1>4. files' \in Seq(Reference!File) /\ \E h : Picks(files', files, K, Len(files), h)
  <2>1. files' = Kept(files, K)
    BY <1>1 DEF Reference!Kept, Kept
  <2> QED
    BY <1>2, <2>1, KeptPicks
<1>5. PICK h : Picks(files', files, K, Len(files), h)
  BY <1>4
<1>6. /\ DOMAIN files' = 1..Len(files') /\ Len(files') \in Nat
      /\ \A j \in DOMAIN files' : h[j] \in DOMAIN files /\ files'[j] = files[h[j]]
      /\ \A i, j \in DOMAIN files' : i < j => h[i] < h[j]
      /\ \A i \in K \cap DOMAIN files : \E j \in DOMAIN files' : h[j] = i
  <2>1. DOMAIN files' = 1..Len(files') /\ Len(files') \in Nat
    BY <1>4
  <2>2. \A j \in 1..Len(files') : h[j] \in K \cap 1..Len(files) /\ files'[j] = files[h[j]]
    BY <1>5 DEF Picks
  <2>3. /\ \A i, j \in 1..Len(files') : i < j => h[i] < h[j]
        /\ \A i \in K \cap 1..Len(files) : \E j \in 1..Len(files') : h[j] = i
    BY <1>5 DEF Picks
  <2> QED
    BY <1>2, <2>1, <2>2, <2>3
<1>7. PICK e \in DOMAIN files : Reference!Edited = files[e] /\ files[e].path = selected
  BY <1>1, <1>2, EditedIs
<1>8. Reference!Distinct(files) => Reference!Distinct(files')
  <2> SUFFICES ASSUME Reference!Distinct(files), NEW i \in DOMAIN files', NEW j \in DOMAIN files',
                      files'[i].path = files'[j].path
               PROVE  i = j
    BY DEF Reference!Distinct
  <2>1. h[i] = h[j]
    BY <1>6 DEF Reference!Distinct
  <2>2. i \in Nat /\ j \in Nat /\ h[i] \in Nat /\ ~(i < j) /\ ~(j < i)
    BY <1>2, <1>6, <2>1
  <2> QED
    BY <2>2
<1>9. Reference!FilesKept'
  <2> SUFFICES ASSUME fileMishaps \cap {"clash", "overtaken"} = {}, NEW v \in mine' PROVE v \in Reference!Contents(files')
    BY <1>1 DEF Reference!FilesKept, Reference!Contents
  <2>1. v \in mine /\ v # files[e].content
    BY <1>1, <1>7
  <2>2. PICK i \in DOMAIN files : files[i].content = v
    BY <2>1 DEF Reference!FilesInv, Reference!FilesKept, Reference!Contents
  <2>3. files[i].path # selected
    BY <1>7, <2>1, <2>2 DEF Reference!FilesInv, Reference!Distinct
  <2>4. PICK j \in DOMAIN files' : h[j] = i
    BY <1>3, <1>6, <2>3
  <2> QED
    BY <1>6, <2>2, <2>4 DEF Reference!Contents
<1>10. Reference!SomethingSelected'
  <2>1. CASE files' = <<>>
    BY <2>1 DEF Reference!SomethingSelected
  <2>2. CASE files' # <<>>
    <3>1. 1 \in DOMAIN files' /\ selected' = files'[1].path
      BY <1>1, <1>4, <2>2 DEF Reference!FirstPath
    <3> QED
      BY <3>1, Selects
  <2> QED
    BY <2>1, <2>2
<1> QED
  BY <1>1, <1>4, <1>8, <1>9, <1>10 DEF Reference!FilesInv

\* Two lists one after the other.
LEMMA Joined ==
    ASSUME NEW S, NEW a \in Seq(S), NEW b \in Seq(S)
    PROVE  /\ a \o b \in Seq(S) /\ DOMAIN (a \o b) = 1..(Len(a) + Len(b))
           /\ \A i \in DOMAIN a : i \in DOMAIN (a \o b) /\ (a \o b)[i] = a[i]
           /\ \A j \in DOMAIN b : Len(a) + j \in DOMAIN (a \o b) /\ (a \o b)[Len(a) + j] = b[j]
           /\ \A i \in DOMAIN (a \o b) : i \in DOMAIN a \/ (i - Len(a) \in DOMAIN b /\ (a \o b)[i] = b[i - Len(a)])
<1>1. /\ DOMAIN a = 1..Len(a) /\ Len(a) \in Nat /\ DOMAIN b = 1..Len(b) /\ Len(b) \in Nat
      /\ a \o b \in Seq(S) /\ Len(a \o b) = Len(a) + Len(b)
  OBVIOUS
<1>2. \A i \in 1..(Len(a) + Len(b)) : (a \o b)[i] = IF i <= Len(a) THEN a[i] ELSE b[i - Len(a)]
  BY ConcatProperties
<1>3. ASSUME NEW i \in DOMAIN a PROVE i \in DOMAIN (a \o b) /\ (a \o b)[i] = a[i]
  BY <1>1, <1>2
<1>4. ASSUME NEW j \in DOMAIN b PROVE Len(a) + j \in DOMAIN (a \o b) /\ (a \o b)[Len(a) + j] = b[j]
  <2>1. Len(a) + j \in 1..(Len(a) + Len(b)) /\ ~(Len(a) + j <= Len(a)) /\ (Len(a) + j) - Len(a) = j
    BY <1>1
  <2> QED
    BY <1>1, <1>2, <2>1
<1>5. ASSUME NEW i \in DOMAIN (a \o b), i \notin DOMAIN a
      PROVE  i - Len(a) \in DOMAIN b /\ (a \o b)[i] = b[i - Len(a)]
  <2>1. i \in 1..(Len(a) + Len(b)) /\ ~(i <= Len(a)) /\ i - Len(a) \in 1..Len(b)
    BY <1>1, <1>5
  <2> QED
    BY <1>1, <1>2, <2>1
<1> QED
  BY <1>1, <1>3, <1>4, <1>5

\* The names of an upload are free when it starts.
LEMMA onUploadHolds ==
    ASSUME Reference!FilesInv,
           NEW names \in {<<Reference!Upload>>, <<Reference!Upload, Append(Reference!Upload, 1)>>},
           Reference!onUpload(names)
    PROVE  Reference!FilesInv'
<1> DEFINE N == Seq({"auto", "upload"} \cup Nat)
           first == Reference!FreeName(names[1], Reference!Paths(files))
           second == Reference!FreeName(names[2], Reference!Paths(files) \cup {first})
           paths == IF Len(names) = 1 THEN <<first>> ELSE <<first, second>>
           added == [i \in DOMAIN paths |-> [path |-> paths[i], content |-> 0]]
           r == [before |-> files, added |-> added]
<1>1. /\ reading' = reading \cup {r} /\ fileChanges' = fileChanges + 1
      /\ UNCHANGED <<files, selected, mounted, mine, fileMishaps>>
  BY DEF Reference!onUpload, Reference!Change
<1>2. files \in Seq(Reference!File) /\ DOMAIN files = 1..Len(files) /\ Len(files) \in Nat /\ fileChanges \in Nat
  BY DEF Reference!FilesInv
<1>3. IsFiniteSet(Reference!Paths(files))
  BY <1>2, PathsCounted
<1>4. /\ names[1] \in N /\ Len(names) \in {1, 2}
      /\ Len(names) # 1 => names[2] \in N
  <2> DEFINE S == {"auto", "upload"} \cup Nat
  <2>1. "upload" \in S /\ 1 \in S
    OBVIOUS
  <2> HIDE DEF S
  <2>2. <<"upload">> \in Seq(S)
    BY <2>1
  <2>3. Append(<<"upload">>, 1) \in Seq(S)
    BY <2>1, <2>2
  <2>4. names = <<Reference!Upload>> \/ names = <<Reference!Upload, Append(Reference!Upload, 1)>>
    OBVIOUS
  <2>5. Reference!Upload \in N /\ Append(Reference!Upload, 1) \in N
    BY <2>2, <2>3 DEF S, Reference!Upload
  <2> HIDE DEF N
  <2> DEFINE u == Reference!Upload
             v == Append(Reference!Upload, 1)
  <2>6. u \in N /\ v \in N /\ (names = <<u>> \/ names = <<u, v>>)
    BY <2>4, <2>5
  <2> HIDE DEF u, v
  <2> QED
    BY <2>6
<1>5. first \in N /\ first \notin Reference!Paths(files)
  BY <1>3, <1>4, NewName
<1>6. Len(names) # 1 => second \in N /\ second \notin Reference!Paths(files) /\ second # first
  <2>1. IsFiniteSet(Reference!Paths(files) \cup {first})
    BY <1>3, FS_AddElement
  <2> HIDE DEF first
  <2> QED
    BY <1>4, <2>1, NewName
<1> HIDE DEF first, second
<1>7. /\ DOMAIN paths = 1..Len(paths) /\ Len(paths) \in {1, 2}
      /\ \A i \in DOMAIN paths : paths[i] \in N /\ paths[i] \notin Reference!Paths(files)
      /\ \A i, j \in DOMAIN paths : paths[i] = paths[j] => i = j
  <2>1. CASE Len(names) = 1
    BY <1>5, <2>1
  <2>2. CASE Len(names) # 1
    BY <1>5, <1>6, <2>2
  <2> QED
    BY <2>1, <2>2
<1> HIDE DEF paths
<1>8. \A i \in DOMAIN paths : added[i] \in Reference!File /\ added[i].path = paths[i]
  BY <1>7 DEF Reference!File
<1>9. added \in Seq(Reference!File) /\ DOMAIN added = DOMAIN paths /\ added # <<>>
  <2>1. DOMAIN added = 1..Len(paths) /\ Len(paths) \in Nat /\ 1 \in DOMAIN added
    BY <1>7
  <2>2. added \in Seq(Reference!File)
    BY <1>8, <2>1
  <2> QED
    BY <1>7, <2>1, <2>2
<1> HIDE DEF added
<1>10. ASSUME Reference!Distinct(files) PROVE Reference!Distinct(files \o added)
  <2> DEFINE t == files \o added
  <2>1. \A i \in DOMAIN t : \/ i \in DOMAIN files /\ t[i] = files[i]
                            \/ i - Len(files) \in DOMAIN added /\ t[i] = added[i - Len(files)]
    BY <1>2, <1>9, Joined
  <2>2. \A i \in DOMAIN t : i \in Nat
    BY <1>2, <1>9, Joined
  <2>3. \A i \in DOMAIN files, j \in DOMAIN added : files[i].path # added[j].path
    BY <1>7, <1>8, <1>9 DEF Reference!Paths
  <2>4. \A i, j \in DOMAIN added : added[i].path = added[j].path => i = j
    BY <1>7, <1>8, <1>9
  <2> HIDE DEF t
  <2>5. ASSUME NEW i \in DOMAIN t, NEW j \in DOMAIN t, t[i].path = t[j].path PROVE i = j
    <3>1. CASE i \in DOMAIN files /\ t[i] = files[i] /\ j \in DOMAIN files /\ t[j] = files[j]
      BY <1>10, <2>5, <3>1 DEF Reference!Distinct
    <3>2. CASE /\ i - Len(files) \in DOMAIN added /\ t[i] = added[i - Len(files)]
               /\ j - Len(files) \in DOMAIN added /\ t[j] = added[j - Len(files)]
      <4>1. i - Len(files) = j - Len(files)
        BY <2>4, <2>5, <3>2
      <4> QED
        BY <1>2, <2>2, <4>1
    <3>3. QED
      BY <2>1, <2>3, <2>5, <3>1, <3>2
  <2> QED
    BY <2>5 DEF Reference!Distinct, t
<1>11. /\ r.before = files /\ r.added = added
  OBVIOUS
<1> HIDE DEF r
<1>12. /\ Reference!FilesKept' /\ Reference!SomethingSelected'
  BY <1>1 DEF Reference!FilesInv, Reference!FilesKept, Reference!SomethingSelected, Reference!Contents,
     Reference!Editing, Reference!Current
<1>13. \A q \in reading' : q.before \in Seq(Reference!File) /\ q.added \in Seq(Reference!File) /\ q.added # <<>>
  BY <1>1, <1>2, <1>9, <1>11 DEF Reference!FilesInv
<1>14. "clash" \notin fileMishaps => Reference!Distinct(files) /\ \A q \in reading' : Reference!Distinct(q.before \o q.added)
  BY <1>1, <1>10, <1>11 DEF Reference!FilesInv
<1>15. fileChanges' \in Nat
  BY <1>1, <1>2
<1> QED
  BY <1>1, <1>2, <1>12, <1>13, <1>14, <1>15 DEF Reference!FilesInv

LEMMA UploadReadHolds ==
    ASSUME Reference!FilesInv, NEW r \in reading, Reference!UploadRead(r)
    PROVE  Reference!FilesInv'
<1>1. /\ reading' = reading \ {r} /\ files' = r.before \o r.added
      /\ selected' = IF mounted THEN r.added[1].path ELSE selected
      /\ fileMishaps \subseteq fileMishaps' /\ (r.before # files => "overtaken" \in fileMishaps')
      /\ "clash" \in fileMishaps' => "clash" \in fileMishaps
      /\ UNCHANGED <<mounted, fileChanges, mine>>
  BY DEF Reference!UploadRead
<1>2. r.before \in Seq(Reference!File) /\ r.added \in Seq(Reference!File) /\ r.added # <<>>
  BY DEF Reference!FilesInv
<1> DEFINE a == r.before
           b == r.added
<1>8. a \in Seq(Reference!File) /\ b \in Seq(Reference!File) /\ files' = a \o b
  BY <1>1, <1>2
<1> HIDE DEF a, b
<1>9. /\ a \o b \in Seq(Reference!File)
      /\ \A i \in DOMAIN a : i \in DOMAIN (a \o b) /\ (a \o b)[i] = a[i]
      /\ \A j \in DOMAIN b : Len(a) + j \in DOMAIN (a \o b) /\ (a \o b)[Len(a) + j] = b[j]
  BY <1>8, Joined
<1>10. /\ files' \in Seq(Reference!File)
       /\ \A i \in DOMAIN a : i \in DOMAIN files' /\ files'[i] = a[i]
       /\ \A j \in DOMAIN b : Len(a) + j \in DOMAIN files' /\ files'[Len(a) + j] = b[j]
  BY <1>8, <1>9
<1>3. /\ files' \in Seq(Reference!File)
      /\ \A i \in DOMAIN r.before : i \in DOMAIN files' /\ files'[i] = r.before[i]
      /\ \A j \in DOMAIN r.added : Len(r.before) + j \in DOMAIN files' /\ files'[Len(r.before) + j] = r.added[j]
  BY <1>10 DEF a, b
<1>4. 1 \in DOMAIN r.added
  BY <1>2
<1>5. Reference!FilesKept'
  <2> SUFFICES ASSUME fileMishaps' \cap {"clash", "overtaken"} = {}, NEW v \in mine PROVE v \in Reference!Contents(files')
    BY <1>1 DEF Reference!FilesKept, Reference!Contents
  <2>1. r.before = files /\ fileMishaps \cap {"clash", "overtaken"} = {}
    BY <1>1
  <2>2. PICK i \in DOMAIN files : files[i].content = v
    BY <2>1 DEF Reference!FilesInv, Reference!FilesKept, Reference!Contents
  <2> QED
    BY <1>3, <2>1, <2>2 DEF Reference!Contents
<1>6. Reference!SomethingSelected'
  <2>1. CASE mounted
    BY <1>1, <1>3, <1>4, <2>1, Selects
  <2>2. CASE ~mounted
    BY <1>1, <2>2 DEF Reference!SomethingSelected
  <2> QED
    BY <2>1, <2>2
<1>7. "clash" \notin fileMishaps' => Reference!Distinct(files')
  BY <1>1 DEF Reference!FilesInv
<1> QED
  BY <1>1, <1>3, <1>5, <1>6, <1>7 DEF Reference!FilesInv

LEMMA TabHolds ==
    ASSUME Reference!FilesInv,
           \/ \E path \in Reference!Paths(files) : Reference!setSelected(path)
           \/ \E r \in reading : Reference!UploadFails(r)
           \/ Reference!LeaveTab \/ Reference!OpenTab
           \/ UNCHANGED fileVars
    PROVE  Reference!FilesInv'
<1>1. UNCHANGED <<files, fileChanges, mine, fileMishaps>> /\ reading' \subseteq reading
  BY DEF Reference!setSelected, Reference!UploadFails, Reference!LeaveTab, Reference!OpenTab, fileVars
<1>2. Reference!FilesKept'
  BY <1>1 DEF Reference!FilesInv, Reference!FilesKept, Reference!Contents
<1>3. Reference!SomethingSelected'
  <2>1. ASSUME NEW path \in Reference!Paths(files), Reference!setSelected(path) PROVE Reference!SomethingSelected'
    BY <1>1, <2>1, Selects DEF Reference!setSelected, Reference!Paths
  <2>2. CASE Reference!LeaveTab
    BY <2>2 DEF Reference!LeaveTab, Reference!SomethingSelected
  <2>3. CASE Reference!OpenTab
    <3>1. files' = files /\ selected' = Reference!FirstPath(files) /\ files \in Seq(Reference!File)
      BY <2>3 DEF Reference!OpenTab, Reference!FilesInv
    <3>2. CASE files = <<>>
      BY <3>1, <3>2 DEF Reference!SomethingSelected
    <3>3. CASE files # <<>>
      <4>1. 1 \in DOMAIN files' /\ files'[1].path = selected'
        BY <3>1, <3>3 DEF Reference!FirstPath
      <4> QED
        BY <4>1, Selects
    <3> QED
      BY <3>2, <3>3
  <2>4. CASE UNCHANGED <<files, selected, mounted, fileMishaps>>
    BY <2>4 DEF Reference!FilesInv, Reference!SomethingSelected, Reference!Editing, Reference!Current
  <2> QED
    BY <2>1, <2>2, <2>3, <2>4 DEF Reference!UploadFails, fileVars
<1> QED
  BY <1>1, <1>2, <1>3 DEF Reference!FilesInv

LEMMA FilesStep == Reference!FilesInv /\ [Reference!Next]_fileVars => Reference!FilesInv'
<1> SUFFICES ASSUME Reference!FilesInv, [Reference!Next]_fileVars PROVE Reference!FilesInv'
  OBVIOUS
<1>1. ASSUME NEW path \in {Reference!Auto(1), Reference!Auto(2), Reference!Upload, Reference!Empty}, Reference!rename(path)
      PROVE  Reference!FilesInv'
  <2> DEFINE S == {"auto", "upload"} \cup Nat
  <2>2. "auto" \in S /\ "upload" \in S /\ 1 \in S /\ 2 \in S
    OBVIOUS
  <2>3. path = <<"auto", 1>> \/ path = <<"auto", 2>> \/ path = <<"upload">> \/ path = <<>>
    BY DEF Reference!Auto, Reference!Upload, Reference!Empty
  <2> HIDE DEF S
  <2>4. <<"auto", 1>> \in Seq(S) /\ <<"auto", 2>> \in Seq(S) /\ <<"upload">> \in Seq(S) /\ <<>> \in Seq(S)
    BY <2>2
  <2>1. path \in Seq({"auto", "upload"} \cup Nat)
    BY <2>3, <2>4 DEF S
  <2> QED
    BY <1>1, <2>1, renameHolds
<1> QED
  BY <1>1, updateFileHolds, addFileHolds, removeFileHolds, onUploadHolds, UploadReadHolds, TabHolds
     DEF Reference!Next

LEMMA FilesShow == Reference!FilesInv => Reference!FilesSound
<1> SUFFICES ASSUME Reference!FilesInv PROVE Reference!FilesSound
  OBVIOUS
<1>1. Reference!NamesDistinct
  <2> SUFFICES ASSUME "clash" \notin fileMishaps PROVE Reference!Cardinality(Reference!Paths(files)) = Len(files)
    BY DEF Reference!NamesDistinct
  <2>1. /\ files \in Seq(Reference!File) /\ DOMAIN files = 1..Len(files) /\ Len(files) \in Nat
        /\ Reference!Distinct(files)
    BY DEF Reference!FilesInv
  <2> DEFINE f == [i \in 1..Len(files) |-> files[i].path]
  <2>2. \A i, j \in 1..Len(files) : f[i] = f[j] => i = j
    BY <2>1 DEF Reference!Distinct
  <2>3. f \in [1..Len(files) -> Reference!Paths(files)]
    BY <2>1 DEF Reference!Paths
  <2>4. \A x \in Reference!Paths(files) : \E i \in 1..Len(files) : f[i] = x
    BY <2>1 DEF Reference!Paths
  <2> HIDE DEF f
  <2>5. Cardinality(Reference!Paths(files)) = Len(files)
    BY <2>1, <2>2, <2>3, <2>4, Counted
  <2>6. Reference!Cardinality(Reference!Paths(files)) = Cardinality(Reference!Paths(files))
    BY DEF Reference!Cardinality, Cardinality
  <2> QED
    BY <2>5, <2>6
<1> QED
  BY <1>1 DEF Reference!FilesInv, Reference!FilesSound

LEMMA FilesMove ==
    [PagesNext]_pagesVars /\ part' = "reference" => part = "reference" /\ [Reference!Next]_fileVars
BY DEF PagesNext, pagesVars, fileVars

\* Files added and uploaded have paths of their own, whatever paths there are, what was
\* written stays until it is replaced or removed, and while there are files one of them is
\* edited (ReferenceEditor in ProblemStudio.tsx); except after a renaming to another's path
\* or to none, or an upload read while the files changed.  For any number of files.
THEOREM FilesStay == PagesSpec => []FilesSound
<1> DEFINE Inv == part = "reference" => Reference!FilesInv
<1>1. PagesInit => Inv
  BY FilesInit DEF PagesInit
<1>2. Inv /\ [PagesNext]_pagesVars => Inv'
  BY FilesMove, FilesStep
<1>3. Inv => FilesSound
  BY FilesShow DEF FilesSound
<1> QED
  BY <1>1, <1>2, <1>3, PTL DEF PagesSpec

\* The author loses neither an edit of the draft nor a reference file (ProblemStudio.tsx),
\* but for the cases EditsAreKept and FilesStay name.
THEOREM StudioHolds == PagesSpec => []StudioSound
  BY EditsAreKept, FilesStay, PTL DEF StudioSound

----------------------------------------------------------------------------
(* Users in bulk *)

\* What is taken out of a list was in it.
LEMMA FilteredRows ==
    ASSUME NEW S, NEW s \in Seq(S), NEW K
    PROVE  /\ Accounts!Kept(s, K) \in Seq(S)
           /\ \A j \in DOMAIN Accounts!Kept(s, K) :
                 \E i \in DOMAIN s : i \in K /\ Accounts!Kept(s, K)[j] = s[i]
<1> DEFINE t == Accounts!Kept(s, K)
<1>1. t = Kept(s, K)
  BY DEF Accounts!Kept, Kept
<1>2. t \in Seq(S) /\ \E h : Picks(t, s, K, Len(s), h)
  BY <1>1, KeptPicks
<1> HIDE DEF t
<1>3. PICK h : Picks(t, s, K, Len(s), h)
  BY <1>2
<1>4. DOMAIN t = 1..Len(t) /\ DOMAIN s = 1..Len(s)
  BY <1>2
<1>5. \A j \in DOMAIN t : h[j] \in DOMAIN s /\ h[j] \in K /\ t[j] = s[h[j]]
  BY <1>3, <1>4 DEF Picks
<1> QED
  BY <1>2, <1>5 DEF t

LEMMA AccountsInit == Accounts!Init => Accounts!AccountsInv
<1> SUFFICES ASSUME Accounts!Init PROVE Accounts!AccountsInv
  OBVIOUS
<1>1. Accounts!emptyRow \in Accounts!Row
  BY DEF Accounts!emptyRow, Accounts!DraftUser, Accounts!Row
<1>2. rows \in Seq(Accounts!Row)
  BY <1>1 DEF Accounts!Init
<1>3. common = Accounts!Blank /\ grid = None /\ call = None /\ result = None /\ hidden = {}
  BY DEF Accounts!Init, Accounts!Blank
<1> QED
  BY <1>2, <1>3 DEF Accounts!AccountsInv, Accounts!Hidden, Accounts!CredentialsTrue

\* The request and the answer stay true while neither they nor the common password change.
LEMMA CallStays ==
    ASSUME Accounts!AccountsInv, UNCHANGED <<common, call, result, made, userSlips>>, hidden' \subseteq hidden
    PROVE  /\ common' \in Accounts!Typed \cup {Accounts!Blank}
           /\ result' # None => call' = None
           /\ call' # None => Accounts!Pending'
           /\ Accounts!Hidden' /\ Accounts!CredentialsTrue'
<1>1. call' # None => Accounts!Pending'
  BY DEF Accounts!AccountsInv, Accounts!Pending
<1>2. Accounts!Hidden'
  BY DEF Accounts!AccountsInv, Accounts!Hidden
<1>3. Accounts!CredentialsTrue'
  BY DEF Accounts!AccountsInv, Accounts!CredentialsTrue, Accounts!Listed, Accounts!Told
<1> QED
  BY <1>1, <1>2, <1>3 DEF Accounts!AccountsInv

LEMMA RowsHold ==
    ASSUME Accounts!AccountsInv, NEW i \in 1..MaxRows,
           \/ Accounts!removeRow(i)
           \/ \E row \in Accounts!Drafts : Accounts!setRow(i, row)
    PROVE  Accounts!AccountsInv'
<1>1. /\ UNCHANGED <<common, grid, call, result, made, hidden, userSlips>>
      /\ \/ \E row \in Accounts!Drafts : i \in DOMAIN rows /\ rows' = [rows EXCEPT ![i] = row]
         \/ i \in DOMAIN rows /\ rows' = Accounts!RemoveAt(rows, i)
         \/ rows' = <<Accounts!emptyRow>>
  BY DEF Accounts!removeRow, Accounts!setRow, Accounts!Fill
<1>2. rows \in Seq(Accounts!Row)
  BY DEF Accounts!AccountsInv
<1>3. Accounts!emptyRow \in Accounts!Row
  BY DEF Accounts!emptyRow, Accounts!DraftUser, Accounts!Row
<1>4. ASSUME NEW row \in Accounts!Drafts PROVE row \in Accounts!Row
  <2>1. CASE row = Accounts!DraftUser("nobody", FALSE, TRUE, Accounts!Blank)
    BY <2>1 DEF Accounts!DraftUser, Accounts!Row
  <2>2. CASE row \in [email : Emails, capitals : BOOLEAN, named : {TRUE}, password : {Accounts!Blank, "own"}]
    BY <2>2 DEF Accounts!Row
  <2>3. \/ row = Accounts!DraftUser("nobody", FALSE, TRUE, Accounts!Blank)
        \/ row \in [email : Emails, capitals : BOOLEAN, named : {TRUE}, password : {Accounts!Blank, "own"}]
    BY DEF Accounts!Drafts
  <2> QED
    BY <2>1, <2>2, <2>3
<1>5. i \in DOMAIN rows => Accounts!RemoveAt(rows, i) \in Seq(Accounts!Row)
  BY <1>2, Removed DEF Accounts!RemoveAt, RemoveAt
<1>6. rows' \in Seq(Accounts!Row)
  <2>1. ASSUME NEW row \in Accounts!Drafts, i \in DOMAIN rows, rows' = [rows EXCEPT ![i] = row]
        PROVE  rows' \in Seq(Accounts!Row)
    BY <1>2, <1>4, <2>1
  <2>2. <<Accounts!emptyRow>> \in Seq(Accounts!Row)
    BY <1>3
  <2> QED
    BY <1>1, <1>5, <2>1, <2>2
<1> QED
  BY <1>1, <1>6, CallStays DEF Accounts!AccountsInv

LEMMA GridHolds ==
    ASSUME Accounts!AccountsInv,
           \/ \E g \in Tables : Accounts!loadGrid(g)
           \/ grid # None /\ (Accounts!setGrid(None) \/ Accounts!setGrid([grid EXCEPT !.hasHeader = ~@]))
    PROVE  Accounts!AccountsInv'
<1>1. /\ UNCHANGED <<rows, common, call, result, made, hidden, userSlips>>
      /\ \/ \E g \in Tables : grid' = Accounts!guessColumns(g)
         \/ grid' = None
         \/ grid # None /\ grid' = [grid EXCEPT !.hasHeader = ~@]
  BY DEF Accounts!loadGrid, Accounts!setGrid
<1>2. ASSUME NEW g \in Tables
      PROVE  "cells" \in DOMAIN Accounts!guessColumns(g) /\ Accounts!guessColumns(g).cells = g
  <2>1. \E h, m : Accounts!guessColumns(g) = [cells |-> g, hasHeader |-> h, map |-> m]
    BY Zenon DEF Accounts!guessColumns
  <2> QED
    BY <2>1
<1>3. grid' # None => "cells" \in DOMAIN grid' /\ grid'.cells \in Tables
  <2>1. CASE grid # None /\ grid' = [grid EXCEPT !.hasHeader = ~@]
    BY <2>1 DEF Accounts!AccountsInv
  <2> QED
    BY <1>1, <1>2, <2>1
<1> QED
  BY <1>1, <1>3, CallStays DEF Accounts!AccountsInv

LEMMA importGridHolds ==
    ASSUME Accounts!AccountsInv, Accounts!importGrid
    PROVE  Accounts!AccountsInv'
<1> DEFINE data == IF grid.hasHeader THEN Tail(grid.cells) ELSE grid.cells
           read == [i \in DOMAIN data |-> Accounts!ImportedRow(data[i])]
           K == {i \in DOMAIN read : Accounts!IsAddress(read[i])}
           B == {i \in DOMAIN rows : rows[i].email # Accounts!Blank \/ rows[i].named}
           imported == Accounts!Kept(read, K)
           before == Accounts!Kept(rows, B)
<1>1. /\ UNCHANGED <<common, call, result, made, hidden, userSlips>>
      /\ grid # None /\ grid' = None
      /\ rows' = before \o imported
  BY DEF Accounts!importGrid
<1>2. DOMAIN data = 1..Len(data) /\ Len(data) \in Nat
  <2> DEFINE g == grid.cells
             T == {g[i] : i \in DOMAIN g}
  <2>1. g \in Tables
    BY <1>1 DEF Accounts!AccountsInv
  <2>2. g \in Seq(T) /\ g # <<>>
    BY <2>1, AccountsAssumption
  <2>3. data = g \/ data = Tail(g)
    OBVIOUS
  <2> HIDE DEF g, T, data
  <2>4. data \in Seq(T)
    BY <2>2, <2>3
  <2> QED
    BY <2>4
<1>3. \A c : LET r == Accounts!ImportedRow(c)
             IN r.capitals \in BOOLEAN /\ r.named \in BOOLEAN /\ r.password \in {Accounts!Blank, "own"}
                /\ r = [email |-> r.email, capitals |-> r.capitals, named |-> r.named, password |-> r.password]
  BY DEF Accounts!ImportedRow, Accounts!DraftUser
<1> HIDE DEF data
<1> DEFINE S == {read[i] : i \in DOMAIN read}
<1>4. read \in Seq(S)
  <2>1. DOMAIN read = 1..Len(data)
    BY <1>2
  <2>2. \A i \in DOMAIN read : read[i] \in S
    OBVIOUS
  <2> QED
    BY <1>2, <2>1, <2>2
<1>5. imported \in Seq(Accounts!Row)
  <2>1. /\ imported \in Seq(S)
        /\ \A j \in DOMAIN imported : \E i \in DOMAIN read : i \in K /\ imported[j] = read[i]
    <3> HIDE DEF read, K, S
    <3> QED
      BY <1>4, FilteredRows
  <2>2. ASSUME NEW i \in DOMAIN read, i \in K PROVE read[i] \in Accounts!Row
    <3>1. read[i].email \in Emails /\ read[i] = Accounts!ImportedRow(data[i])
      BY <2>2 DEF Accounts!IsAddress
    <3> QED
      BY <1>3, <3>1 DEF Accounts!Row
  <2> HIDE DEF imported, read, K, S
  <2>3. \A j \in DOMAIN imported : imported[j] \in Accounts!Row
    BY <2>1, <2>2
  <2> QED
    BY <2>1, <2>3
<1>6. before \in Seq(Accounts!Row)
  <2> HIDE DEF B
  <2> QED
    BY FilteredRows DEF Accounts!AccountsInv
<1> HIDE DEF imported, before
<1>7. rows' \in Seq(Accounts!Row)
  BY <1>1, <1>5, <1>6
<1> QED
  BY <1>1, <1>7, CallStays DEF Accounts!AccountsInv

LEMMA setDefaultPasswordHolds ==
    ASSUME Accounts!AccountsInv, NEW password \in Accounts!Typed, Accounts!setDefaultPassword(password)
    PROVE  Accounts!AccountsInv'
<1>1. /\ UNCHANGED <<rows, grid, call, result, made, hidden>>
      /\ result = None /\ common' = password
      /\ userSlips \subseteq userSlips' /\ (call # None => "edited" \in userSlips')
      /\ "own" \in userSlips' <=> "own" \in userSlips
      /\ "lost" \in userSlips' <=> "lost" \in userSlips
  BY DEF Accounts!setDefaultPassword, Accounts!Filling
<1>2. call' # None => Accounts!Pending'
  BY <1>1 DEF Accounts!AccountsInv, Accounts!Pending
<1>3. Accounts!Hidden' /\ Accounts!CredentialsTrue'
  BY <1>1 DEF Accounts!AccountsInv, Accounts!Hidden, Accounts!CredentialsTrue
<1> QED
  BY <1>1, <1>2, <1>3 DEF Accounts!AccountsInv

LEMMA submitHolds ==
    ASSUME Accounts!AccountsInv, Accounts!submit
    PROVE  Accounts!AccountsInv'
<1> DEFINE todo == Accounts!validRows(rows)
           carried == [step |-> "sent", users |-> todo, default |-> Accounts!Trimmed(common), existing |-> {}, results |-> <<>>]
<1>1. /\ UNCHANGED <<rows, common, grid, result, made, hidden>>
      /\ result = None /\ call = None /\ call' = carried
      /\ "edited" \notin userSlips'
      /\ "lost" \in userSlips' <=> "lost" \in userSlips
      /\ "spaced" \notin userSlips' => Accounts!Trimmed(common) \in {Accounts!Blank, common}
      /\ "own" \notin userSlips' =>
            (common = Accounts!Blank \/ \A i \in DOMAIN todo : todo[i].password = Accounts!Blank)
  BY DEF Accounts!submit, Accounts!Filling
<1>2. todo \in Seq(Accounts!Row) /\ \A i \in DOMAIN todo : todo[i].email \in Emails
  <2> DEFINE K == {i \in DOMAIN rows : Accounts!IsAddress(rows[i]) /\ rows[i].named}
  <2>1. rows \in Seq(Accounts!Row) /\ todo = Accounts!Kept(rows, K)
    BY DEF Accounts!AccountsInv, Accounts!validRows
  <2>2. \A i \in K : rows[i].email \in Emails
    BY DEF Accounts!IsAddress
  <2> HIDE DEF K, todo
  <2> QED
    BY <2>1, <2>2, FilteredRows
<1> HIDE DEF todo
<1>3. carried \in Accounts!Call
  <2>1. Accounts!Trimmed(common) \in {Accounts!Blank, "first", "second"}
    BY DEF Accounts!AccountsInv, Accounts!Trimmed, Accounts!Typed
  <2> QED
    BY <1>2, <2>1 DEF Accounts!Call
<1>4. Accounts!Pending'
  <2>1. carried.step = "sent" /\ carried.users = todo /\ carried.default = Accounts!Trimmed(common)
    OBVIOUS
  <2> HIDE DEF carried
  <2> QED
    BY <1>1, <1>2, <1>3, <2>1 DEF Accounts!Pending
<1>5. Accounts!Hidden' /\ Accounts!CredentialsTrue'
  BY <1>1 DEF Accounts!AccountsInv, Accounts!Hidden, Accounts!CredentialsTrue
<1> QED
  BY <1>1, <1>4, <1>5 DEF Accounts!AccountsInv

\* What the server decides is of the rows in their order, and of one address it makes one account.
LEMMA DecidesRightly ==
    ASSUME NEW todo \in Seq(Accounts!Row), \A i \in DOMAIN todo : todo[i].email \in Emails,
           NEW default \in {Accounts!Blank, "first", "second"}, NEW existing
    PROVE  LET results == Accounts!Decided(todo, default, existing) IN
           /\ results \in Seq(Accounts!Result) /\ DOMAIN results = DOMAIN todo
           /\ \A i \in DOMAIN results : results[i].ok => Accounts!Rightly(todo[i], results[i], default)
           /\ \A i, j \in DOMAIN results :
                 (results[i].ok /\ results[j].ok /\ results[i].email = results[j].email) => i = j
<1> DEFINE results == Accounts!Decided(todo, default, existing)
           password(i) == IF todo[i].password # Accounts!Blank THEN todo[i].password ELSE default
           ok(i) == todo[i].email \notin existing \cup {todo[j].email : j \in 1..(i - 1)}
           generated(i) == ok(i) /\ password(i) = Accounts!Blank
           tells(i) == IF password(i) = Accounts!Blank THEN "made up" ELSE password(i)
<1>1. DOMAIN todo = 1..Len(todo) /\ Len(todo) \in Nat
  OBVIOUS
<1>2. DOMAIN results = DOMAIN todo
  BY DEF Accounts!Decided
<1>3. ASSUME NEW i \in DOMAIN todo
      PROVE  results[i] = [email |-> todo[i].email, ok |-> ok(i), generated |-> generated(i), password |-> tells(i)]
  BY DEF Accounts!Decided
<1> HIDE DEF results
<1>4. ASSUME NEW i \in DOMAIN todo
      PROVE  /\ results[i] \in Accounts!Result /\ results[i].email = todo[i].email
             /\ results[i].ok => ok(i)
             /\ results[i].ok => Accounts!Rightly(todo[i], results[i], default)
  <2> DEFINE e == todo[i].email
             p == password(i)
             o == ok(i)
             g == generated(i)
             t == tells(i)
             r == results[i]
  <2>1. r = [email |-> e, ok |-> o, generated |-> g, password |-> t]
    BY <1>3
  <2>2. todo[i] \in Accounts!Row /\ e \in Emails
    OBVIOUS
  <2>3. todo[i].password \in {Accounts!Blank, "own"}
    BY <2>2 DEF Accounts!Row
  <2>4. p \in {Accounts!Blank, "own", "first", "second"} /\ o \in BOOLEAN /\ g \in BOOLEAN
    BY <2>3
  <2>5. t \in {"made up", "own", "first", "second"}
    BY <2>4
  <2>6. /\ p = IF todo[i].password # Accounts!Blank THEN todo[i].password ELSE default
        /\ (g <=> (o /\ p = Accounts!Blank)) /\ (o => ok(i))
        /\ t = IF p = Accounts!Blank THEN "made up" ELSE p
    OBVIOUS
  <2> HIDE DEF e, p, o, g, t, r
  <2>7. r \in Accounts!Result
    BY <2>1, <2>2, <2>4, <2>5 DEF Accounts!Result
  <2>8. r.email = e /\ r.ok = o /\ r.generated = g /\ r.password = t
    BY <2>1
  <2>9. r.ok => Accounts!Rightly(todo[i], r, default)
    BY <2>4, <2>6, <2>8 DEF Accounts!Rightly
  <2>10. r.ok => ok(i)
    <3> HIDE DEF ok
    <3> QED
      BY <2>6, <2>8
  <2> QED
    BY <2>7, <2>8, <2>9, <2>10 DEF r, e
<1>5. ASSUME NEW i \in DOMAIN todo, NEW j \in DOMAIN todo, i < j, results[j].ok
      PROVE  results[i].email # results[j].email
  <2>1. results[i].email = todo[i].email /\ results[j].email = todo[j].email /\ ok(j)
    BY <1>4, <1>5
  <2>2. i \in 1..(j - 1)
    BY <1>1, <1>5
  <2> QED
    BY <2>1, <2>2
<1>6. ASSUME NEW i \in DOMAIN todo, NEW j \in DOMAIN todo,
             results[i].ok, results[j].ok, results[i].email = results[j].email
      PROVE  i = j
  <2>1. ~(i < j) /\ ~(j < i) /\ i \in Nat /\ j \in Nat
    BY <1>1, <1>5, <1>6
  <2> QED
    BY <2>1
<1>7. results \in Seq(Accounts!Result)
  <2>1. results = [i \in DOMAIN results |-> results[i]]
    BY DEF results, Accounts!Decided
  <2> QED
    BY <1>1, <1>2, <1>4, <2>1
<1> QED
  BY <1>2, <1>4, <1>6, <1>7 DEF results

LEMMA bulkHolds ==
    ASSUME Accounts!AccountsInv, Accounts!bulk_create_users
    PROVE  Accounts!AccountsInv'
<1> DEFINE existing == {e \in Emails : users[e] # None}
           results == Accounts!Decided(call.users, call.default, existing)
<1>1. /\ UNCHANGED <<rows, common, grid, result, made, hidden, userSlips>>
      /\ call # None /\ call.step = "sent"
      /\ call' = [call EXCEPT !.step = "read", !.existing = existing, !.results = results]
  BY DEF Accounts!bulk_create_users
<1>2. call \in Accounts!Call /\ Accounts!Pending
  BY <1>1 DEF Accounts!AccountsInv, Accounts!Pending
<1>3. /\ call.users \in Seq(Accounts!Row) /\ call.default \in {Accounts!Blank, "first", "second"}
      /\ \A i \in DOMAIN call.users : call.users[i].email \in Emails
  BY <1>2 DEF Accounts!Call, Accounts!Pending
<1>4. /\ results \in Seq(Accounts!Result) /\ DOMAIN results = DOMAIN call.users
      /\ \A i \in DOMAIN results : results[i].ok => Accounts!Rightly(call.users[i], results[i], call.default)
      /\ \A i, j \in DOMAIN results :
            (results[i].ok /\ results[j].ok /\ results[i].email = results[j].email) => i = j
  BY <1>3, DecidesRightly
<1> HIDE DEF results
<1>5. existing \in SUBSET Emails
  OBVIOUS
<1> HIDE DEF existing
<1>6. /\ call' \in Accounts!Call /\ call'.step = "read" /\ call'.users = call.users
      /\ call'.default = call.default /\ call'.results = results
  BY <1>1, <1>2, <1>4, <1>5 DEF Accounts!Call
<1>7. Accounts!Pending'
  BY <1>1, <1>2, <1>4, <1>6 DEF Accounts!Pending
<1>8. Accounts!Hidden' /\ Accounts!CredentialsTrue'
  BY <1>1 DEF Accounts!AccountsInv, Accounts!Hidden, Accounts!CredentialsTrue
<1> QED
  BY <1>1, <1>7, <1>8 DEF Accounts!AccountsInv
LEMMA CommitHolds ==
    ASSUME Accounts!AccountsInv, Accounts!CommitBulk
    PROVE  Accounts!AccountsInv'
<1> DEFINE results == call.results
           ok == {i \in DOMAIN results : results[i].ok}
           new == {results[i].email : i \in ok}
           At(e) == CHOOSE i \in ok : results[i].email = e
           PasswordOf(e) == results[At(e)].password
           Generated(e) == \E i \in ok : results[i].email = e /\ results[i].generated
<1>1. /\ UNCHANGED <<rows, common, grid, result, userSlips>>
      /\ call # None /\ call.step = "read"
      /\ \/ call' = [call EXCEPT !.step = "failed"] /\ UNCHANGED <<made, hidden>>
         \/ /\ call' = [call EXCEPT !.step = "done"]
            /\ made' = [e \in Emails |-> IF e \in new THEN PasswordOf(e) ELSE None]
            /\ hidden' = hidden \cup {e \in new : Generated(e)}
  BY DEF Accounts!CommitBulk
<1>2. call \in Accounts!Call /\ Accounts!Pending
  BY <1>1 DEF Accounts!AccountsInv, Accounts!Pending
<1>3. result = None /\ result' = None
  BY <1>1 DEF Accounts!AccountsInv
<1>4. "lost" \notin userSlips => hidden = {}
  BY <1>1 DEF Accounts!AccountsInv, Accounts!Hidden
<1>5. /\ results \in Seq(Accounts!Result)
      /\ \A i, j \in DOMAIN results : (results[i].ok /\ results[j].ok /\ results[i].email = results[j].email) => i = j
  BY <1>1, <1>2 DEF Accounts!Call, Accounts!Pending
<1>6. CASE call' = [call EXCEPT !.step = "failed"] /\ UNCHANGED <<made, hidden>>
  <2>1. /\ call' \in Accounts!Call /\ call'.step = "failed" /\ call'.users = call.users
        /\ call'.default = call.default
    BY <1>2, <1>6 DEF Accounts!Call
  <2>2. Accounts!Pending'
    BY <1>1, <1>2, <2>1 DEF Accounts!Pending
  <2>3. Accounts!Hidden' /\ Accounts!CredentialsTrue'
    BY <1>1, <1>3, <1>4, <1>6 DEF Accounts!Hidden, Accounts!CredentialsTrue
  <2> QED
    BY <1>1, <1>3, <2>2, <2>3 DEF Accounts!AccountsInv
<1>7. CASE /\ call' = [call EXCEPT !.step = "done"]
           /\ made' = [e \in Emails |-> IF e \in new THEN PasswordOf(e) ELSE None]
           /\ hidden' = hidden \cup {e \in new : Generated(e)}
  <2>1. /\ call' \in Accounts!Call /\ call'.step = "done" /\ call'.users = call.users
        /\ call'.default = call.default /\ call'.results = results
    BY <1>2, <1>7 DEF Accounts!Call
  <2>2. call' # None
    BY <2>1, AccountsAssumption
  <2>3. ASSUME NEW i \in DOMAIN results, results[i].ok PROVE made'[results[i].email] = results[i].password
    <3>1. results[i] \in Accounts!Result
      BY <1>5
    <3>2. results[i].email \in Emails /\ i \in ok /\ results[i].email \in new
      BY <2>3, <3>1 DEF Accounts!Result
    <3>3. At(results[i].email) \in ok /\ results[At(results[i].email)].email = results[i].email
      BY <3>2
    <3>4. At(results[i].email) = i
      <4> HIDE DEF At
      <4> QED
        BY <1>5, <2>3, <3>3
    <3>5. made'[results[i].email] = PasswordOf(results[i].email)
      <4> HIDE DEF PasswordOf, new
      <4> QED
        BY <1>7, <3>2
    <3> QED
      BY <3>4, <3>5
  <2>4. Accounts!Pending'
    <3> HIDE DEF results
    <3> QED
      BY <1>1, <1>2, <2>1, <2>3 DEF Accounts!Pending, results
  <2>5. "lost" \notin userSlips' => hidden' \subseteq {call'.results[i].email : i \in DOMAIN call'.results}
    BY <1>1, <1>4, <1>7, <2>1
  <2>6. Accounts!Hidden' /\ Accounts!CredentialsTrue'
    BY <1>3, <2>1, <2>2, <2>5 DEF Accounts!Hidden, Accounts!CredentialsTrue
  <2> QED
    BY <1>1, <1>3, <2>4, <2>6 DEF Accounts!AccountsInv
<1> QED
  BY <1>1, <1>6, <1>7

\* What the page tells of an answer, if the form is as it was sent and no row has a password
\* of its own beside a common one.
LEMMA AnsweredHolds ==
    ASSUME Accounts!AccountsInv, Accounts!Answered
    PROVE  Accounts!AccountsInv'
<1>1. /\ UNCHANGED <<rows, common, grid, made, userSlips>>
      /\ call # None /\ call.step = "done" /\ call' = None
      /\ result' = call.results
      /\ hidden' = hidden \ {call.results[i].email : i \in DOMAIN call.results}
  BY DEF Accounts!Answered
<1>2. Accounts!Pending /\ Accounts!Hidden /\ call \in Accounts!Call
  BY <1>1 DEF Accounts!AccountsInv, Accounts!Pending
<1>3. Accounts!Hidden'
  BY <1>1, <1>2 DEF Accounts!Hidden
<1>4. Accounts!CredentialsTrue'
  <2> SUFFICES ASSUME userSlips \cap {"own", "edited", "spaced"} = {}, NEW i \in DOMAIN call.results, call.results[i].ok
               PROVE  \/ made[call.results[i].email] = Accounts!Told(i)'
                      \/ Accounts!Told(i)' = "as given" /\ made[call.results[i].email] = "own"
    BY <1>1 DEF Accounts!CredentialsTrue, Accounts!Listed
  <2> DEFINE row == call.users[i]
             r == call.results[i]
  <2>1. /\ call.default = Accounts!Trimmed(common) /\ call.default \in {Accounts!Blank, common}
        /\ common = Accounts!Blank \/ \A j \in DOMAIN call.users : call.users[j].password = Accounts!Blank
        /\ i \in DOMAIN call.users /\ Accounts!Rightly(row, r, call.default)
        /\ made[r.email] = r.password
    BY <1>1, <1>2 DEF Accounts!Pending
  <2>2. Accounts!Told(i)' = IF r.generated THEN "made up" ELSE IF common # Accounts!Blank THEN common ELSE "as given"
    BY <1>1 DEF Accounts!Told
  <2>3. row.password \in {Accounts!Blank, "own"}
    <3>1. call.users \in Seq(Accounts!Row)
      BY <1>2 DEF Accounts!Call
    <3>2. row \in Accounts!Row
      BY <2>1, <3>1
    <3> HIDE DEF row
    <3> QED
      BY <3>2 DEF Accounts!Row
  <2>4. CASE r.generated
    BY <2>1, <2>2, <2>4 DEF Accounts!Rightly
  <2>5. CASE ~r.generated /\ row.password # Accounts!Blank
    <3>1. common = Accounts!Blank /\ r.password = "own"
      BY <2>1, <2>3, <2>5 DEF Accounts!Rightly, Accounts!Trimmed
    <3> QED
      BY <2>1, <2>2, <2>5, <3>1
  <2>6. CASE ~r.generated /\ row.password = Accounts!Blank
    <3>1. common # Accounts!Blank /\ r.password = common
      BY <2>1, <2>6 DEF Accounts!Rightly
    <3> QED
      BY <2>1, <2>2, <2>6, <3>1
  <2> QED
    BY <2>4, <2>5, <2>6
<1> QED
  BY <1>1, <1>3, <1>4 DEF Accounts!AccountsInv

LEMMA NotAnsweredHolds ==
    ASSUME Accounts!AccountsInv, Accounts!NotAnswered
    PROVE  Accounts!AccountsInv'
<1>1. /\ UNCHANGED <<rows, common, grid, result, made, hidden>>
      /\ call # None /\ call' = None
      /\ userSlips \subseteq userSlips' /\ (call.step = "done" => "lost" \in userSlips')
  BY DEF Accounts!NotAnswered
<1>2. result = None
  BY <1>1 DEF Accounts!AccountsInv
<1>3. Accounts!Hidden' /\ Accounts!CredentialsTrue'
  BY <1>1, <1>2 DEF Accounts!AccountsInv, Accounts!Hidden, Accounts!CredentialsTrue
<1> QED
  BY <1>1, <1>2, <1>3 DEF Accounts!AccountsInv

LEMMA AdministratorsHold ==
    ASSUME Accounts!AccountsInv,
           \/ \E e \in Emails : Accounts!create_user(e) \/ Accounts!delete_user(e) \/ Accounts!update_user(e)
           \/ UNCHANGED userVars
    PROVE  Accounts!AccountsInv'
<1>1. UNCHANGED <<rows, common, grid, call, result, made, userSlips>> /\ hidden' \subseteq hidden
  BY DEF Accounts!create_user, Accounts!delete_user, Accounts!update_user, userVars
<1> QED
  BY <1>1, CallStays DEF Accounts!AccountsInv

LEMMA AccountsStep == Accounts!AccountsInv /\ [Accounts!Next]_userVars => Accounts!AccountsInv'
<1> SUFFICES ASSUME Accounts!AccountsInv, [Accounts!Next]_userVars PROVE Accounts!AccountsInv'
  OBVIOUS
<1>1. CASE Accounts!addRow
  <2>1. /\ UNCHANGED <<common, grid, call, result, made, hidden, userSlips>>
        /\ rows' = Append(rows, Accounts!emptyRow)
    BY <1>1 DEF Accounts!addRow, Accounts!Fill
  <2>2. rows' \in Seq(Accounts!Row)
    BY <2>1 DEF Accounts!AccountsInv, Accounts!emptyRow, Accounts!DraftUser, Accounts!Row
  <2> QED
    BY <2>1, <2>2, CallStays DEF Accounts!AccountsInv
<1> QED
  BY <1>1, RowsHold, GridHolds, importGridHolds, setDefaultPasswordHolds, submitHolds, bulkHolds, CommitHolds,
     AnsweredHolds, NotAnsweredHolds, AdministratorsHold DEF Accounts!Next

LEMMA AccountsMove ==
    [PagesNext]_pagesVars /\ part' = "accounts" => part = "accounts" /\ [Accounts!Next]_userVars
BY DEF PagesNext, pagesVars, userVars

\* The list of credentials tells the passwords the accounts were made with, and no password
\* is left that nobody can know (admin/users/new/page.tsx with bulk_create_users in
\* routers/users.py), for any tables, rows and addresses, and whatever other administrators do
\* meanwhile.  Except for a row with a password of its own beside a common one, a common
\* password typed with spaces around it or edited during the request, and a lost answer.
THEOREM CredentialsHold == PagesSpec => []CredentialsSound
<1> DEFINE Inv == part = "accounts" => Accounts!AccountsInv
<1>1. PagesInit => Inv
  BY AccountsInit DEF PagesInit
<1>2. Inv /\ [PagesNext]_pagesVars => Inv'
  BY AccountsMove, AccountsStep
<1>3. Accounts!AccountsInv => Accounts!CredentialsSound
  BY DEF Accounts!AccountsInv, Accounts!Hidden, Accounts!CredentialsSound, Accounts!PasswordsKnown
<1>4. Inv => CredentialsSound
  BY <1>3 DEF CredentialsSound
<1> QED
  BY <1>1, <1>2, <1>4, PTL DEF PagesSpec

=============================================================================
