------------------------------ MODULE UserPages ------------------------------
(***************************************************************************)
(* Adding users in bulk (admin/users/new/page.tsx) and one by one            *)
(* (admin/users/page.tsx), with the endpoints of routers/users.py.           *)
(*                                                                          *)
(* The bulk request reads the addresses there are, decides row by row, and   *)
(* commits all rows at once; meanwhile another administrator may create or   *)
(* delete an account.  The passwords the server makes up are in its answer   *)
(* and nowhere else.                                                         *)
(***************************************************************************)
EXTENDS Naturals, Sequences, SequencesExt, FiniteSets, Lists

CONSTANTS
    None,
    Emails,   \* the addresses, in lower case
    Grids,    \* the tables to import
    MaxRows,  \* bound: rows of the form
    MaxSteps  \* bound: changes of the form, imports and changes by others

VARIABLES
    users,  \* users[e]: None, or the password of the account
    rows,   \* rows
    common, \* defaultPassword, as typed
    grid,   \* grid with colMap and hasHeader, or None
    call,   \* the bulk request: None, or its step, body, what it read, what it answers
    result, \* result
    \* to state the properties
    steps,
    made,   \* the passwords of the accounts the last request made
    hidden, \* accounts whose password was made up and whose answer has not arrived
    slips   \* what the page knows better than it tells

userVars == <<users, rows, common, grid, call, result, steps, made, hidden, slips>>

----------------------------------------------------------------------------
(* The form *)

\* What is empty: a field, a cell.
Blank == ""

\* A row: an address or what is none or Blank, written in capitals or not; whether it has
\* a name; its own password or Blank.
DraftUser(email, capitals, named, password) ==
    [email |-> email, capitals |-> capitals, named |-> named, password |-> password]
emptyRow == DraftUser(Blank, FALSE, FALSE, Blank)

\* defaultPassword.trim(): "spaced" is "first" with spaces around it, "spaces" nothing else.
Typed == {"first", "second", "spaced", "spaces"}
Trimmed(password) ==
    CASE password = "spaced" -> "first" [] password = "spaces" -> Blank [] OTHER -> password

IsAddress(row) == row.email \in Emails
validRows(rs) == Kept(rs, {i \in DOMAIN rs : IsAddress(rs[i]) /\ rs[i].named})

Init ==
    /\ users = [e \in Emails |-> None]
    /\ rows = <<emptyRow>> /\ common = Blank /\ grid = None
    /\ call = None /\ result = None
    /\ steps = 0
    /\ made = [e \in Emails |-> None] /\ hidden = {} /\ slips = {}

Filling == result = None
Step    == steps < MaxSteps /\ steps' = steps + 1

\* Also while a request runs: nothing of the form is disabled.
Fill(new) ==
    /\ Filling /\ Step
    /\ rows' = new
    /\ UNCHANGED <<users, common, grid, call, result, made, hidden, slips>>

setRow(i, row) ==
    /\ i \in DOMAIN rows
    /\ rows[i] # row
    /\ Fill([rows EXCEPT ![i] = row])

addRow == Len(rows) < MaxRows /\ Fill(Append(rows, emptyRow))

removeRow(i) ==
    /\ i \in DOMAIN rows
    /\ Fill(IF Len(rows) > 1 THEN RemoveAt(rows, i) ELSE <<emptyRow>>)

setDefaultPassword(password) ==
    /\ Filling /\ Step
    /\ common # password
    /\ common' = password
    /\ slips' = slips \cup (IF call # None THEN {"edited"} ELSE {})
    /\ UNCHANGED <<users, rows, grid, call, result, made, hidden>>

----------------------------------------------------------------------------
(* The import: a table is a sequence of rows of cells.  A cell is an address, a role or
   a "word", or a title ("name:", "email:", "role:", "password:"). *)

headerGuess(cell) ==
    CASE cell = "name:" -> "name" [] cell = "email:" -> "email" [] cell = "role:" -> "role"
      [] cell = "password:" -> "password" [] OTHER -> Blank

\* By its title; or by its first twenty values that are not empty, all addresses or all
\* roles; and the first column left over holds the names, unless one does already.
guessColumns(g) ==
    LET header == [c \in DOMAIN g[1] |-> headerGuess(g[1][c])]
        titled == \E c \in DOMAIN header : header[c] # Blank
        data   == IF titled THEN Tail(g) ELSE g
        values(c) == {data[r][c] : r \in DOMAIN data} \ {Blank}
        guess(c) == IF titled /\ header[c] # Blank THEN header[c]
                    ELSE IF values(c) # {} /\ values(c) \subseteq Emails THEN "email"
                    ELSE IF values(c) # {} /\ values(c) \subseteq {"admin", "candidate"} THEN "role"
                    ELSE Blank
        map    == [c \in DOMAIN header |-> guess(c)]
        free   == {c \in DOMAIN map : map[c] = Blank}
    IN [cells |-> g, hasHeader |-> titled,
        map |-> IF "name" \in Range(map) \/ free = {} THEN map
                ELSE [map EXCEPT ![Min(free)] = "name"]]

loadGrid(g) ==
    /\ Filling /\ Step
    /\ grid' = guessColumns(g)
    /\ UNCHANGED <<users, rows, common, call, result, made, hidden, slips>>

setGrid(g) ==
    /\ Filling /\ Step
    /\ grid # None
    /\ grid # g
    /\ grid' = g
    /\ UNCHANGED <<users, rows, common, call, result, made, hidden, slips>>

\* Of two columns of one field the later counts, where it is not empty; the part before
\* the @ is a name.
ImportedRow(cells) ==
    LET last(field) == LET cs == {c \in DOMAIN grid.map : grid.map[c] = field /\ cells[c] # Blank}
                       IN IF cs = {} THEN Blank ELSE cells[Max(cs)]
    IN DraftUser(last("email"), FALSE, TRUE, IF last("password") = Blank THEN Blank ELSE "own")

importGrid ==
    /\ Filling
    /\ grid # None
    /\ "email" \in Range(grid.map)
    /\ LET data == IF grid.hasHeader THEN Tail(grid.cells) ELSE grid.cells
           read == [i \in DOMAIN data |-> ImportedRow(data[i])]
           imported == Kept(read, {i \in DOMAIN read : IsAddress(read[i])})
           before == Kept(rows, {i \in DOMAIN rows : rows[i].email # Blank \/ rows[i].named})
       IN /\ imported # <<>>
          /\ Len(before) + Len(imported) <= MaxRows
          /\ rows' = before \o imported
    /\ grid' = None
    /\ UNCHANGED <<users, common, call, result, steps, made, hidden, slips>>

----------------------------------------------------------------------------
(* The bulk request *)

submit ==
    /\ Filling /\ call = None
    /\ validRows(rows) # <<>>
    /\ Step
    /\ call' = [step |-> "sent", users |-> validRows(rows), default |-> Trimmed(common),
                existing |-> {}, results |-> <<>>]
    /\ slips' = (slips \ {"own", "edited", "spaced"}) \cup
                  (IF Trimmed(common) \notin {Blank, common} THEN {"spaced"} ELSE {}) \cup
                  (IF common # Blank /\ \E i \in DOMAIN validRows(rows) : validRows(rows)[i].password # Blank
                   THEN {"own"} ELSE {})
    /\ UNCHANGED <<users, rows, common, grid, result, made, hidden>>

\* Row by row: an address that is there, or that an earlier row has, in whatever letters,
\* is refused.  The row's password comes before the common one, and that before one made
\* up.
Decided(todo, default, existing) ==
    [i \in DOMAIN todo |->
        LET row == todo[i]
            password == IF row.password # Blank THEN row.password ELSE default
            ok == row.email \notin existing \cup {todo[j].email : j \in 1..(i - 1)}
        IN [email |-> row.email, ok |-> ok, generated |-> ok /\ password = Blank,
            password |-> IF password = Blank THEN "made up" ELSE password]]

bulk_create_users ==
    /\ call # None /\ call.step = "sent"
    /\ LET existing == {e \in Emails : users[e] # None} IN
       call' = [call EXCEPT !.step = "read", !.existing = existing,
                            !.results = Decided(call.users, call.default, existing)]
    /\ UNCHANGED <<users, rows, common, grid, result, steps, made, hidden, slips>>

\* One transaction, and addresses are unique: all accounts, or none and an error.
CommitBulk ==
    /\ call # None /\ call.step = "read"
    /\ LET ok == {i \in DOMAIN call.results : call.results[i].ok}
           new == {call.results[i].email : i \in ok}
           PasswordOf(e) == call.results[CHOOSE i \in ok : call.results[i].email = e].password
           Generated(e) == \E i \in ok : call.results[i].email = e /\ call.results[i].generated
       IN IF \/ Cardinality(new) < Cardinality(ok)
             \/ \E e \in new : users[e] # None
          THEN /\ call' = [call EXCEPT !.step = "failed"]
               /\ UNCHANGED <<users, made, hidden>>
          ELSE /\ users' = [e \in Emails |-> IF e \in new THEN PasswordOf(e) ELSE users[e]]
               /\ made' = [e \in Emails |-> IF e \in new THEN PasswordOf(e) ELSE None]
               /\ hidden' = hidden \cup {e \in new : Generated(e)}
               /\ call' = [call EXCEPT !.step = "done"]
    /\ UNCHANGED <<rows, common, grid, result, steps, slips>>

Answered ==
    /\ call # None /\ call.step = "done"
    /\ result' = call.results
    /\ hidden' = hidden \ {call.results[i].email : i \in DOMAIN call.results}
    /\ call' = None
    /\ UNCHANGED <<users, rows, common, grid, steps, made, slips>>

\* The request failed or was lost before it came, or its answer is: the page says "failed".
NotAnswered ==
    /\ call # None
    /\ call.step # "read"
    /\ Step
    /\ slips' = slips \cup (IF call.step = "done" THEN {"lost"} ELSE {})
    /\ call' = None
    /\ UNCHANGED <<users, rows, common, grid, result, made, hidden>>

(* Another administrator, with the dialog of the list of users *)

create_user(e) ==
    /\ Step
    /\ users[e] = None
    /\ users' = [users EXCEPT ![e] = "other"]
    /\ UNCHANGED <<rows, common, grid, call, result, made, hidden, slips>>

delete_user(e) ==
    /\ Step
    /\ users[e] # None
    /\ users' = [users EXCEPT ![e] = None]
    /\ hidden' = hidden \ {e}
    /\ UNCHANGED <<rows, common, grid, call, result, made, slips>>

\* The password is sent when one is typed.
update_user(e) ==
    /\ Step
    /\ users[e] \notin {None, "other"}
    /\ users' = [users EXCEPT ![e] = "other"]
    /\ hidden' = hidden \ {e}
    /\ UNCHANGED <<rows, common, grid, call, result, made, slips>>

----------------------------------------------------------------------------
Drafts == [email : Emails, capitals : BOOLEAN, named : {TRUE}, password : {Blank, "own"}]
             \cup {DraftUser("nobody", FALSE, TRUE, Blank)}

Next ==
    \/ \E i \in 1..MaxRows : removeRow(i) \/ \E row \in Drafts : setRow(i, row)
    \/ addRow
    \/ \E password \in Typed : setDefaultPassword(password)
    \/ \E g \in Grids : loadGrid(g)
    \/ grid # None /\ (setGrid(None) \/ setGrid([grid EXCEPT !.hasHeader = ~@]))
    \/ importGrid
    \/ submit \/ bulk_create_users \/ CommitBulk \/ Answered \/ NotAnswered
    \/ \E e \in Emails : create_user(e) \/ delete_user(e) \/ update_user(e)

Spec == Init /\ [][Next]_userVars

----------------------------------------------------------------------------
(* Properties *)

\* Mutant: the refused ones, too.
EveryRow(i) == TRUE
\* The rows the list of credentials has, and the password it tells.
Listed(i) == result[i].ok
Told(i) ==
    IF result[i].generated THEN "made up" ELSE IF common # Blank THEN common ELSE "as given"

\* The list of credentials, which the administrator hands out, has the accounts that were
\* made with the passwords they were made with.  Except that of a row with a password of
\* its own it tells the common one, and the common one as typed, with the spaces around it
\* that are not sent, and as edited while the request ran.
CredentialsTrue ==
    (result # None /\ slips \cap {"own", "edited", "spaced"} = {}) =>
        \A i \in DOMAIN result : Listed(i) =>
            \/ made[result[i].email] = Told(i)
            \/ Told(i) = "as given" /\ made[result[i].email] = "own"

\* Nobody has a password that nobody can know, unless an answer was lost.
PasswordsKnown == (call = None /\ "lost" \notin slips) => hidden = {}

CredentialsSound == CredentialsTrue /\ PasswordsKnown

\* Behind it: what a request carries, what its answer says, and which answer can be open.
Row    == [email : Emails \cup {Blank, "nobody"}, capitals : BOOLEAN, named : BOOLEAN, password : {Blank, "own"}]
Result == [email : Emails, ok : BOOLEAN, generated : BOOLEAN,
           password : {"made up", "own", "first", "second"}]
Call   == [step : {"sent", "read", "done", "failed"}, users : Seq(Row), default : {Blank, "first", "second"},
           existing : SUBSET Emails, results : Seq(Result)]

\* Of the passwords the row's own comes first, then the common one.
Rightly(row, r, default) ==
    CASE r.generated -> r.password = "made up"
      [] ~r.generated /\ row.password # Blank -> r.password = row.password
      [] OTHER -> default # Blank /\ r.password = default

Pending ==
    /\ call \in Call
    /\ \A i \in DOMAIN call.users : call.users[i].email \in Emails
    /\ "edited" \notin slips =>
         /\ call.default = Trimmed(common)
         /\ "spaced" \notin slips => Trimmed(common) \in {Blank, common}
         /\ "own" \notin slips => (common = Blank \/ \A i \in DOMAIN call.users : call.users[i].password = Blank)
    /\ call.step \in {"read", "done"} =>
         /\ DOMAIN call.results = DOMAIN call.users
         /\ \A i \in DOMAIN call.results :
               call.results[i].ok => Rightly(call.users[i], call.results[i], call.default)
         /\ \A i, j \in DOMAIN call.results :
               (call.results[i].ok /\ call.results[j].ok /\ call.results[i].email = call.results[j].email) => i = j
    /\ call.step = "done" =>
         \A i \in DOMAIN call.results : call.results[i].ok => made[call.results[i].email] = call.results[i].password

\* Only an answer on its way holds a password nobody else has.
Hidden ==
    ("lost" \notin slips /\ hidden # {}) =>
        /\ call # None /\ call.step = "done"
        /\ hidden \subseteq {call.results[i].email : i \in DOMAIN call.results}

AccountsInv ==
    /\ rows \in Seq(Row) /\ common \in Typed \cup {Blank}
    /\ grid # None => "cells" \in DOMAIN grid /\ grid.cells \in Grids
    /\ result # None => call = None
    /\ call # None => Pending
    /\ Hidden /\ CredentialsTrue
=============================================================================
