------------------------------- MODULE ListAdmin -------------------------------
(***************************************************************************)
(* The manual black and white lists and the requests that edit them:       *)
(* create, update, delete and the import of a file                         *)
(* (platform/app/routers/list.py), the tools of the MCP server that add    *)
(* entries through them (platform/mcp_server.py), and confirm_whitelist    *)
(* (platform/app/routers/ai.py), which adds one past the check of the      *)
(* others.                                                                 *)
(*                                                                         *)
(* Requests are threads: an update reads the row, checks what the row will *)
(* be and writes in a second transaction; a tool looks for the entry in    *)
(* one request and creates it in another; confirm_whitelist looks before   *)
(* its transaction has begun.  The import reads the table and writes in a  *)
(* second transaction too, but its handler is a coroutine that waits for   *)
(* nothing in between: imports are one after the other.                    *)
(*                                                                         *)
(* by and mixed are not in the program: they say who a row is of, and      *)
(* whether an update checked a row that was no longer what it wrote on.    *)
(***************************************************************************)
EXTENDS DomainMatching, FiniteSets

CONSTANTS
    Typed,          \* entries that are typed: list, target and text
    Confirmed,      \* domains that are put on the whitelist as false positives
    Names,          \* names that clients ask for
    Requests,       \* threads of create, update, delete and confirm_whitelist
    Tools,          \* sessions of the MCP server
    ToolFaults,     \* "api": the platform may fail to answer a tool
    MaxRows,        \* bound: rows ever inserted
    MaxBusy         \* bound: requests under way at a time

ASSUME TypedAssumption ==
    /\ Typed \subseteq [list : {"blacklist", "whitelist"}, target : {"domain", "ip"}, value : Texts]
    /\ Names \subseteq Seq(Labels)
\* A part of the path of the request, which has no slash.
ASSUME ConfirmedAssumption == Confirmed \subseteq {t \in Texts : ~t.scheme}
ASSUME ThreadAssumption == Requests \cap Tools = {}

VARIABLES
    filter_list,    \* the table: a sequence of rows, by their id
    request,        \* what each thread and tool is doing
    import          \* the import under way

adminVars == <<filter_list, request, import>>

Stored == {n \in DOMAIN filter_list : filter_list[n].here}
Key(e) == [e EXCEPT !.value = KeyOf(@)]

NoEntry == CHOOSE e \in Typed : TRUE
Row(e, by) == [entry |-> e, by |-> by, mixed |-> FALSE, here |-> TRUE]
Deleted == [entry |-> NoEntry, by |-> "hand", mixed |-> FALSE, here |-> FALSE]

Free == [doing |-> "nothing", id |-> 0, old |-> NoEntry, new |-> NoEntry]
NoImport == [doing |-> FALSE, new |-> {}]

Busy == {r \in Requests \union Tools : request[r].doing # "nothing"}
CanStart ==
    Cardinality(Busy) + (IF import.doing THEN 1 ELSE 0) < MaxBusy

Init ==
    /\ filter_list = <<>>
    /\ request = [r \in Requests \union Tools |-> Free]
    /\ import = NoImport

-----------------------------------------------------------------------------

BugNeverStrict(e, strict) ==
    LET info == classify_entry(e.target, e.value)
    IN  \/ info.risk # "blocked"
        \/ Wildcard(e.value) /\ info.level = "tld"

\* _validate: what is blocked is refused, a wildcard of a public suffix only
\* in an import.
validate(e, strict) ==
    LET info == classify_entry(e.target, e.value)
    IN  \/ info.risk # "blocked"
        \/ ~strict /\ Wildcard(e.value) /\ info.level = "tld"

Insert(rows) == filter_list' = filter_list \o rows

create_item(e) ==
    /\ validate(e, FALSE)
    /\ Len(filter_list) < MaxRows
    /\ Insert(<<Row(e, "hand")>>)
    /\ UNCHANGED <<request, import>>

BugChecksOldTarget(r, id, new) ==   \* the new text as an entry of the old type
    /\ request[r].doing = "nothing"
    /\ id \in Stored
    /\ new # filter_list[id].entry
    /\ validate([new EXCEPT !.target = filter_list[id].entry.target], FALSE)
    /\ request' = [request EXCEPT ![r] =
          [doing |-> "update", id |-> id, old |-> filter_list[id].entry, new |-> new]]
    /\ UNCHANGED <<filter_list, import>>

\* update_item: the row is read, and what it is to become is checked.
UpdateRead(r, id, new) ==
    /\ request[r].doing = "nothing"
    /\ id \in Stored
    /\ new # filter_list[id].entry
    /\ validate(new, FALSE)
    /\ request' = [request EXCEPT ![r] =
          [doing |-> "update", id |-> id, old |-> filter_list[id].entry, new |-> new]]
    /\ UNCHANGED <<filter_list, import>>

\* Only the fields that differ from what was read are written.
UpdateWrite(r) ==
    LET u == request[r]
        row == filter_list[u.id]
        Merged == [f \in DOMAIN u.new |-> IF u.new[f] # u.old[f] THEN u.new[f]
                                          ELSE row.entry[f]]
    IN  /\ u.doing = "update"
        /\ request' = [request EXCEPT ![r] = Free]
        /\ filter_list' = [filter_list EXCEPT ![u.id] =
              IF row.here THEN [entry |-> Merged, by |-> "hand", here |-> TRUE,
                                mixed |-> row.mixed \/ row.entry # u.old]
              ELSE Deleted]
        /\ UNCHANGED import

delete_item(id) ==
    /\ id \in Stored
    /\ filter_list' = [filter_list EXCEPT ![id] = Deleted]
    /\ UNCHANGED <<request, import>>

-----------------------------------------------------------------------------
(* import_items                                                            *)

\* The lines that are sound, of each key the first.
Merge(file) ==
    LET sound == {n \in DOMAIN file : validate(file[n], TRUE)}
    IN  {file[n] : n \in {k \in sound : \A m \in sound : m < k => Key(file[m]) # Key(file[k])}}

BugExactDuplicates(file) ==     \* compares the texts as they are typed
    /\ ~import.doing
    /\ import' = [doing |-> TRUE,
                  new |-> {e \in Merge(file) : \A n \in Stored : filter_list[n].entry # e}]
    /\ UNCHANGED <<filter_list, request>>

\* Refused lines and repeated ones are left out, then those that the table
\* already has.
ImportRead(file) ==
    /\ ~import.doing
    /\ import' = [doing |-> TRUE,
                  new |-> {e \in Merge(file) : \A n \in Stored : Key(filter_list[n].entry) # Key(e)}]
    /\ UNCHANGED <<filter_list, request>>

ImportWrite ==
    /\ import.doing
    /\ Len(filter_list) + Cardinality(import.new) <= MaxRows
    /\ Insert(SetToSeq({Row(e, "import") : e \in import.new}))
    /\ import' = NoImport
    /\ UNCHANGED request

-----------------------------------------------------------------------------
(* whitelist_add and blacklist_add of the MCP server, with allow_write and *)
(* a confirmed call.                                                       *)

\* _find_exact_entry: an error of the platform counts as "not there".
ToolFind(t, e) ==
    /\ request[t].doing = "nothing"
    /\ \/ \A n \in Stored : Key(filter_list[n].entry) # Key(e)
       \/ "api" \in ToolFaults
    /\ request' = [request EXCEPT ![t] = [Free EXCEPT !.doing = "create", !.new = e]]
    /\ UNCHANGED <<filter_list, import>>

\* The answer may be lost: the agent calls the tool again.
ToolCreate(t) ==
    /\ request[t].doing = "create"
    /\ request' = [request EXCEPT ![t] = Free]
    /\ IF validate(request[t].new, FALSE)
         THEN /\ Len(filter_list) < MaxRows
              /\ Insert(<<Row(request[t].new, "tool")>>)
         ELSE UNCHANGED filter_list
    /\ UNCHANGED import

-----------------------------------------------------------------------------
(* confirm_whitelist, for a domain that the AI takes for a false positive. *)
(* (What it does to the findings: AiFindings.)                             *)

\* strip().lower().rstrip("."): a blank that stands before the last dot stays.
ConfirmedEntry(text) ==
    [list |-> "whitelist", target |-> "domain", value |-> [text EXCEPT !.name = Lower(@)]]

Dotted(text) ==
    \/ Len(text.name) >= 2
    \/ text.star = "*." /\ (text.name # <<>> \/ text.blank)

\* Refused without a dot, or if there is a row with the very same text.
ConfirmLook(r, text) ==
    /\ request[r].doing = "nothing"
    /\ Dotted(text)
    /\ \A n \in Stored : filter_list[n].entry # ConfirmedEntry(text)
    /\ request' = [request EXCEPT ![r] =
          [Free EXCEPT !.doing = "confirm", !.new = ConfirmedEntry(text)]]
    /\ UNCHANGED <<filter_list, import>>

\* The INSERT begins the transaction.  _validate is not called.
ConfirmWrite(r) ==
    /\ request[r].doing = "confirm"
    /\ Len(filter_list) < MaxRows
    /\ Insert(<<Row(request[r].new, "confirm")>>)
    /\ request' = [request EXCEPT ![r] = Free]
    /\ UNCHANGED import

\* What begins in one transaction and ends in another.
Start ==
    \/ \E r \in Requests, id \in Stored, e \in Typed : UpdateRead(r, id, e)
    \/ \E e, f \in Typed : ImportRead(<<e, f>>)
    \/ \E t \in Tools, e \in Typed : ToolFind(t, e)
    \/ \E r \in Requests, text \in Confirmed : ConfirmLook(r, text)

Next ==
    \/ \E e \in Typed : create_item(e)
    \/ CanStart /\ Start
    \/ \E r \in Requests : UpdateWrite(r)
    \/ \E id \in Stored : delete_item(id)
    \/ ImportWrite
    \/ \E t \in Tools : ToolCreate(t)
    \/ \E r \in Requests : ConfirmWrite(r)

Spec == Init /\ [][Next]_adminVars

-----------------------------------------------------------------------------
(* Properties.                                                             *)

Entry(n) == filter_list[n].entry
Matches(name, e) == e.target = "domain" /\ match_domain(name, e.value)

\* What the entrances that check refuse (line 43 of list.py: create, update,
\* import and with them the tools) is in no row of theirs, although an update
\* checks a row that others may change before it writes: only two updates of
\* one row that overlap can bring it there, and confirm_whitelist, which does
\* not check.  An update of such a row does.
RowsAreLegal ==
    \A n \in Stored :
        ~filter_list[n].mixed /\ filter_list[n].by # "confirm" => validate(Entry(n), FALSE)

\* "Refused at every entrance" (line 8 of list.py).
RefusedEverywhere ==
    \A n \in Stored : ~filter_list[n].mixed => validate(Entry(n), FALSE)

\* An import brings no entry that lets through or blocks the names of more
\* than one owner (lines 44-46 of list.py), however its suffix is built.
ImportIsNarrow ==
    \A n \in Stored : filter_list[n].by = "import" =>
        \A a, b \in Names : Matches(a, Entry(n)) /\ Matches(b, Entry(n)) =>
            a = b \/ registrable_domain(Lower(a)) = registrable_domain(Lower(b))

\* No two imports and no two calls of a tool add the same entry, in capitals
\* or not: both look first and write later, and nothing but their order keeps
\* them from both writing.  (Two calls of confirm_whitelist may.)
AddedOnce ==
    \A m, n \in Stored :
        filter_list[m].by = filter_list[n].by /\ filter_list[m].by \in {"import", "tool"}
            /\ Key(Entry(m)) = Key(Entry(n)) => m = n

\* The comment on line 231 of list.py: two texts that differ in capitals only
\* are the same entry.  An import leaves out the second: the first must then
\* be about the same names.
SameEntrySameNames ==
    \A n \in Stored, v \in {e.value : e \in Typed} : KeyOf(v) = KeyOf(Entry(n).value) =>
        \A name \in Names :
            Matches(name, Entry(n)) <=> Matches(name, [Entry(n) EXCEPT !.value = v])

=============================================================================
