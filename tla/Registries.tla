----------------------------- MODULE Registries -----------------------------
(***************************************************************************)
(* Tables of which each row is created, edited and removed by requests of  *)
(* its own: periods, profiles, subcategories, categories, banks, companies,*)
(* news, support requests and cash counts.  Their repositories share two   *)
(* shapes, "look for it, then insert" and "find it, merge, save the whole  *)
(* row", and differ in what refuses a second row and in what removal is.   *)
(***************************************************************************)
EXTENDS Integers, Sequences

CONSTANTS
  Clerks,       \* requests at a time
  Names,        \* what a table calls its rows by
  Notes,        \* contents of the other columns
  Unsaid,       \* a field a request leaves out
  MaxEntries,   \* bound: rows
  MaxOrders     \* bound: requests

ASSUME RegistriesAssumption ==
  Unsaid \notin Names \cup Notes /\ MaxEntries \in Nat /\ MaxOrders \in Nat

VARIABLES
  table,    \* the table this is about
  entry,    \* its rows, by id
  clerk,    \* [Clerks -> what the request does next]
  orders,
  told,     \* history: the rows as the answers given so far make them
  met       \* history: rows and names on which two requests overlapped

registriesVars == <<table, entry, clerk, orders, told, met>>

-----------------------------------------------------------------------------
(* The tables.  looks: creation looks for the row first.  unique: the      *)
(* schema has an index.  edits: there is a PATCH, and reopens: it may name *)
(* is_active.  hidden: a removed row is not found.  removal: "flag" is a   *)
(* column of the row that is saved, "mark" is deleted_at, "drop" a DELETE. *)

\* Closing a period is the only way it changes, and is done once.
FinancialPeriods == [looks |-> TRUE, unique |-> TRUE, edits |-> FALSE, reopens |-> FALSE,
                     hidden |-> TRUE, removal |-> "flag"]
FinancialProfiles == [looks |-> TRUE, unique |-> FALSE, edits |-> TRUE, reopens |-> FALSE,
                      hidden |-> FALSE, removal |-> "drop"]
Subcategories == [looks |-> FALSE, unique |-> TRUE, edits |-> TRUE, reopens |-> TRUE,
                  hidden |-> FALSE, removal |-> "flag"]
CategoryTable == [looks |-> FALSE, unique |-> FALSE, edits |-> TRUE, reopens |-> FALSE,
                  hidden |-> TRUE, removal |-> "flag"]
BankingEntities == [looks |-> FALSE, unique |-> TRUE, edits |-> TRUE, reopens |-> TRUE,
                    hidden |-> FALSE, removal |-> "flag"]
Empresas == [looks |-> FALSE, unique |-> FALSE, edits |-> TRUE, reopens |-> FALSE,
             hidden |-> TRUE, removal |-> "mark"]
NewsItems == [looks |-> FALSE, unique |-> FALSE, edits |-> TRUE, reopens |-> FALSE,
              hidden |-> FALSE, removal |-> "drop"]
SupportRequests == [looks |-> FALSE, unique |-> FALSE, edits |-> TRUE, reopens |-> FALSE,
                    hidden |-> TRUE, removal |-> "mark"]
CashArqueos == [looks |-> FALSE, unique |-> FALSE, edits |-> FALSE, reopens |-> FALSE,
                hidden |-> TRUE, removal |-> "mark"]

Tables == {FinancialPeriods, FinancialProfiles, Subcategories, CategoryTable, BankingEntities,
           Empresas, NewsItems, SupportRequests, CashArqueos}

EntryRow == [name : Names, note : Notes, state : {"live", "removed", "dropped"}]
NoOrder == [at |-> "idle"]
EntryIds == DOMAIN entry
Exists(i) == entry[i].state # "dropped"
Found(i)  == Exists(i) /\ (table.hidden => entry[i].state = "live")
Turn(c, what) == clerk' = [clerk EXCEPT ![c] = what]

Orders(c) == clerk[c] = NoOrder /\ orders < MaxOrders /\ orders' = orders + 1

-----------------------------------------------------------------------------
(* create.                                                                 *)

BeingCreated(c, name) == clerk[c].at \in {"look", "insert"} /\ clerk[c].name = name

OrdersEntry(c, name, note) ==
  /\ Orders(c)
  /\ Turn(c, [at |-> IF table.looks THEN "look" ELSE "insert", name |-> name, note |-> note])
  /\ met' = IF \E o \in Clerks : BeingCreated(o, name) THEN met \cup {name} ELSE met
  /\ UNCHANGED <<table, entry, told>>

LooksForName(c) ==
  /\ clerk[c].at = "look"
  /\ Turn(c, IF \E i \in EntryIds : Exists(i) /\ entry[i].name = clerk[c].name
             THEN NoOrder ELSE [clerk[c] EXCEPT !.at = "insert"])
  /\ UNCHANGED <<table, entry, orders, told, met>>

\* The index counts removed rows too.  Mutation: it does not.
RefusedAmongLive(name, i) ==
  table.unique /\ \E o \in EntryIds \ {i} : entry[o].state = "live" /\ entry[o].name = name
Refused(name, i) ==
  table.unique /\ \E o \in EntryIds \ {i} : Exists(o) /\ entry[o].name = name

\* A table whose PATCH may name is_active lets a creation name it too.
InsertsEntry(c) ==
  /\ clerk[c].at = "insert"
  /\ \E state \in IF table.reopens THEN {"live", "removed"} ELSE {"live"} :
       LET new == [name |-> clerk[c].name, note |-> clerk[c].note, state |-> state] IN
       IF Refused(new.name, 0) \/ Len(entry) = MaxEntries
       THEN UNCHANGED <<entry, told>>
       ELSE entry' = Append(entry, new) /\ told' = Append(told, new)
  /\ Turn(c, NoOrder)
  /\ UNCHANGED <<table, orders, met>>

-----------------------------------------------------------------------------
(* update, remove and close: find, then save.                              *)

Holding(c, i) == clerk[c].at \in {"edit", "remove"} /\ clerk[c].id = i

FindsEntry(c, i, what) ==
  /\ Orders(c) /\ Found(i)
  /\ Turn(c, what)
  /\ met' = IF \E o \in Clerks : Holding(o, i) THEN met \cup {i} ELSE met
  /\ UNCHANGED <<table, entry, told>>

\* What a creation looks for, a user or a month, is not edited.
FindsToEdit(c, i, change) ==
  /\ table.edits /\ (change.active # Unsaid => table.reopens)
  /\ table.looks => change.name = Unsaid
  /\ FindsEntry(c, i, [at |-> "edit", id |-> i, copy |-> entry[i], change |-> change])

FindsToRemove(c, i) ==
  FindsEntry(c, i, [at |-> "remove", id |-> i, copy |-> entry[i]])

Said(value, otherwise) == IF value = Unsaid THEN otherwise ELSE value
Flag(active) == IF active THEN "live" ELSE "removed"

\* Mutation: a PATCH saves the columns it does not name with their defaults.
MergedWithDefaults(copy, change) ==
  [name |-> Said(change.name, copy.name), note |-> Said(change.note, copy.note), state |-> "live"]
MergedEntry(copy, change) ==
  [name |-> Said(change.name, copy.name), note |-> Said(change.note, copy.note),
   state |-> IF change.active = Unsaid THEN copy.state ELSE Flag(change.active)]

\* save of a row that a DELETE took meanwhile inserts it with its id, which the
\* schema generates: it fails.
SavesEdit(c) ==
  /\ clerk[c].at = "edit"
  /\ LET i == clerk[c].id  change == clerk[c].change
         new == MergedEntry(clerk[c].copy, change) IN
     IF ~ Exists(i) \/ Refused(new.name, i)
     THEN UNCHANGED <<entry, told>>
     ELSE /\ entry' = [entry EXCEPT ![i] = new]
          /\ told' = [told EXCEPT ![i].name = Said(change.name, @),
                                  ![i].note = Said(change.note, @),
                                  ![i].state = IF change.active = Unsaid THEN @ ELSE Flag(change.active)]
  /\ Turn(c, NoOrder)
  /\ UNCHANGED <<table, orders, met>>

\* A flag is saved with the whole row that was found, which the index may refuse;
\* softRemove and remove touch no other column.
Cleared(i, copy) ==
  CASE table.removal = "flag" -> [copy EXCEPT !.state = "removed"]
    [] table.removal = "mark" -> [entry[i] EXCEPT !.state = "removed"]
    [] table.removal = "drop" -> [entry[i] EXCEPT !.state = "dropped"]

SavesRemoval(c) ==
  /\ clerk[c].at = "remove"
  /\ LET i == clerk[c].id  new == Cleared(i, clerk[c].copy) IN
     IF table.removal = "flag" /\ Refused(new.name, i)
     THEN UNCHANGED <<entry, told>>
     ELSE /\ entry' = [entry EXCEPT ![i] = new]
          /\ told' = [told EXCEPT ![i].state = new.state]
  /\ Turn(c, NoOrder)
  /\ UNCHANGED <<table, orders, met>>

\* A statement fails, or the client is gone.
OrderFails(c) ==
  /\ clerk[c] # NoOrder
  /\ Turn(c, NoOrder)
  /\ UNCHANGED <<table, entry, orders, told, met>>

-----------------------------------------------------------------------------
RegistriesInit ==
  /\ table \in Tables
  /\ entry = <<>> /\ told = <<>> /\ met = {}
  /\ clerk = [c \in Clerks |-> NoOrder] /\ orders = 0

Change == [name : Names \cup {Unsaid}, note : Notes \cup {Unsaid}, active : BOOLEAN \cup {Unsaid}]

RegistriesNext ==
  \/ \E c \in Clerks, name \in Names, note \in Notes : OrdersEntry(c, name, note)
  \/ \E c \in Clerks, i \in EntryIds, change \in Change : FindsToEdit(c, i, change)
  \/ \E c \in Clerks, i \in EntryIds : FindsToRemove(c, i)
  \/ \E c \in Clerks : \/ LooksForName(c) \/ InsertsEntry(c) \/ SavesEdit(c)
                       \/ SavesRemoval(c) \/ OrderFails(c)

RegistriesSpec == RegistriesInit /\ [][RegistriesNext]_registriesVars

-----------------------------------------------------------------------------
(* Correctness.                                                            *)

RegistriesTypeOK ==
  /\ table \in Tables
  /\ entry \in Seq(EntryRow) /\ told \in Seq(EntryRow) /\ Len(entry) = Len(told)
  /\ \A c \in Clerks : clerk[c].at \in {"idle", "look", "insert", "edit", "remove"}
  /\ orders \in 0 .. MaxOrders

\* A table whose creation looks before it inserts, or that has an index, holds no
\* two rows of one name, whatever was removed, renamed and created again and however
\* creations overlap; where there is no index, a name that two creations overlapped
\* on is the exception.
NoTwins ==
  table.unique \/ table.looks =>
    \A i, j \in EntryIds :
      Exists(i) /\ Exists(j) /\ entry[i].name = entry[j].name =>
        i = j \/ (~ table.unique /\ entry[i].name \in met)

\* What the last answers said holds: unless two requests overlapped on a row, it
\* has the fields its creation and edits gave it, and a removed row stays removed
\* until an edit says otherwise.
LastAnswerHolds ==
  \A i \in EntryIds \ met : entry[i] = told[i]
=============================================================================
