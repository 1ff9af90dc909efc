--------------------------- MODULE Categorization ---------------------------
(***************************************************************************)
(* Automatic categorisation of transactions: what a description becomes    *)
(* when it is normalised, the rules learned from it, and the category a    *)
(* record receives when it is written.  These are the helpers of           *)
(* TransactionRecordRepository that Ledger's actions call.                 *)
(*                                                                         *)
(* A description is a value; what the code tells apart in it is its normal *)
(* form (lower case, blanks collapsed and trimmed) and whether PostgreSQL's*)
(* lower() of the stored text already is that normal form, which it is not *)
(* when the text has repeated or surrounding blanks.                       *)
(***************************************************************************)
CONSTANTS
  None,            \* SQL NULL / undefined
  Categories,      \* categories of the catalogue
  Companies,       \* the user's companies (empresa)
  Descriptions,    \* texts a record may carry
  NormalForms,     \* non-empty normalised texts, the keys of the rules
  Norm,            \* [Descriptions -> NormalForms \cup {None}], None when empty
  Spaced,          \* descriptions whose lower() is not their normal form
  CompanyDefault   \* [Companies -> Categories \cup {None}], default_category_id

ASSUME CategorizationAssumption ==
  /\ None \notin Categories
  /\ None \notin Companies
  /\ None \notin NormalForms
  /\ Norm \in [Descriptions -> NormalForms \cup {None}]
  /\ Spaced \subseteq Descriptions
  /\ CompanyDefault \in [Companies -> Categories \cup {None}]

CategoryOrNone == Categories \cup {None}
CompanyOrNone  == Companies \cup {None}

\* finance.transaction_category_rule: one row per (user, normalised text).
Rules == [NormalForms -> CategoryOrNone]

NoRules == [n \in NormalForms |-> None]

\* learnRule / upsertRule: an empty normal form teaches nothing, any other
\* replaces the rule of that text.
Learn(rules, description, category) ==
  IF Norm[description] = None \/ category = None
  THEN rules
  ELSE [rules EXCEPT ![Norm[description]] = category]

\* applyAutoCategory: an explicit category wins; otherwise the learned rule of
\* the normalised description, None when there is none.
AutoCategory(rules, explicit, description) ==
  IF explicit # None THEN explicit
  ELSE IF Norm[description] = None THEN None
  ELSE rules[Norm[description]]

\* The fallback every writer applies next: a record still without category
\* takes its company's default one.
WithCompanyDefault(category, company) ==
  IF category = None /\ company # None
  THEN CompanyDefault[company]
  ELSE category

Categorize(rules, explicit, description, company) ==
  WithCompanyDefault(AutoCategory(rules, explicit, description), company)

ReviewStatus(category) == IF category = None THEN "pending" ELSE "categorized"

\* The rows apply_to_similar's UPDATE selects for a description: those whose
\* lower() equals the normal form.
SameText(description, other) ==
  /\ other \notin Spaced
  /\ Norm[other] = Norm[description]

=============================================================================
