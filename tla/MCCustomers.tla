----------------------------- MODULE MCCustomers -----------------------------
(***************************************************************************)
(* The customers for TLC: one of them with two tabs, a good that goes on   *)
(* sale and one number of five digits left for an order; and the accounts, *)
(* with two requests at a time, one telephone number and one user.         *)
(***************************************************************************)
EXTENDS CustomerCart, CustomerAccounts, TLC

Alike == Permutations(Requests) \cup Permutations(AccountRequests)

MCGoods == {"tea"}
MCRetailPrice == [g \in MCGoods |-> 101]
MCCategoryOf == [g \in MCGoods |-> "food"]

\* Half off the category today, and more than its price off the tea.
MCPromo ==
  << [kind |-> "percent", value |-> 50, good |-> NoOne, category |-> "food", starts |-> NoOne, ends |-> 0],
     [kind |-> "fixed", value |-> 200, good |-> "tea", category |-> NoOne, starts |-> 0, ends |-> NoOne] >>

MCPrefixIB == {"", "UT", "X"}
MCRank == [p \in MCPrefixIB |-> CASE p = "" -> 2 [] p = "UT" -> 0 [] p = "X" -> 1]
MCCustom == {[prefix |-> "X", count |-> 0], [prefix |-> "UT", count |-> 99999]}
MCFirstNumber == [prefix |-> "UT", count |-> 99998]
MCStock == [g \in MCGoods |-> 3]

\* A bound of the model: carts and accounts share no state, and only one of
\* them leaves its initial state in a behaviour.
NoCarts == begun = 0 /\ edits = 0 /\ Len(orders) = 1
NoAccounts == accountBegun = 0 /\ accounts = <<>> /\ kontragenty = <<>>

InitCustomers == Init /\ AccountsInit

SpecCustomers ==
  /\ InitCustomers
  /\ [][\/ NoAccounts /\ Next /\ UNCHANGED accountVars
        \/ NoCarts /\ AccountsNext /\ UNCHANGED vars]_<<vars, accountVars>>

\* A bound of the model: no state is looked beyond that a fourth request and a
\* third new order have led to.
MCFewer == Len(orders) = MaxOrders => begun < MaxRequests

=============================================================================
