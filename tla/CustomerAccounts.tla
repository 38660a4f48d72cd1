-------------------------- MODULE CustomerAccounts --------------------------
(***************************************************************************)
(* The accounts of customers and the kontragenty their orders are booked   *)
(* on: registration with a telephone number, the orders the agent makes by *)
(* telephone number, and the entry from the mini-app of a messenger        *)
(* (app/services/customer_service.py, app/services/miniapp_service.py,     *)
(* app/api/agent.py, app/customer, app/web/admin.py, app/web/trade.py).    *)
(*                                                                         *)
(* Only the number of an account is unique in the database.  A kontragent  *)
(* is looked for by its number and created when there is none; the lock    *)
(* taken then makes the codes of kontragenty distinct, not their numbers.  *)
(***************************************************************************)
EXTENDS Naturals, Sequences, FiniteSets

CONSTANTS
  Phones,        \* telephone numbers, by their digits
  Users,         \* users of messengers
  AccountRequests,
  Nobody,
  MaxAccounts, MaxKontragenty, MaxPhoneOrders, MaxAccountRequests   \* bounds of the model

ASSUME AccountsAssumption ==
  /\ MaxAccounts \in Nat /\ MaxKontragenty \in Nat
  /\ MaxPhoneOrders \in Nat /\ MaxAccountRequests \in Nat
  /\ Phones \cap Users = {} /\ Nobody \notin AccountRequests

\* A number is kept as it was typed: _normalize_phone leaves a plus alone, and
\* a kontragent entered by hand has its spaces.  A user of a messenger gets a
\* made-up number.
Phone == [of : Phones, form : {"plain", "plus"}]
Typed == [of : Phones, form : {"plain", "plus", "spaced"}]
Synthetic(u) == [of |-> u, form |-> "app"]
Login == Phone \cup {Synthetic(u) : u \in Users}
Plain(d) == [of |-> d, form |-> "plain"]
Variants(d) == {Plain(d), [of |-> d, form |-> "plus"]}

VARIABLES
  accounts,      \* customers by id: the number, and the kontragent or 0
  nextAccount,   \* the id of the next one
  kontragenty,   \* the numbers of kontragenty, by id
  bindings,      \* customer_bindings: users and the accounts they are bound to
  codeLock,      \* the request that holds the advisory lock of codes
  phoneOrders,   \* orders made by telephone number
  accountReq,    \* what requests are doing, and what they remember
  entries,       \* history: the accounts users have been let in to
  touched,       \* history: numbers registered, deleted or entered by hand
  accountBegun   \* requests so far

accountVars == <<accounts, nextAccount, kontragenty, bindings, codeLock, phoneOrders, accountReq, entries,
                 touched, accountBegun>>

Account == [phone : Login, kontragent : Nat]
PhoneOrder == [phone : Phones, account : Nat \ {0}, kontragent : Nat \ {0}]
AccountIdle == [pc |-> "idle"]
AccountRequestState ==
  {AccountIdle}
  \cup [pc : {"register"}, phone : Phone]
  \cup [pc : {"kontragent"}, phone : Phones, account : Nat, linked : Nat]
  \cup [pc : {"code", "create", "link"}, phone : Phones, account : Nat, linked : Nat, kontragent : Nat]
  \cup [pc : {"order"}, phone : Phones, account : Nat, kontragent : Nat]
  \cup [pc : {"account"}, user : Users]
  \cup [pc : {"bind"}, user : Users, account : Nat]

AccountsInit ==
  /\ accounts = <<>> /\ nextAccount = 1
  /\ kontragenty = <<>>
  /\ bindings = <<>>
  /\ codeLock = Nobody
  /\ phoneOrders = <<>>
  /\ accountReq = [r \in AccountRequests |-> AccountIdle]
  /\ entries = {}
  /\ touched = {}
  /\ accountBegun = 0

-----------------------------------------------------------------------------
\* Accounts and kontragenty with one of these numbers, by id.
AccountsOf(numbers) == {a \in DOMAIN accounts : accounts[a].phone \in numbers}
KontragentyOf(numbers) == {k \in DOMAIN kontragenty : kontragenty[k] \in numbers}

\* What a search over the variants of a number may find in a table: the
\* variants come from a set, in any order, and a variant that two rows have
\* makes the search fail.
Hits(rows) == {i \in DOMAIN rows : \A j \in DOMAIN rows : rows[j] = rows[i] => j = i}
Found(rows) == IF rows = <<>> THEN {0} ELSE Hits(rows)

AccountRows(d) == [a \in AccountsOf(Variants(d)) |-> accounts[a].phone]
KontragentRows(d) == [k \in KontragentyOf(Variants(d)) |-> kontragenty[k]]

\* The account a token names, if it is still there: get_current_customer.
Signed(token) == token \in DOMAIN accounts

BeginRequest(r, s) ==
  /\ accountReq[r] = AccountIdle
  /\ accountBegun < MaxAccountRequests /\ accountBegun' = accountBegun + 1
  /\ accountReq' = [accountReq EXCEPT ![r] = s]

Become(r, s) == accountReq' = [accountReq EXCEPT ![r] = s] /\ UNCHANGED accountBegun

\* A row is inserted into customers, unless the number is taken.
InsertAccount(phone, kontragent) ==
  /\ AccountsOf({phone}) = {}
  /\ nextAccount <= MaxAccounts
  /\ accounts' = [a \in DOMAIN accounts \cup {nextAccount} |->
                    IF a = nextAccount THEN [phone |-> phone, kontragent |-> kontragent] ELSE accounts[a]]
  /\ nextAccount' = nextAccount + 1

\* A request fails or is cut off: its transaction is rolled back.
FailAccountRequest(r) ==
  /\ accountReq[r] # AccountIdle
  /\ Become(r, AccountIdle)
  /\ codeLock' = IF codeLock = r THEN Nobody ELSE codeLock
  /\ UNCHANGED <<accounts, nextAccount, kontragenty, bindings, phoneOrders, entries, touched>>

-----------------------------------------------------------------------------
\* register: the number is looked for as it was typed.
BeginRegister(r, phone) ==
  /\ AccountsOf({phone}) = {}
  /\ BeginRequest(r, [pc |-> "register", phone |-> phone])
  /\ UNCHANGED <<accounts, nextAccount, kontragenty, bindings, codeLock, phoneOrders, entries, touched>>

FinishRegister(r) ==
  /\ accountReq[r].pc = "register"
  /\ InsertAccount(accountReq[r].phone, 0)
  /\ Become(r, AccountIdle)
  /\ touched' = touched \cup {accountReq[r].phone.of}
  /\ UNCHANGED <<kontragenty, bindings, codeLock, phoneOrders, entries>>

-----------------------------------------------------------------------------
\* create_order begins with resolve_customer_by_phone, which looks for the
\* account and then for the kontragent.
BeginOrder(r, d) ==
  /\ \E a \in Found(AccountRows(d)) :
       BeginRequest(r, [pc |-> "kontragent", phone |-> d, account |-> a,
                 linked |-> IF a = 0 THEN 0 ELSE accounts[a].kontragent])
  /\ UNCHANGED <<accounts, nextAccount, kontragenty, bindings, codeLock, phoneOrders, entries, touched>>

FindKontragent(r) ==
  /\ accountReq[r].pc = "kontragent"
  /\ \E k \in Found(KontragentRows(accountReq[r].phone)) :
       Become(r, [pc |-> IF k = 0 THEN "code" ELSE "link", phone |-> accountReq[r].phone,
                  account |-> accountReq[r].account, linked |-> accountReq[r].linked, kontragent |-> k])
  /\ UNCHANGED <<accounts, nextAccount, kontragenty, bindings, codeLock, phoneOrders, entries, touched>>

\* next_kontragent_code: the lock is held until the transaction ends.
NextCode(r) ==
  /\ accountReq[r].pc = "code"
  /\ codeLock = Nobody /\ codeLock' = r
  /\ Become(r, [accountReq[r] EXCEPT !.pc = "create"])
  /\ UNCHANGED <<accounts, nextAccount, kontragenty, bindings, phoneOrders, entries, touched>>

\* Mutant of LinkAccount: an account that is there is left as it is, and one
\* that is not is created whether the number is taken or not.
LinkAnyAccount(s, k) ==
  \/ /\ s.account = 0
     /\ nextAccount <= MaxAccounts
     /\ accounts' = [a \in DOMAIN accounts \cup {nextAccount} |->
                       IF a = nextAccount THEN [phone |-> Plain(s.phone), kontragent |-> k] ELSE accounts[a]]
     /\ nextAccount' = nextAccount + 1
  \/ /\ s.account # 0
     /\ UNCHANGED <<accounts, nextAccount>>

\* The account, found or new, is linked to k.
LinkAccount(s, k) ==
  \/ /\ s.account = 0
     /\ InsertAccount(Plain(s.phone), k)
  \/ /\ s.account # 0 /\ s.linked # k
     /\ s.account \in DOMAIN accounts
     /\ accounts' = [accounts EXCEPT ![s.account].kontragent = k]
     /\ UNCHANGED nextAccount
  \/ /\ s.account # 0 /\ s.linked = k
     /\ UNCHANGED <<accounts, nextAccount>>

AccountOf(s) == IF s.account = 0 THEN nextAccount ELSE s.account

\* resolve_customer_by_phone commits: what is created is created together.
Resolve(r) ==
  LET s == accountReq[r]
      k == IF s.kontragent = 0 THEN Len(kontragenty) + 1 ELSE s.kontragent IN
  /\ s.pc \in {"create", "link"}
  /\ s.pc = "create" => Len(kontragenty) < MaxKontragenty
  /\ LinkAccount(s, k)
  /\ kontragenty' = IF s.pc = "create" THEN Append(kontragenty, Plain(s.phone)) ELSE kontragenty
  /\ codeLock' = IF codeLock = r THEN Nobody ELSE codeLock
  /\ Become(r, [pc |-> "order", phone |-> s.phone, account |-> AccountOf(s), kontragent |-> k])
  /\ UNCHANGED <<bindings, phoneOrders, entries, touched>>

\* The second transaction: the order.
CreateOrder(r) ==
  LET s == accountReq[r] IN
  /\ s.pc = "order"
  /\ Len(phoneOrders) < MaxPhoneOrders
  /\ phoneOrders' = Append(phoneOrders, [phone |-> s.phone, account |-> s.account, kontragent |-> s.kontragent])
  /\ Become(r, AccountIdle)
  /\ UNCHANGED <<accounts, nextAccount, kontragenty, bindings, codeLock, entries, touched>>

-----------------------------------------------------------------------------
\* mini_entry: a bound user is let in; another's account is looked for by the
\* made-up number.
BeginEntry(r, u) ==
  /\ \/ /\ u \in DOMAIN bindings
        /\ entries' = entries \cup {[user |-> u, account |-> bindings[u]]}
        /\ UNCHANGED <<accountReq, accountBegun>>
     \/ /\ u \notin DOMAIN bindings
        /\ BeginRequest(r, [pc |-> "account", user |-> u])
        /\ UNCHANGED entries
  /\ accountReq[r] = AccountIdle
  /\ UNCHANGED <<accounts, nextAccount, kontragenty, bindings, codeLock, phoneOrders, touched>>

FindSynthetic(r) ==
  LET u == accountReq[r].user IN
  /\ accountReq[r].pc = "account"
  /\ \E a \in Found([a \in AccountsOf({Synthetic(u)}) |-> accounts[a].phone]) :
       Become(r, [pc |-> "bind", user |-> u, account |-> a])
  /\ UNCHANGED <<accounts, nextAccount, kontragenty, bindings, codeLock, phoneOrders, entries, touched>>

\* Mutant of Bind: the last to bind a user wins.
BindAnew(r) ==
  LET u == accountReq[r].user IN
  /\ accountReq[r].pc = "bind"
  /\ nextAccount <= MaxAccounts
  /\ accounts' = [a \in DOMAIN accounts \cup {nextAccount} |->
                    IF a = nextAccount THEN [phone |-> Synthetic(u), kontragent |-> 0] ELSE accounts[a]]
  /\ nextAccount' = nextAccount + 1
  /\ bindings' = [v \in DOMAIN bindings \cup {u} |-> IF v = u THEN nextAccount ELSE bindings[v]]
  /\ entries' = entries \cup {[user |-> u, account |-> nextAccount]}
  /\ Become(r, AccountIdle)
  /\ UNCHANGED <<kontragenty, codeLock, phoneOrders, touched>>

\* find_or_create_customer writes.  An account that another request has
\* inserted meanwhile makes the insert, and so the entry, fail; a binding
\* that it has inserted is read again.
Bind(r) ==
  LET u == accountReq[r].user
      a == IF accountReq[r].account = 0 THEN nextAccount ELSE accountReq[r].account IN
  /\ accountReq[r].pc = "bind"
  /\ \/ /\ u \notin DOMAIN bindings
        /\ \/ accountReq[r].account = 0 /\ InsertAccount(Synthetic(u), 0)
           \/ accountReq[r].account \in DOMAIN accounts /\ UNCHANGED <<accounts, nextAccount>>
        /\ bindings' = [v \in DOMAIN bindings \cup {u} |-> IF v = u THEN a ELSE bindings[v]]
        /\ entries' = entries \cup {[user |-> u, account |-> a]}
     \/ /\ u \in DOMAIN bindings /\ accountReq[r].account # 0
        /\ entries' = entries \cup {[user |-> u, account |-> bindings[u]]}
        /\ UNCHANGED <<accounts, nextAccount, bindings>>
  /\ Become(r, AccountIdle)
  /\ UNCHANGED <<kontragenty, codeLock, phoneOrders, touched>>

-----------------------------------------------------------------------------
\* admin_delete_customer: the database keeps an account a binding refers to.
AdminDeleteCustomer(a) ==
  /\ Signed(a)
  /\ \A u \in DOMAIN bindings : bindings[u] # a
  /\ accounts' = [b \in DOMAIN accounts \ {a} |-> accounts[b]]
  /\ touched' = touched \cup {accounts[a].phone.of}
  /\ UNCHANGED <<nextAccount, kontragenty, bindings, codeLock, phoneOrders, accountReq, entries, accountBegun>>

\* The kontragenty page: the number is kept as typed.
CreateKontragent(number) ==
  /\ codeLock = Nobody
  /\ Len(kontragenty) < MaxKontragenty
  /\ kontragenty' = Append(kontragenty, number)
  /\ touched' = touched \cup {number.of}
  /\ UNCHANGED <<accounts, nextAccount, bindings, codeLock, phoneOrders, accountReq, entries, accountBegun>>

-----------------------------------------------------------------------------
Routes(r) ==
  \/ \E phone \in Phone : BeginRegister(r, phone)
  \/ FinishRegister(r)
  \/ \E u \in Users : BeginEntry(r, u)
  \/ FindSynthetic(r)
  \/ Bind(r)

AgentCreateOrder(r) ==
  \/ \E d \in Phones : BeginOrder(r, d)
  \/ FindKontragent(r)
  \/ NextCode(r)
  \/ Resolve(r)
  \/ CreateOrder(r)

AccountsNext ==
  \/ \E r \in AccountRequests : Routes(r) \/ AgentCreateOrder(r) \/ FailAccountRequest(r)
  \/ \E a \in DOMAIN accounts : AdminDeleteCustomer(a)
  \/ \E number \in Typed : CreateKontragent(number)

AccountsSpec == AccountsInit /\ [][AccountsNext]_accountVars

-----------------------------------------------------------------------------
\* Every variable has its type.
AccountsTypeOK ==
  /\ DOMAIN accounts \subseteq 1 .. nextAccount - 1
  /\ \A a \in DOMAIN accounts : accounts[a] \in Account
  /\ nextAccount \in 1 .. MaxAccounts + 1
  /\ kontragenty \in Seq(Typed) /\ Len(kontragenty) <= MaxKontragenty
  /\ DOMAIN bindings \subseteq Users /\ \A u \in DOMAIN bindings : bindings[u] \in Nat
  /\ codeLock \in AccountRequests \cup {Nobody}
  /\ phoneOrders \in Seq(PhoneOrder) /\ Len(phoneOrders) <= MaxPhoneOrders
  /\ accountReq \in [AccountRequests -> AccountRequestState]
  /\ entries \subseteq [user : Users, account : Nat]
  /\ touched \subseteq Phones \cup Users
  /\ accountBegun \in 0 .. MaxAccountRequests

\* However the first orders from a number race, they go to one account and one
\* kontragent, and leave one kontragent with that number; only a number that
\* was registered, whose account was deleted, or that was entered by hand may
\* get two kontragenty.
OneCustomerPerNumber ==
  \A d \in Phones \ touched :
    /\ Cardinality(KontragentyOf(Variants(d))) <= 1
    /\ \A i, j \in DOMAIN phoneOrders : phoneOrders[i].phone = d /\ phoneOrders[j].phone = d =>
         phoneOrders[i].account = phoneOrders[j].account /\ phoneOrders[i].kontragent = phoneOrders[j].kontragent

\* Every order goes to a kontragent of its number, and, while its account is
\* there, the account has the number too and is linked to a kontragent of it.
OrdersReachTheirNumber ==
  \A i \in DOMAIN phoneOrders :
    /\ phoneOrders[i].kontragent \in KontragentyOf(Variants(phoneOrders[i].phone))
    /\ phoneOrders[i].account \in DOMAIN accounts =>
         /\ phoneOrders[i].account \in AccountsOf(Variants(phoneOrders[i].phone))
         /\ accounts[phoneOrders[i].account].kontragent \in KontragentyOf(Variants(phoneOrders[i].phone))

\* However the first entries of a user race, every entry that succeeds is into
\* the same account, and that account cannot be deleted.
EntriesAgree ==
  \A e, f \in entries :
    /\ e.user = f.user => e.account = f.account
    /\ e.account \in AccountsOf({Synthetic(e.user)})

=============================================================================
