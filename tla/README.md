# A TLA+ model of UWU

UWU is a trade accounting system: a FastAPI application over PostgreSQL, with a
shop for outside customers, chat bots and a separate AI agent service. This
directory holds TLA+ modules translated from its source, TLC runs that check
them on small instances, and proofs that TLAPS checks for every instance.

Paths below are relative to the repository. A line number is a line of the
commit the modules were written from.

## The system

One process serves HTTP. A request is a coroutine with its own
`AsyncSession` (`app/core/database.py:27-42`). Three facts about it decide most
of what is hard:

* transactions are READ COMMITTED: a statement sees what was committed when the
  statement began, so two statements of one transaction may see different data;
* `expire_on_commit=False`: what a session has loaded stays in its identity map
  and is never refreshed, and assigning an attribute the value it had when it
  was loaded emits no UPDATE;
* `autoflush=False`: a SELECT does not see what the same session has changed but
  not flushed.

### Components

| Component | State | Operations | Interacts by | Correct when |
| --- | --- | --- | --- | --- |
| Documents and posting (`document_service.py`) | `documents`, `document_items` | create, edit rows, post, unpost, mark for deletion | advisory lock per document; calls the stock register; writes all registers | registers hold the rows of posted documents, once, and nothing else |
| Stock register (`stock_service.py`) | `stock_batches`, `stock_movements`, `reservations` | create a batch, consume batches, register movements, reserve, release | row locks of batches; foreign key of a movement | batches equal the sum of their movements; goods are not consumed twice, nor reserved beyond the book, but in the cases the properties name |
| Accounting (`_apply_accounting`, `_apply_money_and_settlement`) | `accounting_entries`, `money_movements`, `settlement_movements` | entries of a posting, deleted by its cancellation | reads the movements of its own transaction | account 41 equals the movements, to the rounding of the two |
| Buyers' orders (`trade.py`, `zakaz_*`) | an order's `extra["state"]`, its reservations | create, change state, reserve, ship | several transactions per request; calls posting | reserved goods are there; a closed order holds none; an order is sold once |
| Till and cash shifts (`trade.py`, `cash_service.py`) | `cash_shifts` | sell, open, close, report | posting; money movements by date | shifts follow one another; money is counted in one of them |
| Numbering (`next_document_number`) | `documents.number` | next number | advisory lock per kind of document | numbers do not repeat but in the cases the property names |
| Customers, carts, checkout (`customer_service.py`) | `customers`, `carts`, `cart_items`, `kontragenty` | register, log in, add, set, check out, order by phone | creates orders and kontragenty | nothing put into a cart is lost or ordered twice; a number is one customer |
| Mini-app accounts (`miniapp_service.py`) | `customer_bindings` | first entry, later entries | customers | all entries of a user are into one account |
| Promotions and prices (`site_service.py`, `price_service.py`) | promotions, prices by type | find, apply | read by cart and till | the price shown is the price sold |
| Chats (`chat_service.py`, `api/messaging.py`) | chats, messages | receive, reply, read | webhook to the agent, adapters of the bots | one chat per person |
| Bots (`app/bots/`, `web/admin.py`) | `bot_configs`; adapters and their tasks in memory | save and apply, start, stop, poll, deliver | chats; messengers | the bot that runs is the one configured; no other is left running that nothing has cancelled |
| Agent API (`app/api/agent.py`) and agent service (`uwu-ai-agent/`) | unread messages; claims in memory | inbox, reply, mark as read; webhook, polling | HTTP both ways, each may fail | every message answered, once |
| Agent's prompts, tools and keys (`agent_service.py`, `agent_admin.py`) | prompts with versions, tools, API keys | create, new version, activate, switch, seed | keys are checked by the Agent API | a prompt has one active text; a revoked key does nothing more |
| Rate limiter (`core/ratelimit.py`) | times of recent requests | allow | called by log-in | never more than the limit in a window |
| Reports (`report_service.py`) | none | queries | read the registers | agree with the registers |
| Reference books, users, search, images, printed forms, seeding | independent rows, or none | create, read, update, delete | | |

### What is hard in it

* **Stale memory.** Posting re-reads the status under its lock but assigns to the
  object loaded before it; editing and deletion do not lock at all.
* **Locks that cover part of what is read.** `consume_batches` and `reserve` lock
  rows; `_check_stock` and `_rollback_stock` read the same rows without locks.
* **Unflushed changes.** The second line of a document selects batches by
  quantities that its first line has changed in memory only.
* **Requests of several transactions.** Shipping an order is three; the process
  may stop between any two, and a client may repeat the request.
* **Two processes without a shared transaction.** The core and the agent service
  call each other over HTTP; a call may be served and still fail for its sender,
  and the agent keeps what it is working on in memory.
* **Cancelling in any order.** A batch is consumed by several documents, made
  negative, revalued, and each document may be cancelled at any time.
* **Read, then insert.** Carts, chats, kontragenty, shifts and versions of a prompt
  are looked for and created when there is none; a constraint of the database
  stands behind some of them only.
* **Rounding.** A line's amount is quantized with ties to even, columns round ties
  away from zero, quantities have three digits, unit costs four and amounts two.
* **One fact, several registers.** A posting writes stock, money, settlements and
  accounts by separate code, and every report reads another of them.
* **A language model in the loop.** It decides what to call, and again when a call
  has failed, without knowing whether it was served.

PROJECT.json lists these one by one, at their lines, under "hazards".

## The modules

| Module | Models | Checked by | Proved in |
| --- | --- | --- | --- |
| `DocumentLifecycle` | one document's rows, status, total and movements under concurrent requests | `MCDocumentLifecycle` | `DocumentLifecycle_proofs` |
| `AtomicDocument`, `DocumentRefinement` | what that promises, and the mapping onto it | `MCDocumentLifecycle` | `DocumentLifecycle_proofs` |
| `StockLedger` | what a posting and its cancellation compute: batches, movements, costs, account 41 | `MCStockLedger` | `Ledger_proofs` |
| `Books` (extends `StockLedger`) | money, settlements, all accounts; payments | `MCBooks` | `Ledger_proofs` |
| `Reports` (extends `Books`) | every report, as an operator over the registers | `MCBooks` | `Reports_proofs` |
| `CashShifts` (extends `Books`) | the shifts of the cash desks and what they count | `MCBooks` | `Ledger_proofs` |
| `StockConcurrency` | the batches of one good under concurrent transactions with row locks | `MCStockConcurrency` | `StockConcurrency_proofs` |
| `OrderFulfilment` | buyers' orders across the transactions of a request | `MCOrderFulfilment` | `OrderFulfilment_proofs` |
| `SitePrices` | the promotion that applies, the price it leaves | `MCCustomers` | `CustomerCart_proofs` |
| `DocumentNumbering` | the next number of a document | `MCCustomers` | `CustomerCart_proofs` |
| `CustomerCart` (extends both) | carts, checkout, and the site they are filled from | `MCCustomers` | `CustomerCart_proofs` |
| `CustomerAccounts` | accounts, kontragenty, orders by telephone, entries from messengers | `MCCustomers` | `CustomerCart_proofs` |
| `AgentInbox` | customers' messages between the core and the agent service | `MCAgentInbox` | `Messages_proofs` |
| `AgentAdmin` | prompts, tools, keys and the seed of the core's start | `MCAgentTurn` | `Messages_proofs` |
| `AgentTurn` (extends `AgentAdmin`) | the rounds of a turn of the agent and the tools it calls | `MCAgentTurn` | `Messages_proofs` |
| `BotManager` | configuration and adapters of the messengers' bots | `MCConversations` | `Messages_proofs` |
| `Conversations` (extends `BotManager`) | chats and their messages, in and out | `MCConversations` | `Messages_proofs` |
| `FiniteSums` | nothing of the program: lemmas about sums over finite sets | | itself |

`DocumentLifecycle`, `StockLedger`, `StockConcurrency` and `OrderFulfilment` look at
the same postings from four distances, and each says in its header what it leaves
to the others: `DocumentLifecycle` takes the movements as the rows they were made
from; `StockLedger` takes a posting as one step and computes its result;
`StockConcurrency` takes apart the statements of that step that touch shared rows;
`OrderFulfilment` takes a transaction as one step, but for a posting's check of the
stock, and puts several together. Of what `StockLedger` takes as one step, the
document's own rows are guarded by its advisory lock (`OneRegistrarPerDocument`) and
the batches consumed by their row locks (`ConsumesFreshBatches`). Nothing guards the
rest: the check of the stock, an inventory's book quantity and a cancellation's
quantities are read without a lock, and what other transactions make of that is in
`StockConcurrency` (`overwritten`) and `OrderFulfilment` (`cut`), not in `StockLedger`. `AgentInbox` and `AgentTurn` share an
agent in the same way: the first says who takes a message and when, and takes its
turn as one step; the second takes the turn apart.

### DocumentLifecycle

`status`, `rows`, `total`, `moves` are the database; `sess[s]` is what a request
holds: where it is (`pc`), the status and total in its identity map (`mem`,
`tot`) and the rows it has read (`seen`). `lock` is the advisory lock of a
document. `StoreStatus` and `StoreTotal` write only what differs from memory, as
the unit of work does. The actions are the statements between which another
request can act: `LoadDocument`, then `EditRead`/`EditCommit`,
`PostLock`/`PostApply`/`PostCommit`, `UnpostLock`/`UnpostCommit`,
`DeleteSkip`/`DeleteUnpost`/`DeleteCommit`, the early returns (`EditRefuse`,
`PostRefuse`, `UnpostSkip`), the error paths (`PostFail`, `UnpostFail`) and
`Crash` anywhere. Two history variables mark documents whose commit rested on
something that had changed (`stale`) and on which two requests overlapped
(`shared`): the properties hold for all others, and `StaleOnlyIfShared` says
that requests one after the other are never in that case.

`AtomicDocument` is the same document when every request is one step: `Create`,
`Edit`, `Post`, `Unpost`, `Delete`, with the guards a reader of the service would
expect. `DocumentRefinement` maps what the database shows of a document onto it; a
stale one is mapped to a state of which nothing is said any more (`Tear`), so the
refinement says exactly that as long as no commit is stale, the interleaved
statements of posting, editing, cancelling and deleting have the effect of whole
requests one after the other.

### StockLedger

A posting is computed on a record `W` of the transaction's own view: the batches
in memory (`b`), the quantities a SELECT sees (`db`, equal to memory only after a
flush), the movements added (`m`), and whether an error was raised (`ok`). A loop
of the code is a recursive function over its turns: `TakeBatches` is
`consume_batches`, one `TakeStep` for each batch it reaches, for the three cost
methods; a later line may select a batch that an earlier one has emptied in memory,
and take zero from it, as the code does. `ApplyLines` goes over the lines of a
document, `LineStep` takes the branch of its type, and `Revalue` is the loop of a
revaluation. Quantities count thousandths and money ten-thousandths, the scales of
`Numeric(14, 3)` and `Numeric(14, 4)`, so litres and kilograms are in the model; a
quantity may be zero or below, as `schemas/document.py:19` accepts it. Such a line of a
sale consumes nothing and makes a movement of no batch (`MoveNoBatch`), one of an arrival
makes a batch below zero. Rounding is that of the code:
`Quantize` ties to even for `Decimal.quantize`, `Cents` ties away from zero for the
`Numeric(14, 2)` columns. `Total` is the total given with the lines, or the sum of
the lines' amounts, each quantized (`LineAmount`). What a request gives is
taken to have the digits of its column: more of them would stay in a session's memory
(`expire_on_commit=False`) until another session reads the row. `restock` and `method` are constants of the information
base and change at any time. `Rollback` and `RestoreCosts` are `_rollback_stock` and
`_rollback_revaluation`.

### Books, Reports, CashShifts

`Books` adds to a step of `StockLedger` what `_apply_money_and_settlement` and
`_apply_accounting` write: `money`, `settlements`, `entries`, each a sequence of rows
per document, and payments, which touch no stock (`paid`). `SettlementRows`,
`MoneyRows` and `EntryRows` follow the branches of the code by type and subtype, and
`Entry` makes no row of an amount of zero; cancelling deletes all rows of the document (`DeleteMovements`).

`Reports` has an operator for each report of `report_service.py`. Each computes from
what the code selects, with its own filter of dates, statuses and warehouses, and
is not defined by another. The properties compare them: turnover with balances,
batches and the card of the good; six ways of summing sales; the cash book with
the flow of days and the balance; debts with open invoices.

`CashShifts` has `open_shift` in the statements between which another request can
open one (`BeginOpen`, `CheckOpen`, `InsertShift`), `close_shift`, and the window of
days by which a shift counts `money`. `overlapped` and `reclosed` are histories of
the two cases in which shifts overlap.

### StockConcurrency

Every statement that another transaction can come between is an action. A
SELECT ... FOR UPDATE is two: `SelectBatches` finds the rows as they are when it
begins, `LockBatches` waits for them and re-reads them, dropping rows that no
longer qualify, which is what READ COMMITTED does. `ReadTaken`/`GiveBack` and
`ReadIncoming`/`RemoveIncoming` are the two sides of `_rollback_stock`, which
reads without a lock and writes an absolute quantity. `Rollback` undoes a
transaction at any point, so it also stands for errors, deadlock victims and
crashes. `overwritten` marks a batch written over a change made since it was
read; `loose` marks an order that counted a batch whose row it had not locked. Nothing
locks an order: two requests may release and reserve its goods at once
(`FindReservations`, `SelectRows`, `LockAllRows`, `CheckAvailable`, `Reserve`), each
deleting the rows it has found and adding one; `together` marks the orders this has
happened to.

### OrderFulfilment

`sess[s]` is a request between its transactions. `mem` is the order's state in
the identity map (`"unread"` when the handler has not loaded it before it
writes): `StoreDone` sends no UPDATE when memory already says "done". `kept` and
`again` are the histories of the cases in which the code lets a closed order keep
its reservation and an order be sold again, so the two properties say that
there are no other cases. A posting is its lock (`LockSale`), the rows checked one by
one against what is available, without a lock (`CheckRow`), and the consumption (`PostSale`);
between them other requests sell, reserve and write off. `cut` has the goods
of which this, or a write-off, took more than anyone had looked at. The states "new" and "in_work" are one state here. A
return at the till that names an order is left out.

### AgentInbox

The core's side is `status` (`is_read`), `enabled` (`agent_enabled`), `answers`,
and what is on its way in either direction: `hooks`, the webhooks, and `lateReplies`,
replies whose sender has stopped waiting. The agent's side is `claimed` and, for
every worker, its `phase`; a worker is the task of one message's webhook or the
polling loop, which goes through `polled`, the list its last request returned,
however old that list has become. `_process_message` is the actions from `Claim`
to `MarkRead`, and each of its three error paths is an action of its own
(`TakingTurnFails`, `ReplyFails`, `MarkFails`), which keeps or releases the claim as
the code does. A request may fail unserved, served, or served later. `Restart`
loses everything the agent holds. `pardoned`, `manual` and `again` are histories:
`again` collects the messages of which the agent could not know that they were
answered, and `AnsweredOnce` says that no other message is answered twice.

### SitePrices, DocumentNumbering, CustomerCart

`FindPromotion` and `EffectivePrice` are the functions of `site_service.py`, in
hundredths; `NextNumber` is `next_document_number`, a number being a prefix and a
count compared as text (`TextLess`). `CustomerCart` puts them under requests: what a
request holds between its statements is `req[r]`, the rows it has read, the quantity
it will add to, the prefix, the number it has taken under `lock`. A checkout is
`BeginCheckout` (the lines and their prices), `CheckStock`, `ReadRows` (the rows to
delete, read again), `TakeNumber`, `SaveOrder`. `site` is what others change meanwhile:
promotions, what is published, stock, the day. `asked` counts what customers have put
into their carts; `overlapped` collects the pairs of operations that ran at the same
time on one cart, and each property names the pairs that may break it.

### CustomerAccounts

A telephone number is its digits and one of the forms in which it is stored or typed;
`Variants` are the two that the code looks for. `BeginOrder`, `FindKontragent`,
`NextCode` (under its lock), `Resolve` are `resolve_customer_by_phone` statement by
statement, `CreateOrder` what follows; `BeginEntry`, `FindSynthetic`, `Bind` are the
first entry from a messenger, whose account has a synthetic number. `touched` has the
numbers that were registered, deleted or entered by hand.

### AgentAdmin, AgentTurn

`AgentAdmin` is the administrators' desk: an edit reads a prompt (`BeginVersion`) and
adds a version later (`AddPromptVersion`); the core's start seeds what is missing, in
steps between which it may stop (`StartCore` to `SeedApiKey`). `AgentTurn` has, for every
message, the turn's place in its loop (`turn[m].pc`), the rounds left and what the model
of language has seen of its order (`known`). A tool that writes is a request: sent,
verified, served, answered; `LoseRequest` cuts it off at any of these places, and what
had been sent may be served afterwards (`LateRequest`). One message of the model of
language may call several tools (`CallTools`), all of which are executed one after the
other (`turn[m].calls`, `NextCall`), and `asked` has the most orders asked for at once:
the code creates them all. `excused` has the messages of
which the agent could not know that the order was made; `allowed` counts, when the key
is taken away, the requests that had passed the check.

### BotManager, Conversations

`config` is the table, `registered` what `bot_manager` holds, `adapters` every adapter
this life of the core has created and what its task does. A form is
`BeginSave`, `UpsertConfig`, `RefreshConfig`, then `ApplyStart` or `ApplyStop` and
`ShutDown`, as it awaits in between; it may fail before its commit or after it
(`FormFails`, `unapplied`). The adapter a new one replaces is cancelled and neither waited
for nor shut down: it may go on polling, and ends at some time or never
(`CancelledEnds`). `Conversations` has the handlers of messages: a chat
is looked for (`FindChat`), inserted (`InsertChat`, where the constraint of a messenger's
chats waits or fails), and the message stored with it. A handler ends with the core.

## The runs

| Run | Instance | Shows |
| --- | --- | --- |
| `lifecycle` | 2 sessions, 1 document, 2 contents, 2 sets of movements; all four kinds of request | 111 thousand states: the registers follow the document, the atomic document is implemented, every request ends |
| `lifecycle_edit` | the same | an edit changes the rows of a posted document (a violation) |
| `ledger` | 2 warehouses; a purchase with an amount of half a hundredth, two sales, a transfer, two inventories (one names a warehouse twice), a revaluation, a return below zero; lines below zero in a sale and in the transfer; 4 batches, 3 settings | 120 thousand states: the registers of stock agree with each other after every posting and cancellation |
| `ledger_revalue` | a purchase and two revaluations, one of which names its warehouse twice | a cancelled revaluation leaves a cost that was not the batch's (a violation) |
| `books` | a purchase for its owner at a given total, a sale at the till of half a piece, a sale on credit with a line below zero, a return, 2 payments, 2 days; 2 requests about shifts of a cash desk | 26 thousand states: reports agree with each other and accounts with registers, whatever is cancelled; the classes of an ABC analysis; shifts do not count money twice |
| `stock_concurrency` | 2 sessions, 2 arrivals, 1 sale, 1 write-off, 2 orders, 3 rows of reservations | 1.7 million states: what the row locks guarantee, and what they do not |
| `orders` | 2 sessions, 2 orders for one good, 2 sales, 2 units of stock | 1.7 million states: reservations covered, released, an order sold once |
| `customers` | 1 customer in 2 tabs, 4 requests, 1 good, 2 promotions, 2 prefixes, 2 numbers left below 100000, 1 change on the site; 2 requests at a time out of 3 about 1 telephone number in every form it is kept in, and 1 messenger user | 1 million states: nothing lost or ordered twice, prices of the catalogue, numbers distinct; which account and kontragent orders and entries end with |
| `agent_inbox` | 2 messages of a chat, 2 faults | 341 thousand states: one answer, nothing lost, every message read in the end |
| `agent_manual` | the same | polling answers in a chat left to the operator (a violation) |
| `agent_turn` | 2 messages, 3 rounds of tools of up to 2 write requests, 2 faults; 2 administrators, 2 keys, 4 versions | 1.1 million states: orders made once, told of, and only with a valid key; prompts readable |
| `bots` | 1 messenger and the shop, 1 person in each, 2 forms, 2 tokens (one refused), 2 messages at a time | 476 thousand states: the bot configured is the one that runs, no other is left that nothing has cancelled, a person's messages are in one chat |

The bounds. Two sessions are enough for every hazard listed: each is a pair of
requests, one of which acts between two statements of the other; a third would
only repeat one of the two roles, and the proofs of `DocumentLifecycle` and
`StockConcurrency` hold for any number. `MaxPostings` bounds the sets of
movements one document accumulates by stale commits (a consistent document has
one). `MaxBatches` lets the two batches of the purchase meet the batch of a transfer
or of a surplus and a negative batch, with deleted batches counted. `MaxQuantity` bounds what
repeated overwriting can inflate a batch to. `MaxBook` is what lets both orders,
one or none be covered. In `agent_inbox` two messages let the loop hold a list
that has grown old while the webhook of its second message is served, and two
faults let a request fail and the agent restart before what it sent arrives. In `ledger` the quantities make a sale or a transfer
spread over two batches, name the good in two lines, fall short, or leave exactly
the reserve, and prices make an average, a transfer's unit cost and a line's amount round,
the last at half a hundredth. In `stock_concurrency` three rows of reservations let one
order have two, and another one.

In `customers` the numbering begins at 99998, so that the first order made is the last
whose number is greater as text, and prefixes are ranked so that a change of
prefix and a number given by hand can put it below or above. `MaxRows`, `MaxOrders`,
`MaxEdits`, `MaxRequests`, `MaxPhoneOrders` and `MaxAccountRequests` are counted over a whole behaviour: four requests let a
row be added, added to, and checked out twice; three rows let one be emptied and two
additions then meet a cart that is there without the good. A number given by hand may
have the prefix of the information base. The same telephone number is
registered, typed by an operator with spaces, and given to the agent. In `agent_turn`
three rounds let a call fail, be made again and be told of, and `MaxCalls` lets a message
of the model of language ask for two orders, of which one may fail; `MaxVersions` lets two
administrators edit after an earlier version was activated.

Seven bounds restrict which behaviours are looked at, each in its MC module:
`OnlyPayments`/`NoShifts` (`books`) lets shifts be opened only while no goods are
posted, since a shift depends on what money there is; `SpecTurns` (`agent_turn`)
has the core start and stop, and prompts and tools edited, only before the first message,
as nothing the agent does reads them (the theorems are about `Spec`, without that
bound), while its key may be taken away at any time; `MCOneByOne` (`agent_turn`) leaves
off when two write requests at once have been made for one message and the other has
begun too, as messages share nothing but the core; `MCApart` (`bots`) lets
forms and messages take turns; `SpecCustomers` (`customers`) begins either the carts or the
accounts of a behaviour, which share no state (again the theorems do without);
`MCFewer` (`customers`) leaves off when a fourth request has been made and a third order
made as well, and `MCNotAll` (`orders`) when one order may be sold again and goods were
taken without regard to reservations: what each of the two lets happen is looked at
without the other. `MaxAdapters` is counted in each life of the core.

Deadlock is checked in every run but `customers`, `books`, `agent_turn` and
`bots`, in which the counted bounds are used up at some point and nothing is left to
do.

Fairness. Only `RequestsFinish` and `EveryMessageHandled` need it.

For the first, `RunsOn` is weakly fair: asyncio resumes every task whose statement
has returned. `WaitsForLock` is strongly fair: PostgreSQL queues the waiters of an
advisory lock, so one that is repeatedly free is eventually given to each of
them. Nothing is assumed of clients, and `Crash` is never required to happen.

For the second, the polling loop never ends, and a turn and a request end one way
or another, since the language model and the HTTP client have timeouts. No
webhook has to arrive, no operator to look, no late reply to be stored. Faults are
bounded by `MaxInboxFaults`: what is shown is that messages are handled once the
failures stop.

Each property is also run against a version of one definition changed the way a
plausible mistake would (the operators commented "Mutant" beside the
definition they vary); TLC finds each of them violated.

Several properties have the form "unless": `stale`, `loose`, `overwritten`, `together`,
`again`, `kept`, `cut`, `overlapped`, `reclosed`, `touched`, `raced`, `unapplied`, `excused`,
`exhausted`, `pardoned`, `tangled` are histories of the
exact circumstances in which the code lets the property fail, and the property says
that there are no others. Each of those circumstances is reached in its run. Such a
property does not catch the circumstance itself: a second sale of an order by a repeated
or resumed request, a reservation that the till or a crash leaves, a stuck claim,
the races of two requests of one cart, two openings of a shift, two first messages of
a site's customer, a number repeated past 99999. The code lets these happen, and
the hazards of PROJECT.json say so in their notes; what is shown is that the rest of
the code adds nothing to them.

## Where the code and its texts disagree

Three of these are runs that expect a violation:

* `lifecycle_edit`: `app/web/trade.py:1655` and `document_service.py:267` refuse to
  edit a posted document, but look at the copy loaded before; nothing is locked.
  Edit loads, posting commits, edit commits.
* `agent_manual`: `app/models/messaging.py:41-42` says that the operator switches the
  agent off to answer by hand; only the webhook looks at the switch.
* `ledger_revalue`: `document_service.py:541-542` saves the former costs "for a correct
  cancellation", and 594 restores them; the log has a record per line and is gone
  through in the order in which it was made (596-599). Of two lines of one warehouse the
  second has recorded the cost set by the first, which is what remains. Two revaluations
  of one warehouse, the earlier cancelled first, end the same way.

The others are seen in the exceptions the properties name, or in the models alone:

* `document_service.py:857-859` promises that a cancellation restores the batches
  exactly; the quantity it adds to (870) was read without a lock, and a concurrent
  posting's is overwritten (`overwritten` of `StockConcurrency`).
* the same text, and `_rollback_stock` under it: an inventory that counts a warehouse
  twice may bring a batch in for its first line and take from it for the second; the
  movements are undone in the order they were made, so the first asks for all of the
  batch (885) and the document cannot be cancelled, although nothing came after it
  (`TakesItsOwn` of `StockLedger`).
* `stock_service.py:279-287` locks batches so that two reservations do not both find the
  goods available; nothing locks the order, so two clicks reserve it twice (`together` of
  `StockConcurrency`), and nothing locks what `_check_stock` has read, so two sales may
  leave less than is reserved (`cut` of `OrderFulfilment`).
* `app/bots/service.py:53-59`: a bot that is replaced is cancelled without
  `adapter.shutdown()`, unlike one that is stopped (61-76), and may poll beside the new one.
* `docs/customer.md:8` describes "reserve, then ship"; shipping counts the order's
  own reservation as someone else's (`_check_stock`, 389), so an order that has
  reserved all there is cannot be shipped.
* `trade.py:1251` says that a completed order's reservation is released; `rmk_sell`
  (1125) completes it and does not (`kept` of `OrderFulfilment`).
* `uwu-ai-agent/app/main.py:42-43` says that a claim is released on failure; when there
  is no answer, `mark_inbox_read` (91) may raise with the claim in place, and polling
  passes the message over until the agent restarts.
* `cash_service.py:31-32`: two requests open two shifts of one desk (`overlapped` of
  `CashShifts`). A sale at the till names no cash desk (`trade.py:1105-1117`), so the
  shift of a desk, which counts the money of its desk (`cash_service.py:72-73`), does not
  have it.
* `document_service.py:90-92`: "so that no duplicates arise"; the greatest number is the
  greatest text, and past 99999, after a prefix that sorts lower, or beside a number
  given by hand, the next number is one there is already.
* `customer_service.py:446-468` looks for a kontragent with `scalar_one_or_none` and
  creates one when there is none, outside any lock that covers both: once a number has
  two kontragenty, every later order from it fails.
* `miniapp_service.py:158-159` speaks of re-reading instead of failing when two first
  entries race; the first of the two inserts is flushed at 153, outside the `try`.
* `docs/ai-agent.md:191`: exactly one version of a prompt is active; the number of a new
  version follows the active one, not the last, and after a return to an earlier
  version, or for two administrators at once, two versions have the same number
  (`tangled` of `AgentAdmin`) and `GET /prompts` fails.
* `docs/ai-agent.md:166-167` and `203-204`: the agent loads its prompts, and gets only
  the enabled tools; nothing in `uwu-ai-agent` reads either, so `AgentTurn` reads
  nothing of `AgentAdmin` but the key. The `rate_limit` of a tool is stored and never
  compared with anything. A deleted key of `AGENT_API_KEY` is created again when the
  core next starts.
* A site's customer may get two chats by sending two first messages at once, and is
  then shown either, as `first()` is asked for without an order
  (`chat_service.py:36-40`).

## The proofs

The proofs are about every instance: any sets of sessions, documents, customers,
messages and so on, any quantities and any of the bounds, from the assumptions each
module names for its constants. None of the properties is inductive by itself; what
has to be added is in each case what the code relies on without saying it. The
invariants were tried with TLC on the instances of the runs before they were proved;
each is kept action by action, with a lemma for each action or kind of step.

`DocumentLifecycle_proofs` proves six safety properties from `LifecycleAssumption`
alone (the null values are not members). That a posting's commit finds the registers
empty depends on the lock it took some steps before, so the invariant adds that a
session inside a locked section holds the lock and has read what the database says, or
that the document is already marked as stale or shared; the action property
`DeletedIsFinal` follows from the same invariant. `LifecycleImplementsDocument` is the
refinement: the commit of a request maps to the operation of its name, one that makes
its document stale to `Tear`, and every other step to a stutter. It adds to the invariant
that a posting has rows and that a cancellation's document is posted, unless it is stale
(`RegistrarsReady`).

`StockConcurrency_proofs` has six results, from `StockAssumption` (a database has
finitely many documents and orders). `TypeOK`, `ConsumesFreshBatches` and
`MovementsHaveBatches` rest on `PhasesNameDocuments` (a session in a phase is working on
a document of the kind the phase is for), `PostedHaveRows` (an arrival that is posted
still has its batch) and `SnapshotsExist` (the rows a transaction has locked exist).
Those are what makes deletion of a batch harmless: it needs the row's lock, and the
foreign key. `BatchesConserved` adds that one session at a time is on a document, that
what is being posted has taken nothing yet, and that a cancellation knows every batch its
document took from (`ConservationInv`). `ReservationCovered`, about steps, adds that
a session between counting and reserving holds the rows it counted, so that there is
one such session, be there several of one order, and what it counted is there still
(`ReservationInv`). `ReservedOnce` adds that a request alone with its order knows the row
the order has (`OnceInv`).

`OrderFulfilment_proofs` proves three. `SoldOnce` is about what several
requests have done one after the other; the invariant adds that of the requests
selling one order only one was not counted in `again` (`OneSeller`), that it began
when the order was open and unsold (`SellersReadOpen`, `PendingUnsold`), and that
an order with a posted sale is closed or about to be (`SoldCloses`).
`ClosedOrdersHoldNothing` needs only the types of the order's own fields. For
`ReservationsCovered` the invariant adds that what a posting has seen of a good, row by row,
is still available when it takes it, unless the good is `cut` (`CheckedStill`); the one
row that names the good asks for all there is.

`Messages_proofs` proves, about the inbox, its types and three safety properties, from
`InboxAssumption`. The invariant (`InboxInv`) adds that a message
somebody works on is claimed (`WorkersClaim`), that nobody is about to
reply to an answered message that is not in `again` (`AnsweredIsPast`), and that
such a message is claimed, or nothing is left that would bring it to the agent
(`AnsweredIsTurnedAway`). That the polling loop's message is one of its list
(`FirstIsPolled`) rests on the well-foundedness of the natural numbers.

About the turns it proves the four properties of the run `agent_turn`, for `Spec`.
`AdminInv` is about the desk: versions are numbered in turn and a form knows the last
one, or the prompt is tangled (`NumberedInTurn`, `FormsReadLast`), and a core that is up
has been seeded to the end (`Seeded`). `TurnInv` says for each message that an order the
model of language has seen, or told of, was made, and that it sends no request once it
has seen one (`NothingInvented`); that a request nobody waits for is an excused message's
(`NothingForgotten`); and that the orders of a message not excused, with the requests
under way and still to be made, are no more than it has asked for at once, and are on
their way to the model, seen by it or told (`OrderIsSeen`). `KeyInv` says that while the key
is not valid the requests that had passed its check are no more than `allowed`; that they
are finitely many is part of it.

About bots and chats it proves `RunningMatchesConfig` and `ConversationsStayWhole`.
`BotInv` adds that every task that nothing has cancelled belongs to the registered adapter
or to one that a form is stopping (`EveryTaskIsOwned`), and what each form under way will
make true of its channel, unless one failed after its commit (`OneFormAtATime`); `TalkInv` adds that a person has one chat or
one request that will make it (`OneChatOrRequest`), and that a chat found is its
person's (`OwnChats`).

`CustomerCart_proofs` proves the four properties of the run `customers` about carts, and
`OneRowPerGood`, which no run checks. They share
`CartTypes`, `Overlaps` (two requests of one customer under way are recorded) and
`RowsAreOwn` (the rows a request names are its customer's), and each has an invariant
of its own:

* `OrderedOnce`: rows of an order are gone and their ids are not used again
  (`OrderedRowsGone`); a checkout deletes every row of its lines that is still there
  (`CheckoutsClear`), and sees none of an earlier order's (`CheckoutsApart`);
* `OneRowPerGood`: an addition about to insert has seen no row, and there is none
  (`AddsFirst`);
* `CatalogPriceCharged`: what was read since the last change of the site has the prices
  of now, in orders and in checkouts under way;
* `NumbersDistinct`: the number a checkout has taken is still free when it saves
  (`TakenFresh`), as it holds the lock; that the next number is free in the first place
  is `NextNumberFollows`, from the order of numbers as text;
* `CartConserved`: a request whose cart nobody else touches goes on seeing what the
  cart holds (`SoleSeesCart`), so that what it writes is what it says; the rest is sums.

Numbers given by hand are any (`Custom`): one under the prefix of the information base may
be one there is, as nothing compares them, and the property names it. Promotions are
finitely many.

It also has the accounts, which share its customers. `AccountsInv` is what the three
properties of that run about accounts follow from. `OrderKnows` and `EntryKnows` say what a
request remembers that stays true while it waits: an account it found is still of its
number or deleted, and deleted ones do not come back. `LinksFit` and `OrderFits` say that
accounts and orders lead to a kontragent of their number, `EntriesFit` that a user's
entries go to the account it is bound to. `NumberFits` is about a number nobody has
touched: either it has no account and no kontragent, and whoever orders for it has
found none; or it has one of each, linked to one another, and a request for it has found
both, or began too early and is going to fail at the constraint on the numbers of
accounts. The lock of `NextCode` is not needed for it.

`Ledger_proofs`, and `Reports_proofs` which extends it, are about `StockLedger`, `Books`,
`CashShifts` and `Reports`, for any documents with any number of lines, any warehouses and
settings, from `LedgerAssumption`, `BooksAssumption`, `ReportsAssumption` and
`ShiftsAssumption`: prices and given totals have two digits after the point and quantities
three, of any sign (they are columns of that kind), there are finitely many documents, dated by one of the days there are, and the null value is
none of the things it stands for the absence of.

* A loop is unfolded into a function with a state for every turn (`TakingUnfolds` and
  its like), which has to be shown to exist; what holds at every turn follows by `UpTo`,
  which looks for the first turn where it does not.
* `WorkFits` is what is true of a posting after any of its lines: which batches were
  there and by what they are reduced, which are new, which movements made each, and what
  a SELECT sees of them. It is kept by every way of taking from and bringing in batches,
  and by each branch of a line.
* `LedgerInv` is what is true between postings: the quantity of a batch is what its
  movements add up to (`Consistent`), with the founding movement of every batch still
  there, which is what a cancellation relies on when it deletes a batch; as long as
  nothing was recosted an amount is its quantity at the cost of its batch, rounded
  (`AmountsFit`); account 41 has the amounts of the movements, or is a hundredth off for a
  line of half a hundredth (`AccountFits`, `AccountNear`), which comes from
  comparing the two roundings line by line and summing the differences (`CentsNearby`,
  `SumNearby`). The six properties of
  the run `ledger`, and `InventoryReachesFact`, follow from it. `UnpostRestoresBatches` says exactly which documents
  can be cancelled at once: the ones that took nothing from their own batches; of
  revaluations it is about those that name a warehouse once, which is what the code
  undoes (`RevaluedAtOnce`).
* `TillInv` adds that a document has the rows of money that follow from it or none
  (`MoneyFits`) and that shifts of a desk follow one another unless they were opened at
  once (`ShiftsInv`): `ShiftsCountOnce`. The theorems are about `TillSpec`, in which goods,
  payments and shifts take any turns; the run checks the part of it where shifts are
  opened only while no goods are posted.
* `BooksInv` is `LedgerInv` and that a posted document has exactly the rows of money, of
  settlement and of accounting that follow from it, from its movements and from what its
  revaluation came to (`BooksAre`). For `AccountsMatchRegisters` each side, a sum over rows,
  is turned into a sum over documents (`SumByDocument`), and these are compared document
  by document, type by type (`Agrees`).
* The reports follow from `BooksInv` with no strengthening; what they need is about sums. A
  report is a set of rows grouped by day, warehouse, kontragent or document and summed, and
  the other side of an agreement is grouped otherwise. Each side is brought to one sum over
  the rows of a register, over batches or over documents (`SumByGroup`, `SumOfList`), and the two
  are compared there (`Reports_proofs`): `MoneyReportsHold`, `StockReportsHold`, `SalesReportsHold`. Balances are
  batches while turnover is movements, which is where `Consistent` comes in. A cost on account
  90.2 is dated by its entry and a sale by its document: only sales touch those accounts, and an
  entry has the date of its document. Turnover and balances differ by what lines of zero
  and below moved of no batch (`Unbatched`, `LoneRows`), and the lines of sales come to their
  totals where none was given (`TotalIs`).

`FiniteSums` has the lemmas about `SumFunctionOnSet` that conservation needs: a sum
with one element more, fewer, or changed, of a subset, of other names for the same
elements, by group, of a list. The sum is defined by recursion over subsets; that the recursion has a
solution is proved from the well-foundedness of the strict subsets of a finite set, and
each lemma from a least subset for which it would fail.

`TotalMatchesRows`, `DeletedIsFinal`, `ConsumesFreshBatches`, `OneWorkerPerMessage` and the
type invariants of `DocumentLifecycle`, `StockConcurrency`, `AgentInbox` and
`CustomerCart`, `OneRowPerGood` (two rows of a good come of two overlapping additions only)
and `InventoryReachesFact` (an inventory that counts a warehouse once leaves what was
counted) are proved for every instance and are in no run; the first two are also
parts of what `ImplementsDocument` says. `AccountsTypeOK` is part of `AccountsInv`.
`TypeOK` of `StockLedger` describes its variables and is in no run; `LedgerInv` has what
the proofs need of it.

Every other safety invariant and every action property that a passing run checks is
stated by a theorem. Only model-checked: `RequestsFinish` and `EveryMessageHandled`, as liveness under
fairness is outside the proof system's reach, and `AbcCoversSales`, which says of three
goods whose shares are not within the rounding of a boundary what it would not say of
all: the share is rounded to a hundredth of a per cent before it is compared.

## Not modelled

* Several goods in one document: batches of different goods do not interact
  except by the order of row locks; a deadlock there is broken by PostgreSQL and
  is a `Rollback`. Reports that list goods have one row of them here.
* How VAT is computed: the tax of a document is a given number of its header, which the
  book of purchases and sales shows; no account gets it.
* The ownership of a batch after a transfer: a transfer drops it, and no document
  promises otherwise.
* A document created on the basis of another, price lists, banners, memories the agent
  keeps of a customer: rows written once and read as they are.
* Permissions, parsing of forms, rendering, the signature of a messenger's data: checks
  of one request on its own.
* The rate limiter (`core/ratelimit.py`): one synchronous method under one lock in a
  process of one thread.
* The language model, Telegram and MAX: external; what the model of language says is any
  choice the tools leave it.
* Components marked `not_modelled` in PROJECT.json, with the reason there.

## Plan

What is left is to model several goods in one document, where rounding and the order of
row locks could interact.
