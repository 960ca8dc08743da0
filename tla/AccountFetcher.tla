---------------------------- MODULE AccountFetcher ----------------------------
(***************************************************************************)
(* The SDK's AccountFetcher (sdk/src/network/public/fetcher.ts): a cache   *)
(* of accounts in front of an RPC connection.  Every method runs up to its *)
(* request, and goes on when the answer is there; in between, others run.  *)
(* The cache is a JavaScript object, which lists its keys in the order     *)
(* they were added in.                                                     *)
(*                                                                         *)
(* The data of an account is which account it is and how often it was      *)
(* written; an account that does not exist parses as null.                 *)
(***************************************************************************)
EXTENDS Integers, Sequences, FiniteSets, SequencesExt

CONSTANTS
  Address,       \* the accounts
  Pools,         \* those that listPoolsWithParams looks for
  Calls,         \* the asynchronous calls that can be under way
  Wanted,        \* the lists of addresses that are asked for
  CHUNK,         \* accounts per request, 100 in the code
  MaxVersion     \* bound: how often an account is written

ASSUME FetcherAssumption ==
  /\ Pools \subseteq Address
  /\ Wanted \subseteq Seq(Address)
  /\ CHUNK \in Nat \ {0} /\ MaxVersion \in Nat \ {0}
  /\ IsFiniteSet(Pools)

VARIABLES
  chain,         \* what the chain holds
  cache,         \* this._cache
  call,          \* the calls
  held,          \* history: what each account has held
  overrun        \* history: accounts that a refreshAll found without having asked for them

vars == <<chain, cache, call, held, overrun>>

Null      == [version |-> 0]
Undefined == [version |-> -1]
Account(a, n) == [account |-> a, version |-> n]

Unanswered   == [state |-> "unanswered", data |-> <<>>]
RpcError     == [state |-> "error", data |-> <<>>]
Result(data) == [state |-> "result", data |-> data]

-----------------------------------------------------------------------------
(* The cache *)

Keys == {cache[i].key : i \in DOMAIN cache}

CachedValue(key) ==
  IF \E i \in DOMAIN cache : cache[i].key = key
  THEN cache[CHOOSE i \in DOMAIN cache : cache[i].key = key].value ELSE Undefined

\* Mutant: an entry that is written anew goes to the end.
PutAtEnd(entries, entry) == Append(SelectSeq(entries, LAMBDA e : e.key # entry.key), entry)

Put(entries, entry) ==
  IF \E i \in DOMAIN entries : entries[i].key = entry.key
  THEN [i \in DOMAIN entries |-> IF entries[i].key = entry.key THEN entry ELSE entries[i]]
  ELSE Append(entries, entry)

PutAll(keys, data) ==
  LET put[n \in 0 .. Len(keys)] ==
        IF n = 0 THEN cache ELSE Put(put[n - 1], [key |-> keys[n], value |-> data[n]])
  IN  put[Len(keys)]

-----------------------------------------------------------------------------
(* A call and its requests *)

Waiting(c) == call[c].status = "waiting"

\* Mutant: a last chunk that is not full is not sent.
FullChunks(keys) == Len(keys) \div CHUNK

\* The number of requests bulkRequest makes.
Chunks(keys) == (Len(keys) + CHUNK - 1) \div CHUNK

ChunkOf(keys, i) ==
  SubSeq(keys, (i - 1) * CHUNK + 1, IF i * CHUNK < Len(keys) THEN i * CHUNK ELSE Len(keys))

\* since, refresh and wanted are kept for the properties.
Started(kind, wanted, values, refresh, request) ==
  [status |-> "waiting", kind |-> kind, wanted |-> wanted, values |-> values,
   refresh |-> refresh, request |-> request, since |-> chain,
   answers |-> [i \in 1 .. Chunks(request) |-> Unanswered]]

Returned(wanted, values, refresh, since) ==
  [status |-> "returned", wanted |-> wanted, values |-> values,
   refresh |-> refresh, since |-> since]

HasError(c) == \E i \in DOMAIN call[c].answers : call[c].answers[i] = RpcError
AllAnswered(c) == \A i \in DOMAIN call[c].answers : call[c].answers[i] # Unanswered

\* combinedResult
Data(c) == FlattenSeq([i \in DOMAIN call[c].answers |-> call[c].answers[i].data])

Complete(c) == AllAnswered(c) /\ ~HasError(c) /\ Len(Data(c)) = Len(call[c].request)

\* Mutant: the cache is read although a refresh was asked for.
CachedValuesAlways(wanted, refresh) == [i \in DOMAIN wanted |-> CachedValue(wanted[i])]

CachedValues(wanted, refresh) ==
  [i \in DOMAIN wanted |-> IF refresh THEN Undefined ELSE CachedValue(wanted[i])]

\* The indices of undefinedAccounts, in order.
Missing(values) ==
  LET missing[n \in 0 .. Len(values)] ==
        IF n = 0 THEN <<>>
        ELSE IF values[n] = Undefined THEN Append(missing[n - 1], n) ELSE missing[n - 1]
  IN  missing[Len(values)]

\* get and list: the cached values, and a request for what is not cached.
Read(c, wanted, refresh) ==
  LET values  == CachedValues(wanted, refresh)
      missing == Missing(values)
  IN  /\ ~Waiting(c)
      /\ call' = [call EXCEPT ![c] =
           IF missing = <<>> THEN Returned(wanted, values, refresh, chain)
           ELSE Started("read", wanted, values, refresh,
                        [j \in DOMAIN missing |-> wanted[missing[j]]])]
      /\ UNCHANGED <<chain, cache, held, overrun>>

ReadEnd(c) ==
  /\ Waiting(c) /\ call[c].kind = "read"
  /\ Complete(c)
  /\ LET missing == Missing(call[c].values)
         result  == [i \in DOMAIN call[c].values |->
                       IF call[c].values[i] # Undefined THEN call[c].values[i]
                       ELSE Data(c)[CHOOSE j \in DOMAIN missing : missing[j] = i]]
     IN  call' = [call EXCEPT ![c] = Returned(@.wanted, result, @.refresh, @.since)]
  /\ cache' = PutAll(call[c].request, Data(c))
  /\ UNCHANGED <<chain, held, overrun>>

RefreshAll(c) ==
  /\ ~Waiting(c)
  /\ call' = [call EXCEPT ![c] =
       Started("refreshAll", <<>>, <<>>, TRUE, [i \in DOMAIN cache |-> cache[i].key])]
  /\ UNCHANGED <<chain, cache, held, overrun>>

\* Mutant: only what is not there is looked at again.
UpdatedEntryIfNull(i, data) ==
  IF cache[i].value = Null /\ i \in DOMAIN data THEN [cache[i] EXCEPT !.value = data[i]] ELSE cache[i]

\* The i-th entry there is now gets the i-th account that was asked for; an
\* index beyond the data reads undefined, which parses as null.
UpdatedEntry(i, data) ==
  [cache[i] EXCEPT !.value = IF i \in DOMAIN data THEN data[i] ELSE Null]

RefreshAllEnd(c) ==
  /\ Waiting(c) /\ call[c].kind = "refreshAll"
  /\ Complete(c)
  /\ call' = [call EXCEPT ![c] = Returned(<<>>, <<>>, TRUE, @.since)]
  /\ cache' = [i \in DOMAIN cache |-> UpdatedEntry(i, Data(c))]
  /\ overrun' = overrun \cup (Keys \ Range(call[c].request))
  /\ UNCHANGED <<chain, held>>

\* One request, for whichever pools there are.
ListPoolsWithParams(c) ==
  /\ ~Waiting(c)
  /\ call' = [call EXCEPT ![c] =
       [Started("pools", <<>>, <<>>, TRUE, <<>>) EXCEPT !.answers = <<Unanswered>>]]
  /\ UNCHANGED <<chain, cache, held, overrun>>

ListPoolsWithParamsEnd(c) ==
  /\ Waiting(c) /\ call[c].kind = "pools"
  /\ Complete(c)
  /\ call' = [call EXCEPT ![c] = Returned(@.request, Data(c), TRUE, @.since)]
  /\ cache' = PutAll(call[c].request, Data(c))
  /\ UNCHANGED <<chain, held, overrun>>

\* An error, or too few results, throws, and caches nothing.
CallFails(c) ==
  /\ Waiting(c)
  /\ HasError(c) \/ (AllAnswered(c) /\ ~Complete(c))
  /\ call' = [call EXCEPT ![c] = [status |-> "failed", answers |-> @.answers]]
  /\ UNCHANGED <<chain, cache, held, overrun>>

-----------------------------------------------------------------------------
(* The chain and the RPC node *)

Write(a) ==
  /\ chain[a].version < MaxVersion
  /\ chain' = [chain EXCEPT ![a] = Account(a, @.version + 1)]
  /\ held' = [held EXCEPT ![a] = @ \cup {chain'[a]}]
  /\ UNCHANGED <<cache, call, overrun>>

\* The node answers a request with the accounts as they are now, or with an error.
Answer(c, i) ==
  /\ Waiting(c) /\ call[c].answers[i] = Unanswered
  /\ LET request == IF call[c].kind = "pools" THEN SetToSeq({a \in Pools : chain[a] # Null})
                    ELSE call[c].request
         asked   == IF call[c].kind = "pools" THEN request ELSE ChunkOf(request, i)
     IN  \E answer \in {RpcError, Result([j \in DOMAIN asked |-> chain[asked[j]]])} :
           call' = [call EXCEPT ![c].request = request, ![c].answers[i] = answer]
  /\ UNCHANGED <<chain, cache, held, overrun>>

Init ==
  /\ \E existing \in SUBSET Address :
       chain = [a \in Address |-> IF a \in existing THEN Account(a, 1) ELSE Null]
  /\ cache = <<>>
  /\ call = [c \in Calls |-> [status |-> "idle"]]
  /\ held = [a \in Address |-> {chain[a]}]
  /\ overrun = {}

Next ==
  \/ \E c \in Calls :
       \/ \E wanted \in Wanted, refresh \in BOOLEAN : Read(c, wanted, refresh)
       \/ ReadEnd(c)
       \/ RefreshAll(c)
       \/ RefreshAllEnd(c)
       \/ ListPoolsWithParams(c)
       \/ ListPoolsWithParamsEnd(c)
       \/ CallFails(c)
       \/ Waiting(c) /\ \E i \in DOMAIN call[c].answers : Answer(c, i)
  \/ \E a \in Address : Write(a)

Spec == Init /\ [][Next]_vars

-----------------------------------------------------------------------------
(* Properties *)

Has(c, status) == call[c].status = status

Value == {Null} \cup [account : Address, version : 1 .. MaxVersion]
Answered == [state : {"unanswered", "error", "result"}, data : Seq(Value)]

WaitingCall ==
  [status : {"waiting"}, kind : {"read", "refreshAll", "pools"}, wanted : Seq(Address),
   values : Seq(Value \cup {Undefined}), refresh : BOOLEAN, request : Seq(Address),
   since : [Address -> Value], answers : Seq(Answered)]

ReturnedCall ==
  [status : {"returned"}, wanted : Seq(Address), values : Seq(Value), refresh : BOOLEAN,
   since : [Address -> Value]]

Call ==
  WaitingCall \cup ReturnedCall
  \cup [status : {"idle"}] \cup [status : {"failed"}, answers : Seq(Answered)]

\* Keys are not repeated, and nothing that is returned is undefined (fetcher.ts:362).
TypeOK ==
  /\ chain \in [Address -> Value]
  /\ held \in [Address -> SUBSET Value]
  /\ overrun \subseteq Address
  /\ cache \in Seq([key : Address, value : Value])
  /\ \A i, j \in DOMAIN cache : cache[i].key = cache[j].key => i = j
  /\ call \in [Calls -> Call]

\* What may be known of an account: something it has held, or null if a refreshAll
\* found it in the cache without having asked for it (fetcher.ts:295-299).
Known(a, value) == value \in held[a] \/ (value = Null /\ a \in overrun)

\* Whatever order the answers come in, what is cached or returned for an account
\* is something that this account has held, never another one's data and never
\* null for one that has always existed: the answers are matched with the keys by
\* their position only (fetcher.ts:295, 353).  The one exception is the null that
\* refreshAll leaves on an entry that was added while it waited.
NothingInvented ==
  /\ \A i \in DOMAIN cache : Known(cache[i].key, cache[i].value)
  /\ \A c \in Calls : Has(c, "returned") =>
       \A i \in DOMAIN call[c].wanted : Known(call[c].wanted[i], call[c].values[i])

\* A call that was told to refresh returns nothing older than its own start.
FreshWhenRefreshed ==
  \A c \in Calls : Has(c, "returned") /\ call[c].refresh =>
    \A i \in DOMAIN call[c].wanted :
      call[c].values[i].version >= call[c].since[call[c].wanted[i]].version

\* A call fails only when the RPC node has answered with an error.
FailsOnlyWithRpc == \A c \in Calls : Has(c, "failed") => HasError(c)

RefreshAllReturns(c) == Waiting(c) /\ call[c].kind = "refreshAll" /\ call'[c].status = "returned"

\* Unless another call has added an account in the meantime, refreshAll leaves
\* no entry older than its own start, although others may have rewritten it.
RefreshAllUpdatesWhatItAskedFor ==
  [][ \A c \in Calls : RefreshAllReturns(c) /\ Len(cache) = Len(call[c].request) =>
        \A i \in DOMAIN cache' :
          cache'[i].value.version >= call[c].since[cache'[i].key].version ]_vars

\* "Update the cached value of all entities currently in the cache"
\* (fetcher.ts:288): an entry does not become older by it than it was, unless the
\* chain itself was no further when the refresh began.
RefreshAllUpdates ==
  [][ \A c \in Calls : RefreshAllReturns(c) =>
        \A i \in DOMAIN cache :
          \/ cache'[i].value.version >= cache[i].value.version
          \/ cache'[i].value.version >= call[c].since[cache[i].key].version ]_vars
=============================================================================
