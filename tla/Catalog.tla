------------------------------ MODULE Catalog -------------------------------
(***************************************************************************)
(* The model listing of one provider (api/models.rs) and the caches behind *)
(* it: what the provider remembers of its own listing, what it harvests    *)
(* from it, and the three caches of the server.  A request for the listing *)
(* tells of a routing engine and then of the provider's model: its context *)
(* limits and its modalities, each of them a probe that may dial upstream. *)
(* A sync of an administrator and a question for voices dial as well.      *)
(*                                                                         *)
(* The provider is of one of Kinds; a profile says what sets a kind apart. *)
(* It lists one model.  An answer of upstream is told apart by its age     *)
(* only, and by whether it has limits, modalities and voices ("full").  A  *)
(* tick is longer than any step that waits for a lock and no longer than   *)
(* the wait for upstream may be; an entry that outlived its TTL is gone.   *)
(***************************************************************************)
EXTENDS Naturals, Sequences

CONSTANTS
  Clients,   \* requests for the listing
  Admins,    \* syncs and questions for voices
  Kinds,     \* kinds of provider that are looked at
  TTL,       \* MODELS_CACHE_TTL, MODALITY_CACHE_TTL and LIMITS_CACHE_TTL
  ShortTTL   \* MODELS_TTL of vLLM

ASSUME CatalogAssumption ==
  /\ TTL \in Nat \ {0} /\ ShortTTL \in Nat \ {0} /\ ShortTTL <= TTL

(***************************************************************************)
(* The kinds of provider.  info: what get_runtime_info does ("none": says  *)
(* nothing, "asks": dials, "keeps": dials through a cache of its own), and *)
(* tells: whether that tells limits.  harvests: what a listing leaves.     *)
(***************************************************************************)
Plain == [info |-> "none", tells |-> FALSE, harvests |-> {}, fallback |-> FALSE,
          static |-> FALSE, reports |-> FALSE, claude |-> FALSE]

openai == [Plain EXCEPT !.info = "asks"]
openrouter == [openai EXCEPT !.harvests = {"voices", "modalities", "limits"}]
routstr == [openai EXCEPT !.tells = TRUE]
ppq == [openai EXCEPT !.tells = TRUE]
ollama == openai
llamacpp == [openai EXCEPT !.tells = TRUE, !.reports = TRUE]
vllm == [openai EXCEPT !.info = "keeps", !.tells = TRUE]
anthropic == [Plain EXCEPT !.claude = TRUE]
anthropic_oauth == [anthropic EXCEPT !.harvests = {"limits"}, !.fallback = TRUE]
openai_oauth == [Plain EXCEPT !.static = TRUE]

Profiles ==
  [openai |-> openai, openrouter |-> openrouter, routstr |-> routstr, ppq |-> ppq,
   ollama |-> ollama, llamacpp |-> llamacpp, vllm |-> vllm, anthropic |-> anthropic,
   anthropic_oauth |-> anthropic_oauth, openai_oauth |-> openai_oauth]

Calls == Clients \cup Admins

VARIABLES
  kind,            \* of the provider; fixed in CatalogInit
  available,       \* is_provider_available
  models_cache,    \* ModelsCache of the provider
  info_cache,      \* models_cache of a vLLM provider
  harvested,       \* which of voices, modalities and limits are not empty
  model_cache,     \* ModelListCache: the last listing that succeeded
  modality_cache,  \* ModalityCache
  limits_cache,    \* LimitsCache
  call             \* call[c]: the locals of a request

of_provider == <<models_cache, info_cache, harvested>>
of_server == <<model_cache, modality_cache, limits_cache>>
catalog == <<kind, available, of_provider, of_server, call>>

Cap == TTL + ShortTTL    \* ages are told apart up to this one
Data == [src : {"none", "static", "undated", "upstream"}, age : 0..Cap, full : BOOLEAN]
Nothing == [src |-> "none", age |-> 0, full |-> FALSE]
Static == [src |-> "static", age |-> 0, full |-> TRUE]
Undated == [src |-> "undated", age |-> 0, full |-> TRUE]
Fresh(reply) == [src |-> "upstream", age |-> 0, full |-> reply = "full"]
Listing == [src |-> "upstream", age |-> 0, full |-> TRUE]

\* A cached thing and how long ago it was put there.
Entries == [what : Data, held : 0..Cap]
Entry(d) == [what |-> d, held |-> 0]
NoEntry == <<>>

Good == {"full", "bare"}
\* Without a token the OAuth adapter does not get as far as upstream.
Replies == Good \cup {"refused", "broken", "no token"}
Errands == {"models", "limits", "modalities", "info", "voices"}
\* What a request has put into its response last, and on which errand.
Told == [on : Errands \cup {"nothing"}, what : Data]
Silent == [on |-> "nothing", what |-> Nothing]
Locals ==
  [op : {"listing", "sync", "voices"}, errands : Seq(Errands),
   at : {"idle", "next", "asks", "heard", "mapped", "kept", "done"},
   asks : {"models", "info"}, reply : Replies, told : Told,
   expects : {"none", "static", "undated"}]
NoCall == [op |-> "listing", errands |-> <<>>, at |-> "idle", asks |-> "models",
         reply |-> "broken", told |-> Silent, expects |-> "none"]

CatalogInit ==
  /\ kind \in Kinds /\ available \in BOOLEAN
  /\ models_cache = NoEntry /\ info_cache = NoEntry /\ harvested = {}
  /\ model_cache = Nothing /\ modality_cache = NoEntry /\ limits_cache = NoEntry
  /\ call = [c \in Calls |-> NoCall]

-----------------------------------------------------------------------------
profile == Profiles[kind]

\* What a request does, in order.  With both limits configured none is probed.
Plan(op, configured) ==
  CASE op = "listing" /\ configured -> <<"modalities", "models", "modalities">>
    [] op = "listing" /\ ~configured -> <<"limits", "modalities", "models", "limits", "modalities">>
    [] op = "sync" -> <<"models", "info">>
    [] OTHER -> <<"voices">>

Start(c, op, configured) ==
  /\ call[c].at = "idle"
  /\ call' = [call EXCEPT ![c] =
       [NoCall EXCEPT !.op = op, !.errands = Plan(op, configured), !.at = "next",
                    !.expects = IF op = "listing" THEN model_cache.src ELSE "none"]]
  /\ UNCHANGED <<kind, available, of_provider, of_server>>

Doing(c, errand) == call[c].errands # <<>> /\ Head(call[c].errands) = errand
Due(c, errand) == call[c].at = "next" /\ Doing(c, errand)

\* The errand is done and told d; without a model there is no more to tell.
Tell(c, d) ==
  LET errand == Head(call[c].errands)
      rest == IF errand = "models" /\ d = Nothing THEN <<>> ELSE Tail(call[c].errands)
  IN  call' = [call EXCEPT ![c] =
        [@ EXCEPT !.told = [on |-> errand, what |-> d], !.errands = rest,
                  !.asks = NoCall.asks, !.reply = NoCall.reply,
                  !.at = IF rest = <<>> THEN "done" ELSE "next"]]

Return(c) ==
  /\ call[c].at = "done"
  /\ call' = [call EXCEPT ![c] = NoCall]
  /\ UNCHANGED <<kind, available, of_provider, of_server>>

Ask(c, what) ==
  call' = [call EXCEPT ![c] = [@ EXCEPT !.at = "asks", !.asks = what, !.told = Silent]]

\* list_models as far as it answers without upstream.
Known == IF profile.static THEN Static
         ELSE IF models_cache = NoEntry THEN Nothing ELSE models_cache.what

LimitsOf(d) == IF profile.tells /\ d.full THEN d ELSE Nothing

-----------------------------------------------------------------------------
(* The listing itself. *)

\* The last good listing has no age that anybody asks for.
LastGood(d) == [d EXCEPT !.src = IF d.src = "upstream" THEN "undated" ELSE d.src, !.age = 0]

NoFallBack(c) == Tell(c, Nothing)

\* A provider that is down is not dialled: its last good listing stands in.
FallBack(c) == Tell(c, model_cache)

Listed(c, d) ==
  /\ model_cache' = IF call[c].op = "listing" THEN LastGood(d) ELSE model_cache
  /\ Tell(c, d)

LookModels(c) ==
  /\ Due(c, "models")
  /\ \/ /\ call[c].op = "listing" /\ ~available
        /\ FallBack(c)
        /\ UNCHANGED model_cache
     \/ /\ call[c].op = "sync" \/ available
        /\ Known # Nothing
        /\ Listed(c, Known)
     \/ /\ call[c].op = "sync" \/ available
        /\ Known = Nothing
        /\ Ask(c, "models")
        /\ UNCHANGED model_cache
  /\ UNCHANGED <<kind, available, of_provider, modality_cache, limits_cache>>

ConcludeModels(c) ==
  /\ call[c].at = "kept" /\ Doing(c, "models")
  /\ \/ /\ call[c].reply \in Good
        /\ Listed(c, Listing)
     \/ /\ call[c].reply \in {"refused", "broken"} /\ profile.fallback
        /\ Listed(c, Static)
     \/ /\ call[c].reply \notin Good
        /\ profile.fallback => call[c].reply = "no token"
        /\ FallBack(c)
        /\ UNCHANGED model_cache
  /\ UNCHANGED <<kind, available, of_provider, modality_cache, limits_cache>>

-----------------------------------------------------------------------------
(* Limits: an answer is cached whatever it is, a timeout is not. *)

PutLimits(c, d) ==
  /\ limits_cache' = Entry(d)
  /\ Tell(c, d)

\* listed_limits of a provider that harvests them, and of any other.
MapLimits(c) ==
  \/ /\ "limits" \in harvested
     /\ PutLimits(c, Undated)
  \/ /\ "limits" \notin harvested /\ Known # Nothing
     /\ PutLimits(c, Nothing)
  \/ /\ "limits" \notin harvested /\ Known = Nothing
     /\ Ask(c, "models")
     /\ UNCHANGED limits_cache

InfoLimits(c) ==
  \/ /\ profile.info = "none"
     /\ PutLimits(c, Nothing)
  \/ /\ info_cache # NoEntry
     /\ PutLimits(c, LimitsOf(info_cache.what))
  \/ /\ profile.info # "none" /\ info_cache = NoEntry
     /\ Ask(c, "info")
     /\ UNCHANGED limits_cache

LookLimits(c) ==
  /\ Due(c, "limits")
  /\ \/ /\ limits_cache # NoEntry
        /\ Tell(c, limits_cache.what)
        /\ UNCHANGED limits_cache
     \/ /\ limits_cache = NoEntry /\ ~available
        /\ Tell(c, Nothing)
        /\ UNCHANGED limits_cache
     \/ /\ limits_cache = NoEntry /\ available
        /\ IF "limits" \in profile.harvests THEN MapLimits(c) ELSE InfoLimits(c)
  /\ UNCHANGED <<kind, available, of_provider, model_cache, modality_cache>>

ConcludeLimits(c) ==
  /\ call[c].at = "kept" /\ Doing(c, "limits")
  /\ PutLimits(c, IF "limits" \in profile.harvests
                  THEN IF "limits" \in harvested THEN Undated ELSE Nothing
                  ELSE IF call[c].reply \in Good THEN LimitsOf(Fresh(call[c].reply))
                  ELSE Nothing)
  /\ UNCHANGED <<kind, available, of_provider, model_cache, modality_cache>>

-----------------------------------------------------------------------------
(* Modalities: only what upstream said is cached. *)

LookModalities(c) ==
  /\ Due(c, "modalities")
  /\ \/ /\ profile.claude
        /\ Tell(c, Static)
     \/ /\ "modalities" \in harvested
        /\ Tell(c, Undated)
     \/ /\ ~profile.claude /\ "modalities" \notin harvested
        /\ ~profile.reports \/ ~available
        /\ Tell(c, Nothing)
     \/ /\ profile.reports /\ available /\ modality_cache # NoEntry
        /\ Tell(c, modality_cache.what)
     \/ /\ profile.reports /\ available /\ modality_cache = NoEntry
        /\ Ask(c, "info")
  /\ UNCHANGED <<kind, available, of_provider, of_server>>

ConcludeModalities(c) ==
  /\ call[c].at = "kept" /\ Doing(c, "modalities")
  /\ LET d == Listing
     IN  IF call[c].reply \in Good
         THEN modality_cache' = Entry(d) /\ Tell(c, d)
         ELSE Tell(c, Nothing) /\ UNCHANGED modality_cache
  /\ UNCHANGED <<kind, available, of_provider, model_cache, limits_cache>>

-----------------------------------------------------------------------------
(* The runtime info of a sync, and the voices of a model. *)

LookInfo(c) ==
  /\ Due(c, "info")
  /\ IF profile.info = "none" \/ info_cache # NoEntry
     THEN Tell(c, Nothing) ELSE Ask(c, "info")
  /\ UNCHANGED <<kind, available, of_provider, of_server>>

\* Without voices the listing is fetched, whatever the provider remembers.
LookVoices(c) ==
  /\ Due(c, "voices")
  /\ IF "voices" \notin profile.harvests \/ "voices" \in harvested
     THEN Tell(c, Nothing) ELSE Ask(c, "models")
  /\ UNCHANGED <<kind, available, of_provider, of_server>>

ConcludeOther(c) ==
  /\ call[c].at = "kept"
  /\ Doing(c, "info") \/ Doing(c, "voices")
  /\ Tell(c, Nothing)
  /\ UNCHANGED <<kind, available, of_provider, of_server>>

-----------------------------------------------------------------------------
(* Upstream and what a provider does with its answer. *)

\* A listing is kept if it is good, runtime info by vLLM unless the connection broke.
IsKept(what, reply) ==
  IF what = "models" THEN reply \in Good
  ELSE profile.info = "keeps" /\ reply # "broken"

Goes(c, at) == call' = [call EXCEPT ![c] = [@ EXCEPT !.at = at]]

Responds(c, reply) ==
  /\ call[c].at = "asks"
  /\ reply = "no token" => profile.fallback
  /\ call' = [call EXCEPT ![c] =
       [@ EXCEPT !.reply = reply,
                 !.at = IF IsKept(call[c].asks, reply) THEN "heard" ELSE "kept"]]
  /\ UNCHANGED <<kind, available, of_provider, of_server>>

\* The maps are replaced first, the listing is remembered after them.
Harvest(c) ==
  /\ call[c].at = "heard" /\ call[c].asks = "models"
  /\ harvested' = IF call[c].reply = "full" THEN profile.harvests ELSE {}
  /\ Goes(c, "mapped")
  /\ UNCHANGED <<kind, available, models_cache, info_cache, of_server>>

Remember(c) ==
  /\ call[c].at = "mapped"
  /\ models_cache' = Entry(Listing)
  /\ Goes(c, "kept")
  /\ UNCHANGED <<kind, available, info_cache, harvested, of_server>>

\* vLLM keeps a refusal too.
KeepInfo(c) ==
  /\ call[c].at = "heard" /\ call[c].asks = "info"
  /\ info_cache' = Entry(IF call[c].reply \in Good THEN Fresh(call[c].reply) ELSE Nothing)
  /\ Goes(c, "kept")
  /\ UNCHANGED <<kind, available, models_cache, harvested, of_server>>

NeverDeadline(c) == FALSE

\* Only a listing has deadlines: 5 s to list, 3 s for each probe.
HasDeadline(c) == call[c].op = "listing"

TimesOut(c) ==
  /\ HasDeadline(c)
  /\ call[c].at \in {"asks", "heard", "mapped"}
  /\ \/ Doing(c, "models") /\ FallBack(c)
     \/ Doing(c, "limits") /\ Tell(c, Nothing)
     \/ Doing(c, "modalities") /\ Tell(c, Nothing)
  /\ UNCHANGED <<kind, available, of_provider, of_server>>

\* The health of the provider changes.
Turn ==
  /\ available' = ~available
  /\ UNCHANGED <<kind, of_provider, of_server, call>>

Older(age) == IF age < Cap THEN age + 1 ELSE Cap
Aged(d) == IF d.src = "upstream" THEN [d EXCEPT !.age = Older(d.age)] ELSE d
KeptOneMore(entry, ttl) ==
  IF entry = NoEntry \/ entry.held > ttl THEN NoEntry
  ELSE [what |-> Aged(entry.what), held |-> entry.held + 1]
Kept(entry, ttl) ==
  IF entry = NoEntry THEN NoEntry
  ELSE IF entry.held + 1 < ttl
       THEN [what |-> Aged(entry.what), held |-> entry.held + 1]
       ELSE NoEntry

Tick ==
  /\ \A c \in Calls : call[c].at \in {"idle", "asks"}
  /\ models_cache' = Kept(models_cache, TTL)
  /\ info_cache' = Kept(info_cache, ShortTTL)
  /\ modality_cache' = Kept(modality_cache, TTL)
  /\ limits_cache' = Kept(limits_cache, TTL)
  /\ UNCHANGED <<kind, available, harvested, model_cache, call>>

-----------------------------------------------------------------------------
Look(c) == LookModels(c) \/ LookLimits(c) \/ LookModalities(c) \/ LookInfo(c)
             \/ LookVoices(c)
Keep(c) == Harvest(c) \/ Remember(c) \/ KeepInfo(c)
Conclude(c) == ConcludeModels(c) \/ ConcludeLimits(c) \/ ConcludeModalities(c)
                 \/ ConcludeOther(c)

CatalogNext ==
  \/ \E c \in Calls :
       \/ \E configured \in BOOLEAN : c \in Clients /\ Start(c, "listing", configured)
       \/ \E op \in {"sync", "voices"} : c \in Admins /\ Start(c, op, FALSE)
       \/ Look(c) \/ Keep(c) \/ Conclude(c) \/ TimesOut(c) \/ Return(c)
       \/ \E reply \in Replies : Responds(c, reply)
  \/ Turn
  \/ Tick

\* The runtime polls what can go on and fires deadlines; upstream owes nothing.
Works(c) == Look(c) \/ Keep(c) \/ Conclude(c) \/ TimesOut(c) \/ Return(c)
CatalogFairness == \A c \in Calls : WF_catalog(Works(c))

CatalogSpec == CatalogInit /\ [][CatalogNext]_catalog /\ CatalogFairness

-----------------------------------------------------------------------------
(* What makes the listing correct. *)

\* Caches are stacked (the server's limits over the provider's own), yet what
\* a listing tells is no older than the caches it came through allow: one TTL
\* for models and modalities, and one more of vLLM's for limits.  A fallback
\* listing, and limits harvested into a map, have no such bound.
AnswersAreRecent ==
  \A c \in Calls :
    LET t == call[c].told
    IN  t.what.src = "upstream" =>
          t.what.age < IF t.on = "limits" /\ profile.info = "keeps"
                       THEN TTL + ShortTTL - 1 ELSE TTL

\* Some adapters have a list of models in the code: one always tells it, the
\* other when a fetch has failed.
HasOwnList == profile.static \/ profile.fallback

\* May d be told of the models, or stand in for them, where expects was told?
Stays(expects, d) ==
  /\ expects # "none" => d # Nothing
  /\ expects = "undated" /\ ~HasOwnList => d.src \in {"undated", "upstream"}

\* Once a listing has had models of the provider, no later one is without any,
\* whether upstream refuses, breaks, hangs or is known to be down; and where
\* the code has no list of its own they are what upstream told, then or since.
OnceListedStaysListed ==
  \A c \in Calls :
    call[c].told.on = "models" => Stays(call[c].expects, call[c].told.what)

\* The server keeps the "Last known good model listing per provider slug"
\* (model_cache.rs:6): a listing that upstream told gives way to another that
\* it tells, not to one that the adapter puts in the place of a failed fetch.
GoodListingStays ==
  [][model_cache.src = "undated" => model_cache'.src = "undated"]_catalog

\* A listing returns although upstream never answers, and however the health
\* of the provider changes meanwhile.
ListingReturns ==
  \A c \in Clients : (call[c].at = "next") ~> (call[c].at = "idle")
=============================================================================
