------------------------------ MODULE Gateway ------------------------------
(***************************************************************************)
(* The model gateway: the library of communicators, and one request of a   *)
(* communicator from its call to its end.                                  *)
(*                                                                         *)
(* A request is written in the provider's form and posted.  A deadline     *)
(* aborts it until the headers have arrived; the body is awaited without   *)
(* one.  The reply is read back into the common form, and the tools it     *)
(* calls go by their own names again.                                      *)
(*                                                                         *)
(* The name of a tool is dotted or legal on the wire; sanitised it is a    *)
(* stem with suffixes, so "a.b" is <<"ab">>, dotted, and "a_b_2" is        *)
(* <<"ab", 2>>, legal.  Content is what can be told apart of it: its kind, *)
(* and where its data are.  Parameters that are copied are left out.       *)
(***************************************************************************)
EXTENDS Integers, SequencesExt

CONSTANT Requests   \* what may be asked of which communicator

Joined(seqs) ==
  LET upTo[i \in 0..Len(seqs)] == IF i = 0 THEN <<>> ELSE upTo[i - 1] \o seqs[i] IN upTo[Len(seqs)]

Provider == {"anthropic", "openai-completion", "openai-responses", "cohere", "jina"}
Source == {"url", "data", "none"}
Kinds == {"text", "image", "audio", "document", "video"}
Part == [kind : Kinds, source : Source]
IsSeq(s) == Len(s) \in Nat /\ s = [i \in 1..Len(s) |-> s[i]]
IsName(n) == n.dotted \in BOOLEAN /\ IsSeq(n.wire) /\ n.wire # <<>>

ASSUME RequestsAssumption ==
  \A r \in Requests :
    /\ r.communicator.provider \in Provider \cup {"unknown"}
    /\ r.communicator.hasKey \in BOOLEAN
    /\ r.communicator.capabilities \subseteq {"chat", "embed", "rerank", "ocr"}
    /\ r.communicator.deadline \in BOOLEAN   \* timeoutMs is not 0
    /\ r.does \in {"chat", "embed", "rerank", "ocr"}
    /\ r.tools \in Seq(ToSet(r.tools)) /\ \A n \in ToSet(r.tools) : IsName(n)
    /\ \A i \in DOMAIN r.messages :
         /\ r.messages[i].role \in {"system", "user", "assistant", "tool"}
         /\ r.messages[i].parts \in Seq(Part)
         /\ \A j \in DOMAIN r.messages[i].calls : IsName(r.messages[i].calls[j].name)
    /\ r.silentAt \in {"never", "headers", "body"}   \* where the provider hangs

VARIABLES
  asked,  \* what is asked
  progress,    \* how far the request is
  body,     \* what was posted
  reply     \* the calls of the reply, as the orchestrator gets them

gvars == <<asked, progress, body, reply>>

Progress == {"new", "refused", "headers", "body", "error body", "ok", "failed"}

----------------------------------------------------------------------------
(* The library.                                                            *)

(* pickAdapter: what each provider can do. *)
Adapter(provider) ==
  CASE provider = "anthropic" -> {"chat", "ocr"}
    [] provider \in {"openai-completion", "openai-responses"} -> {"chat", "embed", "ocr"}
    [] provider \in {"cohere", "jina"} -> {"rerank"}
    [] OTHER -> {}

(* buildCommunicator does not throw; "ocr" runs on a chat adapter. *)
Builds(d) ==
  /\ d.provider \in Provider
  /\ d.hasKey
  /\ d.capabilities \subseteq Adapter(d.provider)


----------------------------------------------------------------------------
(* Tool names.                                                             *)

NoNames == [names |-> <<>>, wires |-> <<>>]

(* A wire name that is free: itself, or with the first free suffix. *)
Free(wire, used) ==
  IF wire \notin used THEN wire
  ELSE Append(wire, CHOOSE n \in 2..(Cardinality(used) + 2) :
                      /\ Append(wire, n) \notin used
                      /\ \A m \in 2..(n - 1) : Append(wire, m) \in used)

(* Mutant of Claim: only sanitised names are looked up among the used ones. *)
ClaimLegal(map, name) ==
  IF name \in ToSet(map.names) THEN map
  ELSE [names |-> Append(map.names, name),
        wires |-> Append(map.wires, IF name.dotted THEN Free(name.wire, ToSet(map.wires)) ELSE name.wire)]

Claim(map, name) ==
  IF name \in ToSet(map.names) THEN map
  ELSE [names |-> Append(map.names, name),
        wires |-> Append(map.wires, Free(name.wire, ToSet(map.wires)))]

NameMap(list) ==
  LET map[i \in 0..Len(list)] == IF i = 0 THEN NoNames ELSE Claim(map[i - 1], list[i]) IN map[Len(list)]

(* A name that was never declared, from an old turn, is only sanitised. *)
Encode(map, name) ==
  IF name \in ToSet(map.names)
  THEN map.wires[CHOOSE i \in DOMAIN map.names : map.names[i] = name] ELSE name.wire

(* A name that was never sent comes back as it is, which has no dots. *)
Decode(map, wire) ==
  IF wire \in ToSet(map.wires)
  THEN map.names[CHOOSE i \in DOMAIN map.wires : map.wires[i] = wire]
  ELSE [dotted |-> FALSE, wire |-> wire]

----------------------------------------------------------------------------
(* Content and messages, per provider.                                     *)

Native(part) == [part |-> part, as |-> "native"]
Note(part) == [part |-> part, as |-> "note"]      \* "[unsupported ... content]"
Void(part) == [part |-> part, as |-> "void"]      \* an empty data URI

(* mapContentPart of the chat completions. *)
OpenAIPart(p) ==
  CASE p.kind = "text" -> Native(p)
    [] p.kind \in {"image", "document"} -> IF p.source # "none" THEN Native(p) ELSE Note(p)
    [] p.kind = "audio" -> IF p.source = "data" THEN Native(p) ELSE Note(p)
    [] OTHER -> Note(p)

(* mapResponsesContentPart: an image or document without data is sent as such. *)
ResponsesPart(p) ==
  CASE p.kind = "text" -> Native(p)
    [] p.kind \in {"image", "document"} -> IF p.source # "none" THEN Native(p) ELSE Void(p)
    [] OTHER -> Note(p)

AnthropicPart(p) ==
  CASE p.kind = "text" -> Native(p)
    [] p.kind \in {"image", "document"} -> IF p.source # "none" THEN Native(p) ELSE Note(p)
    [] OTHER -> Note(p)

Mapped(parts, Carry(_)) == [i \in DOMAIN parts |-> Carry(parts[i])]
Texts(parts) == SelectSeq(parts, LAMBDA p : p.kind = "text")
Item(role, parts, calls, answers) ==
  [role |-> role, parts |-> parts, calls |-> calls, answers |-> answers]
Wired(map, calls) == [i \in DOMAIN calls |-> [id |-> calls[i].id, wire |-> Encode(map, calls[i].name)]]

(* mapMessages: one message each. *)
OpenAIItems(map, m) ==
  <<Item(m.role, Mapped(m.parts, OpenAIPart), Wired(map, m.calls), m.answers)>>

(* Mutant of ResponsesItems: a turn with calls is nothing but its calls. *)
ResponsesItemsCallsOnly(map, m) ==
  CASE m.role = "tool" -> <<Item("tool", Mapped(m.parts, Native), <<>>, m.answers)>>
    [] m.calls # <<>> ->
         [i \in DOMAIN m.calls |-> Item("call", <<>>, <<Wired(map, m.calls)[i]>>, m.answers)]
    [] OTHER -> <<Item(m.role, Mapped(m.parts, ResponsesPart), <<>>, m.answers)>>

(* mapResponsesInput: a turn with calls is a message, if it says anything,  *)
(* and one item per call; a tool's output is one string, of any content.   *)
ResponsesItems(map, m) ==
  CASE m.role = "tool" -> <<Item("tool", Mapped(m.parts, Native), <<>>, m.answers)>>
    [] m.calls # <<>> ->
         (IF m.parts = <<>> THEN <<>>
          ELSE <<Item(m.role, Mapped(m.parts, ResponsesPart), <<>>, m.answers)>>)
         \o [i \in DOMAIN m.calls |-> Item("call", <<>>, <<Wired(map, m.calls)[i]>>, m.answers)]
    [] OTHER -> <<Item(m.role, Mapped(m.parts, ResponsesPart), <<>>, m.answers)>>

(* mapMessages of Anthropic: a tool's answer is a user's turn; a turn with  *)
(* calls keeps its texts and no other content; system messages go into the  *)
(* system text.                                                            *)
AnthropicItems(map, m) ==
  CASE m.role = "system" -> <<>>
    [] m.role = "tool" -> <<Item("user", Mapped(m.parts, AnthropicPart), <<>>, m.answers)>>
    [] m.calls # <<>> -> <<Item(m.role, Mapped(Texts(m.parts), Native), Wired(map, m.calls), m.answers)>>
    [] OTHER -> <<Item(m.role, Mapped(m.parts, AnthropicPart), <<>>, m.answers)>>

(* hoistSystem: only texts. *)
Hoisted(messages) ==
  Joined([i \in DOMAIN messages |->
            IF messages[i].role = "system" THEN Mapped(Texts(messages[i].parts), Native) ELSE <<>>])

Items(map, messages, ItemsOf(_, _)) ==
  Joined([i \in DOMAIN messages |-> ItemsOf(map, messages[i])])
Wires(map, list) == [i \in DOMAIN list |-> Encode(map, list[i])]

(* The request that is posted, per provider. *)
OpenAIBody(list, messages) ==
  LET map == NameMap(list) IN
  [system |-> <<>>, items |-> Items(map, messages, OpenAIItems), tools |-> Wires(map, list)]

ResponsesBody(list, messages) ==
  LET map == NameMap(list) IN
  [system |-> <<>>, items |-> Items(map, messages, ResponsesItems), tools |-> Wires(map, list)]

AnthropicBody(list, messages) ==
  LET map == NameMap(list) IN
  [system |-> Hoisted(messages), items |-> Items(map, messages, AnthropicItems), tools |-> Wires(map, list)]

Body(provider, list, messages) ==
  CASE provider = "anthropic" -> AnthropicBody(list, messages)
    [] provider = "openai-responses" -> ResponsesBody(list, messages)
    [] OTHER -> OpenAIBody(list, messages)

NoBody == [system |-> <<>>, items |-> <<>>, tools |-> <<>>]

----------------------------------------------------------------------------
(* A request.                                                              *)

GTypeOK ==
  /\ asked \in Requests
  /\ progress \in Progress
  /\ \A i \in DOMAIN reply : IsName(reply[i])

GInit ==
  /\ asked \in Requests
  /\ progress = "new"
  /\ body = NoBody /\ reply = <<>>

(* The communicator is in the library, and can do what is asked. *)
Served == Builds(asked.communicator) /\ asked.does \in asked.communicator.capabilities

(* The library has no such communicator, or it cannot do that. *)
Refuse ==
  /\ progress = "new"
  /\ ~Served
  /\ progress' = "refused"
  /\ UNCHANGED <<asked, body, reply>>

Post ==
  /\ progress = "new"
  /\ Served
  /\ progress' = "headers"
  /\ body' = Body(asked.communicator.provider, asked.tools, asked.messages)
  /\ UNCHANGED <<asked, reply>>

(* The connection is refused or breaks. *)
Breaks ==
  /\ progress \in {"headers", "body"}
  /\ asked.silentAt # progress
  /\ progress' = "failed"
  /\ UNCHANGED <<asked, body, reply>>

(* The headers arrive; with them the deadline is over. *)
Headers ==
  /\ progress = "headers"
  /\ asked.silentAt # "headers"
  /\ progress' \in {"body", "error body"}
  /\ UNCHANGED <<asked, body, reply>>

(* Mutant of Waited: no deadline is ever set. *)
WaitedNowhere(p) == FALSE

(* Where the deadline covers the wait. *)
Waited(p) == p = "headers"

(* The deadline aborts the request, unless timeoutMs is 0. *)
Deadline ==
  /\ asked.communicator.deadline
  /\ Waited(progress)
  /\ progress' = "failed"
  /\ UNCHANGED <<asked, body, reply>>

(* A refusal's text has come, or not: the request fails with it. *)
ErrorBody ==
  /\ progress = "error body"
  /\ asked.silentAt # "body"
  /\ progress' = "failed"
  /\ UNCHANGED <<asked, body, reply>>

(* The reply: the model calls some of the tools by their wire names. *)
Reply(wires) ==
  /\ progress = "body"
  /\ asked.silentAt # "body"
  /\ progress' = "ok"
  /\ reply' = [i \in DOMAIN wires |-> Decode(NameMap(asked.tools), wires[i])]
  /\ UNCHANGED <<asked, body>>

GNext ==
  \/ Refuse \/ Post
  \/ Breaks \/ Headers \/ Deadline \/ ErrorBody
  \/ \E wires \in {<<>>, body.tools, Reverse(body.tools)} : Reply(wires)

GFairness == WF_gvars(GNext)

GSpec == GInit /\ [][GNext]_gvars /\ GFairness

----------------------------------------------------------------------------
(* Properties.                                                             *)

(* Distinct tools are distinct on the wire, and whatever a model calls is   *)
(* the tool it was shown under that name, whichever clashes the list has.   *)
NamesComeHome ==
  /\ body # NoBody =>
       \A i, j \in DOMAIN asked.tools : body.tools[i] = body.tools[j] => asked.tools[i] = asked.tools[j]
  /\ progress = "ok" => \/ reply = <<>> \/ reply = asked.tools \/ reply = Reverse(asked.tools)

Contents(items) == Joined([i \in DOMAIN items |-> items[i].parts])
Calls(items) == Joined([i \in DOMAIN items |-> items[i].calls])
PartsOf(messages) == Joined([i \in DOMAIN messages |-> messages[i].parts])
IsSystem(m) == m.role = "system"
WithoutMedia(m) == IF m.role = "system" \/ m.calls # <<>> THEN [m EXCEPT !.parts = Texts(@)] ELSE m

(* Every part of every message is in the request, in its order, if only as  *)
(* a note that it could not be; Anthropic's lacks the media of turns with   *)
(* calls and of system messages.  A tool's answer comes after its call.     *)
NothingIsDropped ==
  body # NoBody =>
    LET kept == IF asked.communicator.provider = "anthropic"
                THEN [i \in DOMAIN asked.messages |-> WithoutMedia(asked.messages[i])] ELSE asked.messages
        hoist == IF asked.communicator.provider = "anthropic"
                 THEN SelectSeq(kept, IsSystem) \o SelectSeq(kept, LAMBDA m : ~IsSystem(m)) ELSE kept
        carried == body.system \o Contents(body.items)
        calls == Calls(body.items)
    IN /\ PartsOf(hoist) = [i \in DOMAIN carried |-> carried[i].part]
       /\ \A k \in DOMAIN body.items :
            body.items[k].answers # 0 =>
              \E j \in 1..(k - 1) : \E c \in ToSet(body.items[j].calls) : c.id = body.items[k].answers
       /\ [i \in DOMAIN calls |-> calls[i].id]
            = Joined([i \in DOMAIN asked.messages |-> [j \in DOMAIN asked.messages[i].calls |-> asked.messages[i].calls[j].id]])

(* What goes out and what comes back mean the same on both sides. *)
RequestIsFaithful == NamesComeHome /\ NothingIsDropped

(* "Bounding every request turns a hang into a normal FAILURE" (http.ts):   *)
(* a request ends, unless its provider falls silent after the headers or    *)
(* the communicator opted out of the deadline.                             *)
RequestEnds ==
  progress = "headers" ~>
    \/ progress \in {"ok", "failed"}
    \/ asked.silentAt = "body" /\ progress \in {"body", "error body"}
    \/ asked.silentAt = "headers" /\ ~asked.communicator.deadline
=============================================================================
