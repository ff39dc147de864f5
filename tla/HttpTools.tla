------------------------------ MODULE HttpTools ------------------------------
(***************************************************************************)
(* A browser (HttpBrowserBase, HttpBrowser, HttpBrowserDirect) and the     *)
(* servers of the sites (HttpServerBase, HttpServer and HttpServerDirect), *)
(* which the controller brings together.  The browser                      *)
(* asks for a page of a site, and then for all that the page refers to,    *)
(* over one TCP connection for each site; some references are requested    *)
(* later, each over a connection of its own.                               *)
(*                                                                         *)
(* TCP is external: it delivers both directions in order, in pieces of     *)
(* its own choice (a reply can take two of them), or breaks.  Without      *)
(* sockets (`direct') each message has a random delay.                     *)
(***************************************************************************)
EXTENDS HttpController, FiniteSets

CONSTANTS MaxPages, \* mode |-> bound on the pages the browser asks for by itself
          Scripts,  \* scripts of the browser; <<>>: it goes to random sites
          Modes,    \* SUBSET of {"socket", "direct"}
          Content   \* site |-> [definition, generates]: the lines of its site definition,
                    \* or, if there are none, how many images and texts a page may refer to

VARIABLES browser, \* its timer, session, and requests that wait for their time
          conns,   \* connection |-> both sockets and what TCP has in between
          wire     \* messages that go direct

vars == <<browser, conns, wire, controllerVars>>

Ids == DOMAIN conns

\* A request is for a resource of a site; `n' counts the requests.
Request(www, resource, bad, n) == [www |-> www, resource |-> resource, bad |-> bad, n |-> n]

CategoryOf(resource) ==
  CASE resource \in {"", "page", "other"} -> "html"
    [] resource = "img" -> "image"
    [] resource = "txt" -> "text"
    [] OTHER -> "unknown"

--------------------------------------------------------------------------
(* What a site has.  The body of a page is a sequence of references.       *)

Ref(www, resource, delayed, bad) == [www |-> www, resource |-> resource, delayed |-> delayed, bad |-> bad]
Copies(n, ref) == [i \in 1 .. n |-> ref]

\* Images first, then texts, of the site itself.
GenerateBody(images, texts) ==
  Copies(images, Ref("own", "img", FALSE, FALSE)) \o Copies(texts, Ref("own", "txt", FALSE, FALSE))
Generated(site) == {GenerateBody(d[1], d[2]) : d \in site.generates}

\* The page without a name is the root; a later line replaces an earlier one.
ReadSiteDefinition(lines) ==
  LET In(section) == {i \in DOMAIN lines : lines[i].section = section}
      Key(i) == IF lines[i].key = "" THEN "root" ELSE lines[i].key
      LastWith(key) == CHOOSE i \in In("HTML") : Key(i) = key /\ \A j \in In("HTML") : Key(j) = key => j <= i
  IN [htmlPages |-> [key \in {Key(i) : i \in In("HTML")} |-> lines[LastWith(key)].body],
      resources |-> {lines[i].key : i \in In("RESOURCES")}]

Scripted(www) == Content[www].definition # <<>>
Site == [www \in Registered |-> ReadSiteDefinition(Content[www].definition)]

--------------------------------------------------------------------------
(* The server.                                                             *)

ErrorReply(request) == [n |-> request.n, content |-> "unknown", body |-> <<>>]
Document(request, body) == [n |-> request.n, content |-> "html", body |-> body]
Resource(request) == [n |-> request.n, content |-> CategoryOf(request.resource), body |-> <<>>]

\* `body' is what a site without a definition would generate.
HandleGetRequest(request, body) ==
  LET site == Site[request.www]
      category == CategoryOf(request.resource)
      name == IF request.resource = "" /\ "root" \in DOMAIN site.htmlPages THEN "root" ELSE request.resource
      page == IF name \in DOMAIN site.htmlPages THEN name ELSE "default"
  IN CASE category = "html" /\ ~Scripted(request.www) -> Document(request, body)
       [] category = "html" /\ page \in DOMAIN site.htmlPages -> Document(request, site.htmlPages[page])
       [] category \in {"text", "image"} /\ (Scripted(request.www) => request.resource \in site.resources) ->
            Resource(request)
       [] OTHER -> ErrorReply(request)

HandleReceivedMessage(request, body) ==
  IF request.bad THEN ErrorReply(request) ELSE HandleGetRequest(request, body)

--------------------------------------------------------------------------
(* The browser.                                                            *)

\* A new connection has the requests to send once it is established.  The
\* last three fields record what happens on it.
Connection(requests) ==
  [browser |-> "CONNECTING", queue |-> requests, pending |-> 0,
   server |-> "syn", up |-> <<>>, down |-> <<>>, finUp |-> FALSE, finDown |-> FALSE,
   broken |-> FALSE, asked |-> <<>>, got |-> <<>>, merged |-> FALSE]

\* One connection for the requests to a site.
SubmitToSocket(s, requests) == [s EXCEPT !.conns = Append(@, Connection(requests))]

\* Without sockets each request goes its own way, with a delay of its own.
SendDirectToModule(receiver, m) == [to |-> receiver, m |-> m]
SendsDirect(s, requests) ==
  [s EXCEPT !.wire = @ \cup {SendDirectToModule("server", requests[i]) : i \in DOMAIN requests}]

\* Requests to a site that nobody knows are dropped.
SendRequestsToServer(s, www, requests) ==
  IF ~Known(www) \/ requests = <<>> THEN s
  ELSE IF s.browser.direct THEN SendsDirect(s, requests) ELSE SubmitToSocket(s, requests)

GeneratePageRequest(s, www, resource) ==
  [s EXCEPT !.browser.requests = @ + 1, !.made = Request(www, resource, FALSE, s.browser.requests + 1)]

\* The page refers to resources, of its own site if not said otherwise.
RequestsOf(s, www, body) ==
  [i \in DOMAIN body |->
     Request(IF body[i].www = "own" THEN www ELSE body[i].www, body[i].resource, body[i].bad,
             s.browser.requests + i)]

\* The elements of a sequence at some of its places, in their order.
At(places, sequence) ==
  LET F[i \in 0 .. Len(sequence)] ==
        IF i = 0 THEN <<>> ELSE IF i \in places THEN Append(F[i - 1], sequence[i]) ELSE F[i - 1]
  IN F[Len(sequence)]

\* The requests without delay are queued for their sites, and each queue is
\* submitted; the others wait.
ProcessBody(s, www, body) ==
  LET requests == RequestsOf(s, www, body)
      Queue(to) == At({i \in DOMAIN body : ~body[i].delayed /\ requests[i].www = to}, requests)
      F[i \in 0 .. Len(Sites)] ==
        IF i = 0 THEN [s EXCEPT !.browser.requests = @ + Len(body),
                                !.browser.delayed = @ \cup {requests[j] : j \in {j \in DOMAIN body : body[j].delayed}}]
        ELSE SendRequestsToServer(F[i - 1], Sites[i], Queue(Sites[i]))
  IN F[Len(Sites)]

HandleDataMessage(s, www, reply) ==
  IF reply.content = "unknown" THEN s
  ELSE ProcessBody(s, www, reply.body)

\* All replies that are complete are handled, one after the other.
HandleFirst(s, www, replies) ==   \* Mistake: the next reply waits for more data
  IF replies = <<>> THEN <<s, <<>>>> ELSE <<HandleDataMessage(s, www, replies[1]), <<replies[1].n>>>>
HandleAll(s, www, replies) ==
  LET F[i \in 0 .. Len(replies)] == IF i = 0 THEN s ELSE HandleDataMessage(F[i - 1], www, replies[i])
  IN <<F[Len(replies)], [i \in DOMAIN replies |-> replies[i].n]>>

\* The requests of a session are done, or those of the period of activity.
ScheduleNextBrowseEvent(b, over) ==
  LET done == b.reqInCurSession + 1
  IN [b EXCEPT !.reqInCurSession = done,
               !.timer = IF done < b.reqNoInCurSession THEN "NEXT_MESSAGE"
                         ELSE IF ~over THEN "START_SESSION" ELSE "ACTIVITY_START"]

Now == [browser |-> browser, conns |-> conns, wire |-> wire, made |-> <<>>]
Becomes(s) == browser' = s.browser /\ conns' = s.conns /\ wire' = s.wire

SelfActivityStart ==
  /\ ~picking /\ browser.timer = "ACTIVITY_START"
  /\ browser' = [browser EXCEPT !.timer = "START_SESSION", !.reqNoInCurSession = 0]
  /\ UNCHANGED <<conns, wire, controllerVars>>

\* The number of requests in the session is drawn; 0 has the effect of 1.
SelfStartSession ==
  /\ ~picking /\ browser.timer = "START_SESSION" /\ browser.pages > 0
  /\ \E drawn \in 1 .. 2 :
       browser' = [browser EXCEPT !.reqInCurSession = 0, !.reqNoInCurSession = drawn, !.pages = @ - 1]
  /\ picking' = TRUE
  /\ UNCHANGED <<conns, wire, specialList, pvalue, pamortize, pspecial, active, happened>>

SelfNextMessage ==
  /\ ~picking /\ browser.timer = "NEXT_MESSAGE" /\ browser.pages > 0
  /\ browser' = [browser EXCEPT !.pages = @ - 1]
  /\ picking' = TRUE
  /\ UNCHANGED <<conns, wire, specialList, pvalue, pamortize, pspecial, active, happened>>

\* The rest of both: the controller has found an active site.
SendRequestToRandomServer ==
  /\ picking
  /\ \E www \in active, over \in BOOLEAN :
       /\ GetAnyServerInfo(www)
       /\ LET s == GeneratePageRequest(Now, www, "page")
              submitted == SendRequestsToServer(s, www, <<s.made>>)
          IN Becomes([submitted EXCEPT !.browser = ScheduleNextBrowseEvent(@, over)])
  /\ picking' = FALSE
  /\ UNCHANGED <<active, happened>>

SelfScriptedEvent ==
  /\ browser.timer = "SCRIPT_EVENT"
  /\ LET be == Head(browser.events)
         s == GeneratePageRequest([Now EXCEPT !.browser.events = Tail(@)], be.www, be.resource)
         submitted == SendRequestsToServer(s, be.www, <<s.made>>)
     IN Becomes([submitted EXCEPT !.browser.timer = IF s.browser.events = <<>> THEN "off" ELSE @])
  /\ UNCHANGED controllerVars

SelfDelayedRequestMessage ==
  /\ ~picking
  /\ \E request \in browser.delayed :
       Becomes(SendRequestsToServer([Now EXCEPT !.browser.delayed = @ \ {request}], request.www, <<request>>))
  /\ UNCHANGED controllerVars

--------------------------------------------------------------------------
(* The sockets of both sides, with TCP in between.                         *)

\* The whole queue is sent, in its order.
SocketEstablished(id) ==
  /\ conns[id].browser = "CONNECTING" /\ ~conns[id].broken
  /\ conns' = [conns EXCEPT ![id].browser = "CONNECTED", ![id].queue = <<>>,
                            ![id].up = conns[id].queue, ![id].pending = Len(conns[id].queue),
                            ![id].asked = [i \in DOMAIN conns[id].queue |-> conns[id].queue[i].n]]
  /\ UNCHANGED <<browser, wire, controllerVars>>

\* close(): the direction to the server ends after what was sent.
Closing(c) == [c EXCEPT !.browser = "LOCALLY_CLOSED", !.finUp = TRUE]

\* What an arrival has brought is recorded.
Counted(c, numbers, several) == [c EXCEPT !.got = @ \o numbers, !.merged = @ \/ several]

\* Each arrival counts as one reply, whatever it brings.
SocketDataArrived(id) ==
  LET c == conns[id] IN
  /\ c.browser \in {"CONNECTED", "LOCALLY_CLOSED"} /\ c.down # <<>>
  /\ \E k \in 1 .. Len(c.down) :
       LET came == SubSeq(c.down, 1, k)
           whole == At({i \in DOMAIN came : came[i].last}, came)
           replies == [i \in DOMAIN whole |-> whole[i].reply]
           www == IF replies = <<>> THEN "" ELSE whole[1].www
           handled == HandleAll([Now EXCEPT !.conns[id].down = SubSeq(@, k + 1, Len(@)),
                                            !.conns[id].pending = @ - 1], www, replies)
           s == [handled[1] EXCEPT !.conns[id] = Counted(@, handled[2], Len(whole) > 1)]
       IN Becomes(IF c.pending = 1 THEN [s EXCEPT !.conns[id] = Closing(@)] ELSE s)
  /\ UNCHANGED controllerVars

StreamEnds(c) == c.browser = "LOCALLY_CLOSED" /\ c.finDown /\ c.down = <<>>
SocketClosed(id) ==
  /\ StreamEnds(conns[id])
  /\ conns' = [conns EXCEPT ![id].browser = "deleted"]
  /\ UNCHANGED <<browser, wire, controllerVars>>

\* Requests that have not been sent are deleted with the socket.
SocketFailure(id) ==
  /\ conns[id].broken /\ conns[id].browser # "deleted"
  /\ conns' = [conns EXCEPT ![id].browser = "deleted", ![id].queue = <<>>]
  /\ UNCHANGED <<browser, wire, controllerVars>>

\* The listening socket accepts; the connection gets a socket of its own when
\* it is established.
ServerAccepts(id) ==
  /\ conns[id].browser # "CONNECTING" /\ conns[id].server = "syn" /\ ~conns[id].broken
  /\ conns' = [conns EXCEPT ![id].server = "CONNECTED"]
  /\ UNCHANGED <<browser, wire, controllerVars>>

\* Each request that has come is answered; a reply takes `size' pieces.
Pieces(www, reply, size) == [i \in 1 .. size |-> [www |-> www, reply |-> reply, last |-> i = size]]
RepliesTo(requests, k, size, body, down) ==
  LET F[i \in 0 .. k] ==
        IF i = 0 THEN down
        ELSE F[i - 1] \o Pieces(requests[i].www, HandleReceivedMessage(requests[i], body), size)
  IN F[k]
ServerDataArrived(id) ==
  LET c == conns[id] IN
  /\ c.server = "CONNECTED" /\ c.up # <<>>
  /\ \E k \in 1 .. Len(c.up) : \E size \in {1, 2}, body \in Generated(Content[c.up[1].www]) :
       conns' = [conns EXCEPT ![id].up = SubSeq(@, k + 1, Len(@)), ![id].down = RepliesTo(c.up, k, size, body, @)]
  /\ UNCHANGED <<browser, wire, controllerVars>>

ServerStays(c) == [c EXCEPT !.server = "PEER_CLOSED"]   \* Mistake: only the browser closes
ServerCloses(c) == [c EXCEPT !.server = "CLOSED", !.finDown = TRUE]
PeerCloses(c) == c.server = "CONNECTED" /\ c.finUp /\ c.up = <<>>
ServerPeerClosed(id) ==
  /\ PeerCloses(conns[id])
  /\ conns' = [conns EXCEPT ![id] = ServerCloses(@)]
  /\ UNCHANGED <<browser, wire, controllerVars>>

BothClosed(c) == c.server = "CLOSED" /\ c.browser = "deleted"
ServerClosed(id) ==
  /\ BothClosed(conns[id])
  /\ conns' = [conns EXCEPT ![id].server = "deleted"]
  /\ UNCHANGED <<browser, wire, controllerVars>>

ServerFailure(id) ==
  /\ conns[id].broken /\ conns[id].server \notin {"deleted", "syn"}
  /\ conns' = [conns EXCEPT ![id].server = "deleted"]
  /\ UNCHANGED <<browser, wire, controllerVars>>

\* Refused, reset or timed out: what was under way is gone.
Breaks(id) ==
  /\ ~conns[id].broken /\ conns[id].browser # "deleted"
  /\ conns' = [conns EXCEPT ![id].broken = TRUE, ![id].up = <<>>, ![id].down = <<>>]
  /\ UNCHANGED <<browser, wire, controllerVars>>

--------------------------------------------------------------------------
(* Without sockets.                                                        *)

ServerDirect ==
  /\ \E m \in {m \in wire : m.to = "server"} : \E body \in Generated(Content[m.m.www]) :
       wire' = (wire \ {m}) \cup {SendDirectToModule(m.m.www, HandleReceivedMessage(m.m, body))}
  /\ UNCHANGED <<browser, conns, controllerVars>>

BrowserDirect ==
  /\ \E m \in {m \in wire : m.to # "server"} :
       Becomes(HandleDataMessage([Now EXCEPT !.wire = @ \ {m}], m.to, m.m))
  /\ UNCHANGED controllerVars

--------------------------------------------------------------------------
\* A script that names an unknown site throws; its events are in the order of
\* the file, and the first is scheduled.
ReadScriptedEvents(script) ==
  [timer |-> IF script = <<>> THEN "off" ELSE "SCRIPT_EVENT", events |-> script]

IsSequence(q) == q \in Seq({q[i] : i \in DOMAIN q})

\* "server" stands for the servers among the receivers of direct messages.
ASSUME ContentAssumption ==
  /\ "server" \notin Registered
  /\ \A www \in Registered :
       /\ IsSequence(Content[www].definition)
       /\ \A i \in DOMAIN Content[www].definition : IsSequence(Content[www].definition[i].body)
       /\ Content[www].generates \subseteq Nat \X Nat

ASSUME ScriptAssumption ==
  /\ \A script \in Scripts : \A i \in DOMAIN script : Known(script[i].www)
  /\ \A www \in Registered : Cardinality({i \in DOMAIN Content[www].definition :
        Content[www].definition[i].section = "HTML" /\ Content[www].definition[i].key = ""}) <= 1

Init ==
  /\ ControllerInit
  /\ \E script \in Scripts, mode \in Modes :
       browser = [timer |-> IF script = <<>> THEN "ACTIVITY_START" ELSE ReadScriptedEvents(script).timer,
                  events |-> ReadScriptedEvents(script).events,
                  direct |-> mode = "direct", reqInCurSession |-> 0, reqNoInCurSession |-> 0,
                  pages |-> MaxPages[mode], requests |-> 0, delayed |-> {}]
  /\ conns = <<>>
  /\ wire = {}

Browses ==
  \/ SelfActivityStart \/ SelfStartSession \/ SelfNextMessage \/ SelfScriptedEvent
  \/ SendRequestToRandomServer \/ SelfDelayedRequestMessage

Arrives ==
  /\ ~picking
  /\ \/ \E id \in Ids :
          \/ SocketEstablished(id) \/ SocketDataArrived(id) \/ SocketClosed(id) \/ SocketFailure(id)
          \/ ServerAccepts(id) \/ ServerDataArrived(id) \/ ServerPeerClosed(id) \/ ServerClosed(id)
          \/ ServerFailure(id) \/ Breaks(id)
     \/ ServerDirect
     \/ BrowserDirect

\* Bound: the scenario changes before there are connections, between
\* messages, and if the browser asks for random sites.
Idle == wire = {} /\ conns = <<>> /\ browser.timer \notin {"SCRIPT_EVENT", "off"}
Controls ==
  /\ Draw \/ (Idle /\ (StatusUpdate \/ Activate))
  /\ UNCHANGED <<browser, conns, wire>>

Next == Browses \/ Arrives \/ Controls

Spec == Init /\ [][Next]_vars

--------------------------------------------------------------------------
(* What should be true of the connections when nothing is under way.       *)

Stuck(c) == ~c.broken /\ c.up = <<>> /\ c.down = <<>> /\ c.server # "syn" /\ c.browser # "CONNECTING"

\* A connection is only left open if one of its arrivals brought several
\* replies: in all other cases both sides close their sockets and delete them.
NoneLeftOpen ==
  \A id \in Ids :
    LET c == conns[id]
        goesOn == StreamEnds(c) \/ PeerCloses(c) \/ BothClosed(c)
    IN Stuck(c) /\ ~goesOn => (c.browser = "deleted" /\ c.server = "deleted") \/ c.merged

\* Each request on a connection that has not been broken is answered, in
\* the order of the requests and once.
Prefix(s, t) == Len(s) <= Len(t) /\ s = SubSeq(t, 1, Len(s))
Answered ==
  \A id \in Ids :
    LET c == conns[id]
    IN Prefix(c.got, c.asked) /\ (Stuck(c) => c.got = c.asked)

\* HttpBrowser.h: pending is "a counter for the number of outstanding replies".
PendingCountsReplies ==
  \A id \in Ids : conns[id].browser = "CONNECTED" => conns[id].pending = Len(conns[id].asked) - Len(conns[id].got)
==============================================================================
