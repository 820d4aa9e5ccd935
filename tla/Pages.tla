--------------------------------- MODULE Pages ---------------------------------
(***************************************************************************)
(* The parts of the browser's side: a behaviour is of one part, which its  *)
(* initial state picks; the variables of the others rest.  The three       *)
(* conversations are parts of their own.                                   *)
(***************************************************************************)
EXTENDS HttpClient, Screens, Checkout, Conversations

CONSTANT Resting                  \* what a variable of another part is

VARIABLE part                     \* the part this behaviour is of

vars == <<part, httpVars, screenVars, checkoutVars, talkVars>>

(* Where each part rests while the behaviour is of another.                *)
HttpClientRests ==
  /\ pageAt = Resting /\ authStore = Resting /\ server = Resting /\ sent = Resting /\
      refreshing = Resting /\ subscribers = Resting /\ excused = Resting
ScreensRests ==
  /\ team = Resting /\ planDeep = Resting /\ entDeep = Resting /\ canDecide = Resting /\
      srv = Resting /\ page = Resting /\ detail = Resting /\ loads = Resting /\ calls = Resting /\
      reviewing = Resting /\ live = Resting /\ factLoads = Resting /\ submitted = Resting /\
      overtaken = Resting /\ carried = Resting
CheckoutRests ==
  /\ space = Resting /\ orders = Resting /\ entShown = Resting /\ ordersShown = Resting /\
      asks = Resting /\ at = Resting /\ visit = Resting /\ draft = Resting /\ starts = Resting /\
      made = Resting /\ unled = Resting /\ dialog = Resting /\ lostAnswer = Resting /\ hasty = Resting
ConversationsRests ==
  /\ tasks = Resting /\ running = Resting /\ run = Resting /\ sameTool = Resting /\ thrown = Resting /\
      bubbles = Resting /\ querying = Resting /\ answer = Resting /\ silent = Resting /\
      paper = Resting /\ messages = Resting /\ asked = Resting /\ locked = Resting /\
      born = Resting /\ crossed = Resting

Talks == {"task", "query", "paper"}
Init ==
  /\ part \in {"session", "screens", "checkout"} \cup Talks
  /\ IF part \in {"session"} THEN HttpInit ELSE HttpClientRests
  /\ IF part \in {"screens"} THEN ScreenInit ELSE ScreensRests
  /\ IF part \in {"checkout"} THEN CheckoutInit ELSE CheckoutRests
  /\ IF part \in Talks THEN TalkInit ELSE ConversationsRests
SessionGoes ==
  /\ part = "session" /\ HttpNext
  /\ UNCHANGED <<part, screenVars, checkoutVars, talkVars>>
ScreensGo ==
  /\ part = "screens" /\ ScreenNext
  /\ UNCHANGED <<part, httpVars, checkoutVars, talkVars>>
CheckoutGoes ==
  /\ part = "checkout" /\ CheckoutNext
  /\ UNCHANGED <<part, httpVars, screenVars, talkVars>>
TasksGo ==
  /\ part = "task" /\ TaskNext
  /\ UNCHANGED <<part, httpVars, screenVars, checkoutVars>>
QueriesGo ==
  /\ part = "query" /\ QueryNext
  /\ UNCHANGED <<part, httpVars, screenVars, checkoutVars>>
PaperGoes ==
  /\ part = "paper" /\ PaperNext
  /\ UNCHANGED <<part, httpVars, screenVars, checkoutVars>>
Next == SessionGoes \/ ScreensGo \/ CheckoutGoes \/ TasksGo \/ QueriesGo \/ PaperGoes
Spec == Init /\ [][Next]_vars

----------------------------------------------------------------------------
(* Of one part: what only its behaviours are asked.                        *)

\* The session outlives its access tokens: only its end at the server, a sign-out or a lost renewal signs the user out,
\* and a request that waited for the renewal is sent again or told that it failed.
SessionIsKeptAndServed == part = "session" => HttpTypeOK /\ SessionIsKept /\ NoRequestIsStranded

\* The server the page talks to keeps what Sessions promises of the session between two sign-ins: no renewal revives a
\* session that was ended, and none goes without a token.
SessionIsAsPromised == [][part = "session" => ServedAsPromised]_vars

\* What a contract's page shows and sends is about the contract that is open, as the server holds it, unless the page
\* was left while something was under way or reading the contract failed; the workbench goes on asking while the
\* contract is parsed, and what is offered the server accepts, but for a start the panel offers too early.
ScreensAgree ==
  part = "screens" => /\ ScreenTypeOK
                      /\ ShownIsAsked /\ FactsAreShown /\ PollsUnlessUnchanged /\ DecidedAsSeen /\ OffersAreAccepted

\* A visit of the checkout pays one order of the item it shows, a visit of the page for a new review leads to one
\* contract, however many it made whose answers failed, and the billing page shows what the server holds.
OrdersAsAsked == part = "checkout" => CheckoutTypeOK /\ PaidAsAsked /\ OneContractAsked /\ BilledAsShown

\* A conversation shows each result at the step it belongs to, ends what no stream will end, and is about the contract
\* it is held on.
TranscriptsHold == part \in Talks => TalkTypeOK /\ ResultsAtTheirSteps /\ NothingSpinsForEver /\ SaidOfThisPaper
===============================================================================
