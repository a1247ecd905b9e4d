-------------------------------- MODULE Tour --------------------------------
(***************************************************************************)
(* The tour of the web application for a new user: the welcome page, the   *)
(* tips and their manager (tutorial_tour_tip, onboardingTour), the effects *)
(* that move from one part of the tour to the next, and the user's         *)
(* preferences that say where the user is, kept by the server and by the   *)
(* store of users.                                                         *)
(***************************************************************************)
EXTENDS Integers, Sequences, SequencesExt, FiniteSets

CONSTANTS
    TourActs,       \* bound: what the user does, all before a request is overtaken or out of date
    TourBusy        \* bound: the requests under way when something is done

VARIABLES
    prefs,          \* server: the preferences
    config,         \* the store's myConfig
    screen,         \* where the user is, whether the card has a description, the tip's state
    patches,        \* requests: sent, served, answered
    troubles,       \* history: refusals, and requests that were overtaken or were out of date
    tourActs        \* history: how much was done

tourVars == <<prefs, config, screen, patches, troubles, tourActs>>

FINISHED == 999
TOUR_ORDER == <<"onboarding", "card", "board", "sidebar">>
TourCategoriesMapToSteps == [onboarding |-> {0}, card |-> 0..2, board |-> 0..2, sidebar |-> 0..2]

\* getOnboardingTourCategory, getOnboardingTourStep
At(c) == [category |-> c.category, step |-> c.step]

-----------------------------------------------------------------------------
\* The tips: the place of the tour that each is for, the screens that have it, whether it
\* has a backdrop, and the buttons to the next and the previous step.
Tip(category, step, on, backdrop, buttons) ==
    [category |-> category, step |-> step, on |-> on, backdrop |-> backdrop, buttons |-> buttons]
NoCard == {"home", "table", "board"}
OpenCardTourStep == Tip("onboarding", 0, {"board"}, TRUE, FALSE)
AddPropertiesTourStep == Tip("card", 0, {"card"}, FALSE, TRUE)
AddCommentTourStep == Tip("card", 1, {"card"}, FALSE, TRUE)
AddDescriptionTourStep == Tip("card", 2, IF screen.described THEN {"card"} ELSE {}, FALSE, TRUE)
AddViewTourStep == Tip("board", 0, {"table", "board"}, TRUE, TRUE)
CopyLinkTourStep == Tip("board", 1, {"board"}, FALSE, TRUE)
ShareBoardTourStep == Tip("board", 2, {"table", "board", "card"}, FALSE, TRUE)
SidebarCategoriesTourStep == Tip("sidebar", 0, NoCard, TRUE, TRUE)
ManageCategoriesTourStep == Tip("sidebar", 1, NoCard, TRUE, TRUE)
SearchForBoardsTourStep == Tip("sidebar", 2, NoCard, TRUE, TRUE)
Tips == {OpenCardTourStep, AddPropertiesTourStep, AddCommentTourStep, AddDescriptionTourStep, AddViewTourStep,
         CopyLinkTourStep, ShareBoardTourStep, SidebarCategoriesTourStep, ManageCategoriesTourStep, SearchForBoardsTourStep}

\* TourTipRenderer: the tips of the place where the tour is, on a screen.
TourTipRenderer(at) == {t \in Tips : config.started /\ t.category = config.category /\ t.step = config.step /\ at \in t.on}

\* Mutant: the last step is the number of steps, which are counted from 0.
getLastStepCounted(category) == Cardinality(TourCategoriesMapToSteps[category])
getLastStep(category) == CHOOSE n \in TourCategoriesMapToSteps[category] : \A m \in TourCategoriesMapToSteps[category] : m <= n

-----------------------------------------------------------------------------
\* The condition of the sidebar's first tip, whose effect starts the tour of the sidebar.
shouldViewSidebarTour(c, at) ==
    at \in NoCard /\ (At(c) = [category |-> "sidebar", step |-> 0] \/ At(c) = [category |-> "board", step |-> FINISHED])
\* A tip is shown anew when it is for another place or on another screen; the sidebar's
\* first tip stays mounted for as long as its condition holds.
Render(s, c) ==
    [s EXCEPT !.hidden = @ /\ At(c) = At(config) /\ s.at = screen.at,
              !.mounted = @ /\ shouldViewSidebarTour(c, s.at)]

patchUserConfig(fields, then) == [fields |-> fields, then |-> then, seen |-> At(config), served |-> FALSE, answer |-> <<>>]
Request(kind) == [patchUserConfig(<<>>, "") EXCEPT !.then = kind]
Place(category, step) == [category |-> category, step |-> step]
Send(a) == patches' = Append(patches, a)

\* The effect of the sidebar's first tip, once after it was mounted.
SidebarTourDue == shouldViewSidebarTour(config, screen.at) /\ ~screen.mounted
StartSidebarTour ==
    /\ SidebarTourDue /\ screen' = [screen EXCEPT !.mounted = TRUE]
    /\ patches' = IF At(config) = [category |-> "board", step |-> FINISHED]
                  THEN Append(patches, patchUserConfig(Place("sidebar", 0), "")) ELSE patches
    /\ UNCHANGED <<prefs, config, troubles, tourActs>>

\* The effect of the board, after every time it is rendered.
shouldStartBoardsTour == config.started /\ screen.at \in {"table", "board"} /\ At(config) = [category |-> "card", step |-> FINISHED]
startBoardsTour ==
    /\ shouldStartBoardsTour /\ Len(patches) <= TourBusy
    /\ Send(patchUserConfig(Place("board", 0), ""))
    /\ UNCHANGED <<prefs, config, screen, troubles, tourActs>>

-----------------------------------------------------------------------------
TourAct == troubles \subseteq {"refused"} /\ tourActs < TourActs /\ Len(patches) <= TourBusy /\ ~SidebarTourDue /\ tourActs' = tourActs + 1
Stays == UNCHANGED <<prefs, config, troubles>>
Shown == IF screen.hidden THEN {} ELSE TourTipRenderer(screen.at)
Hide == screen' = [screen EXCEPT !.hidden = TRUE]

\* savePreferences: the step alone, or with the category.
handleSavePreferences(step) == Hide /\ Send(patchUserConfig([step |-> step], ""))
handleNext == \E t \in Shown :
    /\ TourAct /\ Stays /\ t.buttons
    /\ handleSavePreferences(IF getLastStep(t.category) = config.step THEN FINISHED ELSE config.step + 1)
handlePrevious == \E t \in Shown : TourAct /\ Stays /\ t.buttons /\ t.step # 0 /\ handleSavePreferences(config.step - 1)
ChooseDot == \E t \in Shown : t.category # "onboarding" /\ TourAct /\ Stays /\ \E i \in TourCategoriesMapToSteps[t.category] : handleSavePreferences(i)
handleHide == \E t \in Shown : TourAct /\ Stays /\ t.backdrop /\ Hide /\ UNCHANGED patches
handleOpen == screen.hidden /\ TourTipRenderer(screen.at) # {} /\ TourAct /\ Stays /\ screen' = [screen EXCEPT !.hidden = FALSE] /\ UNCHANGED patches

handleSendToNextTour(category) ==
    LET i == CHOOSE i \in DOMAIN TOUR_ORDER : TOUR_ORDER[i] = category
    IN  Send(patchUserConfig(IF i = Len(TOUR_ORDER) THEN Place(category, FINISHED) ELSE Place(TOUR_ORDER[i + 1], 0), ""))
CloseTip == \E t \in Shown : TourAct /\ Stays /\ handleSendToNextTour(t.category) /\ Hide
ClickBackdrop == \E t \in Shown : TourAct /\ Stays /\ t.backdrop /\ handleSendToNextTour(t.category) /\ UNCHANGED screen

\* AddPropertiesTourStep's effect: when the card is opened, and whenever it changes.
StartCardTour == IF config.started /\ At(config) = [category |-> "onboarding", step |-> 0]
                 THEN Send(patchUserConfig(Place("card", 0), "")) ELSE UNCHANGED patches
GoTo(at) == screen' = Render([screen EXCEPT !.at = at], config)
OpenCard == screen.at \in {"board", "table"} /\ TourAct /\ Stays /\ GoTo("card") /\ StartCardTour
EditCard ==
    /\ screen.at = "card" /\ TourAct /\ Stays /\ StartCardTour
    /\ screen' = Render([screen EXCEPT !.described = ~@], config)
CloseCard == screen.at = "card" /\ TourAct /\ Stays /\ GoTo("board") /\ UNCHANGED patches
OpenBoard(at) == screen.at \in NoCard /\ at # screen.at /\ TourAct /\ Stays /\ GoTo(at) /\ UNCHANGED patches

\* WelcomePage, which the route shows until it was viewed.
skipTour == screen.at = "welcome" /\ TourAct /\ Stays /\ Send(patchUserConfig([viewed |-> TRUE], "skip")) /\ UNCHANGED screen
startTour == screen.at = "welcome" /\ TourAct /\ Stays /\ Send(patchUserConfig([viewed |-> TRUE], "start")) /\ UNCHANGED screen

\* The menu's product tour, and the template selector when the welcome board was chosen.
Restarted == [category |-> "onboarding", step |-> 0, started |-> TRUE]
ProductTour == screen.at # "welcome" /\ TourAct /\ Stays /\ Send(patchUserConfig(Restarted, "restart")) /\ UNCHANGED screen
resetTour == screen.at \in NoCard /\ TourAct /\ Stays /\ Send(patchUserConfig(Restarted, "")) /\ GoTo("board")

-----------------------------------------------------------------------------
\* External: the server patches the preferences and answers all of them, or refuses once;
\* PrepareOnboarding makes the board and starts the tour.
Prepares == {"prepare", "prepareAgain"}
Patched(fields) == [f \in DOMAIN prefs |-> IF f \in DOMAIN fields THEN fields[f] ELSE prefs[f]]
ServePrefs(i, refuses) ==
    LET a == patches[i]
        new == Patched(IF a.then \in Prepares THEN Restarted ELSE a.fields)
    IN  /\ ~a.served /\ (refuses => a.then # "fetchMe" /\ troubles = {})
        /\ prefs' = IF refuses THEN prefs ELSE new
        /\ patches' = [patches EXCEPT ![i] = [a EXCEPT !.served = TRUE, !.answer = IF refuses THEN <<>> ELSE new]]
        /\ troubles' = troubles \cup (IF refuses THEN {"refused"} ELSE {})
               \cup {"overtaken" : j \in {j \in 1..(i - 1) : ~patches[j].served}}
               \cup (IF "category" \notin DOMAIN a.fields /\ "step" \in DOMAIN a.fields /\ a.seen.category # prefs.category THEN {"outdated"} ELSE {})
               \cup (IF a.then \in Prepares /\ (Len(patches) > 1 \/ (a.then = "prepareAgain" /\ {a.seen, At(prefs)} # {At(Restarted)})) THEN {"outdated"} ELSE {})
        /\ UNCHANGED <<config, screen, tourActs>>

\* patchProps: an answer replaces all that the store has; an answer that is none leaves it,
\* and so does that of prepareOnboarding. The route shows the welcome page until it was viewed.
Known(a) == IF a.answer = <<>> \/ a.then \in Prepares THEN config ELSE a.answer
FBRoute(c, at) == IF ~c.viewed THEN "welcome" ELSE IF at = "welcome" THEN "home" ELSE at
Then(a) ==
    CASE a.then = "skip" -> <<patchUserConfig(Place("sidebar", FINISHED), "")>>
      [] a.then = "start" -> <<Request("prepare")>>
      [] a.then = "prepare" -> <<Request("fetchMe")>>
      [] a.then = "restart" -> <<Request("prepareAgain")>>
      [] OTHER -> <<>>
Answer(i) ==
    LET a == patches[i]
        c == Known(a)
        to == IF a.then \in {"fetchMe", "prepareAgain"} THEN (IF c.started /\ a.answer # <<>> THEN "board" ELSE "home") ELSE screen.at
    IN  /\ a.served /\ ~SidebarTourDue
        /\ config' = c /\ screen' = Render([screen EXCEPT !.at = FBRoute(c, to)], c)
        /\ patches' = RemoveAt(patches, i) \o Then(a)
        /\ troubles' = IF i > 1 THEN troubles \cup {"overtaken"} ELSE troubles
        /\ UNCHANGED <<prefs, tourActs>>

TourInit ==
    /\ prefs = [started |-> FALSE, category |-> "", step |-> -1, viewed |-> FALSE] /\ config = prefs
    /\ screen = [at |-> "welcome", described |-> TRUE, hidden |-> FALSE, mounted |-> FALSE]
    /\ patches = <<>> /\ troubles = {} /\ tourActs = 0

TourNext ==
    \/ StartSidebarTour \/ startBoardsTour
    \/ handleNext \/ handlePrevious \/ ChooseDot \/ handleHide \/ handleOpen \/ CloseTip \/ ClickBackdrop
    \/ OpenCard \/ EditCard \/ CloseCard
    \/ \E at \in NoCard : OpenBoard(at)
    \/ skipTour \/ startTour \/ ProductTour \/ resetTour
    \/ \E i \in DOMAIN patches : Answer(i) \/ \E refuses \in BOOLEAN : ServePrefs(i, refuses)

TourSpec == TourInit /\ [][TourNext]_tourVars

-----------------------------------------------------------------------------
\* The tour is always at a step that its part has, or that part is over: the step and the
\* part are saved apart, by requests that may be under way together.
AtAStep ==
    prefs.started /\ "outdated" \notin troubles /\ "overtaken" \notin troubles =>
        prefs.step \in TourCategoriesMapToSteps[prefs.category] \cup {FINISHED}

\* When nothing is under way the page is where the server says, also after the user, the
\* board's effect and the card's have asked at the same time and some were refused.
SamePlace == patches = <<>> /\ troubles \subseteq {"refused"} => At(config) = At(prefs)

\* The tour that has begun can always go on: until it is over there is a screen with a tip,
\* or one that starts the next part.
GoesOn ==
    patches = <<>> /\ config.started /\ troubles = {} /\ screen.described /\ At(config) # [category |-> "sidebar", step |-> FINISHED] =>
        \/ \E at \in NoCard \cup {"card"} : TourTipRenderer(at) # {}
        \/ At(config) \in {[category |-> "card", step |-> FINISHED], [category |-> "board", step |-> FINISHED]}

\* The tour of a user is at a step that exists, where the server says, and can go on
\* (tutorial_tour_tip, onboardingTour).
TourKept == AtAStep /\ SamePlace /\ GoesOn
=============================================================================
