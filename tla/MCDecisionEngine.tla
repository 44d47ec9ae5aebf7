-------------------------- MODULE MCDecisionEngine --------------------------
(***************************************************************************)
(* DecisionEngine for TLC. Five bundles: a long setup with a CHOCH against *)
(* it since its BOS, a short one after hours, a long one in a blackout, a  *)
(* poor one, and no data; apart, one in the band the rules only observe.   *)
(***************************************************************************)
EXTENDS DecisionEngine

Zone(tf, bull, low, high) ==
    [tf |-> tf, bull |-> bull, low |-> low, high |-> high, status |-> "open",
     disp |-> 15, top |-> tf = "H1"]
Level(e) == [event |-> e, dist |-> 1]
Profile(status) == [developing |-> FALSE, status |-> status]
Event(up, close, at) == [up |-> up, close |-> close, at |-> at]

Setup(bull) ==
    LET d == IF bull THEN 1 ELSE -1
    IN  [ts |-> 10 * 60, offset |-> 0, price |-> 20000, atr |-> 20,
         session |-> None,
         liquidity |-> [above |-> {20100}, below |-> {19900}, sl |-> 1],
         zones |-> {Zone("H1", bull, 19990, 20010), Zone("M5", bull, 19995, 20005)},
         vwap |-> [cluster |-> TRUE,
                   levels |-> <<Level(IF bull THEN "reclaim" ELSE "loss")>>],
         vr |-> [yearly |-> Profile("above"), monthly |-> Profile("above"),
                 weekly |-> Profile("within"), accepted |-> 10,
                 rotation |-> TRUE, breakout |-> TRUE],
         momentum |-> [score |-> 90, displaced |-> TRUE,
                       m5 |-> [closePos |-> 5 + 4 * d, body |-> 8]],
         news |-> [blackout |-> FALSE, minutes |-> None],
         structure |-> [bos |-> Event(bull, 20000, 1), choch |-> None],
         levels |-> {20001}]

MCBundles == <<
    [Setup(TRUE) EXCEPT !.structure.choch = Event(FALSE, 19990, 2)],
    [Setup(FALSE) EXCEPT !.ts = 23 * 60],
    [Setup(TRUE) EXCEPT !.news = [blackout |-> TRUE, minutes |-> 5]],
    [Setup(TRUE) EXCEPT !.zones = {}, !.vwap = None, !.momentum.score = 10],
    [Setup(TRUE) EXCEPT !.zones = None, !.vwap = None, !.vr = None, !.news = None,
         !.momentum = None, !.liquidity = None, !.structure = None]>>
ObservedBundles == <<[Setup(TRUE) EXCEPT !.vwap = None, !.momentum.score = 10]>>

Answer(decision, side, low, high) ==
    [decision |-> decision, side |-> side, min |-> low, max |-> high]
MCAnswers == {Answer("full_entry", "short", 20003, None),
              Answer("reduced_entry", None, None, None),
              Answer("scout", "long", 30000, 30001),
              Answer("watch", None, None, None)}

MCSettings == [enabled |-> TRUE, start |-> 0, end |-> 22 * 60 + 55, tz |-> 0,
               flat |-> TRUE, cutoff |-> 20 * 60 + 55]

\* Samples for the pure parts
ZoneSets == {None, {}} \cup
    {{Zone("H1", h, 19990, 20000 + e)} \cup m :
        h \in BOOLEAN, e \in {-5, 10},
        m \in {{}, {Zone("M5", TRUE, 19995, 20005)}, {Zone("H1", TRUE, 19980, 20020)}}}
Session(name) ==
    [name |-> name, risk |-> 5, sweep |-> TRUE, eqHighs |-> TRUE, eqLows |-> FALSE]
\* A CHOCH_DOWN comes only after a BOS_UP; the last BOS may be newer still.
Structures == {None} \cup
    [bos : {Event(TRUE, 20000, 2), Event(TRUE, 20095, 2), Event(FALSE, 20000, 2)},
     choch : {None, Event(FALSE, 19990, 1)}]
MCSamples ==
    {[Setup(TRUE) EXCEPT !.session = Session(n), !.zones = z,
          !.vwap.levels = <<Level(e), Level("none")>>,
          !.momentum.m5.closePos = c, !.news.blackout = (c = 1), !.news.minutes = 20,
          !.vr.yearly.status = v, !.vr.weekly.status = w, !.structure = s] :
        n \in {"asia", "london"}, z \in ZoneSets, e \in {"reclaim", "cross_down", "none"},
        c \in {1, 5, 9}, v \in {"above", "within"}, w \in {"above", "below"},
        s \in Structures}
=============================================================================
