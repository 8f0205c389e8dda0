----------------------------- MODULE MCBannerVisit -----------------------------
(***************************************************************************)
(* Small sites for BannerVisit.  E(up, tag) is an element with nothing     *)
(* remarkable; a site's parts are written as changes to it.                *)
(***************************************************************************)
EXTENDS BannerVisit

E(up, tag) == [NoDoc[1] EXCEPT !.up = up, !.tag = tag, !.area = 1]
Doc(elements) == <<E(1, "html"), E(1, "body")>> \o elements
WithCMP(doc, api, id) == [doc EXCEPT ![Html].api = api, ![Html].cmp_id = id]

Div(up) == E(up, "div")
Fixed(up) == [E(up, "div") EXCEPT !.fixed = TRUE]
Notice(up, says) == [E(up, "p") EXCEPT !.says = says, !.words = 4]
Button(up, offers) == [E(up, "button") EXCEPT !.offers = offers, !.words = 1]
Frame(up, d) == [E(up, "iframe") EXCEPT !.doc = d]

CookieBox == Doc(<<Fixed(2), Notice(3, {"cookies", "cookie"}),
                   Button(3, {"accept"})>>)

\* A fixed banner to accept, one label of which only disagrees, and a span
\* with the words in its class.
AcceptSite ==
  << Doc(<<Fixed(2), Notice(3, {"cookies", "cookie"}), Button(3, {"accept"}),
           Button(3, {"disagree"}),
           [E(3, "p") EXCEPT !.offers = {"accept"}, !.hints = {"accept"},
                             !.words = 1]>>) >>

\* Labels in one button, of which one only disagrees, and an icon.
LabelSite ==
  << Doc(<<Fixed(2), Notice(3, {"cookies", "cookie"}), E(3, "button"),
           [E(5, "p") EXCEPT !.offers = {"accept"}, !.words = 1],
           [E(5, "p") EXCEPT !.offers = {"disagree"}, !.words = 1],
           E(3, "button"),
           [E(8, "p") EXCEPT !.offers = {"accept"}, !.words = 1,
                             !.hints = {"accept"}]>>) >>

\* A banner in a button that is around other things too.
WidgetSite ==
  << Doc(<<E(2, "button"), Fixed(3), Notice(4, {"cookies", "cookie"}),
           [E(4, "p") EXCEPT !.offers = {"accept"}, !.words = 1]>>) >>

\* Rejecting takes the settings, then a button outside the banner.
SettingsSite ==
  << Doc(<<Fixed(2), Notice(3, {"cookies", "cookie"}), Button(3, {"settings"}),
           [Button(2, {"reject"}) EXCEPT !.hints = {"reject"}]>>) >>

\* A banner in the page and one in a frame, each with a CMP; one is not on
\* the list.
FrameSite ==
  << WithCMP(Doc(<<Fixed(2), Notice(3, {"cookie", "Cookie", "topic"}),
                   Button(3, {"reject"}), Frame(2, 2)>>),
             {"__tcfapi", "__tcfapiLocator"}, 1),
     WithCMP(CookieBox, {"__cmp", "__tcfapi"}, 2) >>
MCCMPs == <<FALSE>>

\* A frame with nothing, one whose child has the banner.
NestedSite ==
  << Doc(<<Frame(2, 2), Frame(2, 3)>>), Doc(<<Div(2)>>),
     Doc(<<Div(2), Frame(3, 4)>>), CookieBox >>

\* A frame in which calls raise hides the next one.
DeadFrameSite ==
  << Doc(<<[Frame(2, 2) EXCEPT !.dead = TRUE], Frame(2, 3)>>),
     Doc(<<Div(2)>>), CookieBox >>

\* A shadow tree; one of its buttons has no twin.
ShadowSite ==
  << Doc(<<[Div(2) EXCEPT !.root = 2]>>),
     Doc(<<Div(2), Fixed(3), Notice(4, {"cookie", "topic"}),
           [Button(4, {"accept"}) EXCEPT !.twin = TRUE],
           Button(4, {"accept"})>>) >>

\* Several fixed banners: the first asks to sign in, the second is short.
DecoySite ==
  << Doc(<<Fixed(2), Notice(3, {"cookies", "cookie"}),
           [E(3, "p") EXCEPT !.mail = TRUE],
           Fixed(2), [Notice(6, {"cookies", "cookie"}) EXCEPT !.words = 1],
           [E(2, "list") EXCEPT !.fixed = TRUE],
           Notice(8, {"cookies", "cookie"}),
           [Fixed(2) EXCEPT !.hidden = TRUE],
           Notice(10, {"cookies", "cookie"})>>) >>

\* Settings with more than three ways to reject.
ManySite ==
  << Doc(<<Fixed(2), Notice(3, {"cookies", "cookie"}), Button(3, {"settings"}),
           Div(2), Button(6, {"reject"}), Button(6, {"reject", "all"}),
           [Button(6, {"reject"}) EXCEPT !.thin = TRUE],
           [E(6, "p") EXCEPT !.offers = {"reject"}, !.words = 1],
           [E(6, "p") EXCEPT !.offers = {"reject"}, !.words = 1, !.btn = TRUE]>>) >>

\* Forms of a banner made of two boxes around a notice: which keywords lead
\* to it, which of the boxes is fixed, whether the outer one is stacked, and
\* what else is particular about it.
Shape(k) ==
  [Div(2) EXCEPT !.area = IF k \in {"full", "clear"} THEN 10 ELSE 1,
                 !.clear = k = "clear", !.thin = k = "thin",
                 !.tag = IF k = "footer" THEN "footer" ELSE "div"]
TwoBoxes(k, f, w) ==
  << Doc(<< [Shape(k) EXCEPT !.fixed = f = 1, !.zindex = f = 3],
            [Div(3) EXCEPT !.fixed = f = 2],
            [Notice(4, w) EXCEPT !.below = k = "low"] >>) >>
Family ==
  {TwoBoxes(k, f, {"cookies", "cookie"}) :
     k \in {"plain", "full", "clear", "footer", "low", "thin"}, f \in 0..3}
  \cup {TwoBoxes("plain", f, w) : f \in 0..3, w \in {{"policy"}, {"class"}}}

MCSites == {AcceptSite, LabelSite, WidgetSite, SettingsSite, FrameSite, NestedSite, DeadFrameSite,
            ShadowSite, DecoySite, ManySite} \cup Family
MCModes == {"openwpm", "standalone"}
===============================================================================
