----------------------------- MODULE BannerSearch -----------------------------
(***************************************************************************)
(* How BannerClick searches a page for cookie banners and their buttons    *)
(* (bannerclick/utility, find_cookie_banners of bannerdetection.py).       *)
(*                                                                         *)
(* A site is a sequence of documents: the page is the first, the documents *)
(* of its frames and the clones of its shadow trees are the others.  A     *)
(* document is a sequence of elements in document order: html, body and    *)
(* what is in them (a clone hangs from element Clone).  Of an element the  *)
(* model keeps what the search asks the webdriver for:                     *)
(*   up      index of the parent                                           *)
(*   tag     "html", "body", "div" (div, form and section are alike except *)
(*           in IsInsideOptions, where only div counts: MC pages have no   *)
(*           other), "list" (table, tr, ul, ol, script), "footer",         *)
(*           "button", "iframe", "p" (anything else)                       *)
(*   fixed   position: fixed          zindex  an integer z-index above 5   *)
(*   hidden  display: none            below   starts below the viewport    *)
(*   area    size in tenths of the window, thin: a side under 5 pixels     *)
(*   clear   opacity or background alpha under 1                           *)
(*   words   words of its own text    mail    an input that asks for mail  *)
(*   says    the keywords in its own text ("cookies", "cookie", "Cookie",  *)
(*           "topic", "policy") and attributes ("class", "id")             *)
(*   offers  what its own text offers ("accept", "disagree", "reject",     *)
(*           "settings", "login", "all"); hints: what class and id offer   *)
(*   btn     class or id contains "btn" or "button"                        *)
(*   doc     the document of a frame; dead: calls in it raise              *)
(*   root    the clone of its shadow tree, 0 if there is none or no child  *)
(*           has an id; twin: an element of the shadow tree has the same   *)
(*           classes and text as this one of the clone                     *)
(*   api, cmp_id  of html: the consent APIs its document offers, and the   *)
(*           CMP that answers there                                        *)
(* Elements with the same text are those that show the same elements.      *)
(***************************************************************************)
EXTENDS Naturals, SequencesExt

NoElement == 0
Page == 1
Html == 1
Body == 2
Clone == 3

\* In document order a parent comes before its children; of html only body is
\* seen (head shows nothing); every frame and shadow tree has its document.
IsDocument(doc) ==
  /\ doc \in Seq(Range(doc)) /\ doc # <<>>
  /\ \A e \in DOMAIN doc \ {Html} :
       doc[e].up \in DOMAIN doc /\ doc[e].up < e /\ (e > Body => doc[e].up # Html)
IsSite(site) ==
  /\ site \in Seq(Range(site)) /\ site # <<>>
  /\ \A d \in DOMAIN site :
       /\ IsDocument(site[d])
       /\ \A e \in DOMAIN site[d] :
            /\ site[d][e].tag = "iframe" => site[d][e].doc \in DOMAIN site
            /\ site[d][e].root # 0 => site[d][e].root \in DOMAIN site

\* What the list has of a set.
Chosen(list, set) ==
  FoldLeft(LAMBDA l, e : IF e \in set THEN Append(l, e) ELSE l, <<>>, list)

----------------------------------------------------------------------------
(* elementMethods.py: climbing.                                            *)

\* The element, its parent, and so on up to html.
Ancestry(doc) ==
  LET line[e \in DOMAIN doc] ==
        IF e = Html THEN <<e>> ELSE <<e>> \o line[doc[e].up]
  IN line

FindDepth(doc, e) == Len(Ancestry(doc)[e]) - 1

\* The nearest of the element and its ancestors below html with a property.
Nearest(doc, e, Test(_)) ==
  LET line == Front(Ancestry(doc)[e])
      i == SelectInSeq(line, Test)
  IN IF i = 0 THEN NoElement ELSE line[i]

FindFixedAncestor(doc, e) == Nearest(doc, e, LAMBDA a : doc[a].fixed)
FineAncestorWithIntZindex(doc, e) == Nearest(doc, e, LAMBDA a : doc[a].zindex)
IsInFooter(doc, e) ==
  Nearest(doc, e, LAMBDA a : doc[a].tag = "footer") # NoElement

\* A list is climbed to only through elements that are no div.
IsInsideOptions(doc, e) ==
  LET a == Nearest(doc, e, LAMBDA x : doc[x].tag \in {"list", "div"})
  IN a # NoElement /\ doc[a].tag = "list"

\* At most four parents up; the attributes are those of the element itself.
InsideButton(doc, e) ==
  LET line == Front(Ancestry(doc)[e])
      i == SelectInSeq(SubSeq(line, 1, Min({5, Len(line)})),
                       LAMBDA a : doc[a].tag = "button")
  IN IF e # Html /\ doc[e].btn THEN e
     ELSE IF i = 0 THEN NoElement ELSE line[i]

IsHidden(doc, e) == \E a \in Range(Ancestry(doc)[e]) : doc[a].hidden
IsInsideViewport(doc, e) == ~doc[e].below
IsOneDimension(doc, e) == doc[e].thin

Below(doc, e) == {d \in DOMAIN doc \ {e} : Contains(Ancestry(doc)[d], e)}

\* The visible text of an element, as the elements that contribute to it.
Text(doc, e) ==
  {d \in Below(doc, e) \cup {e} : doc[d].words > 0 /\ ~IsHidden(doc, d)}

WordCount(doc, e) == MapThenSumSet(LAMBDA d : doc[d].words, Text(doc, e))
HasEnoughWord(doc, e) == WordCount(doc, e) > 3
IsWordy(doc, e) == WordCount(doc, e) > 5
IsSigninBanner(doc, e) == \E d \in Below(doc, e) : doc[d].mail

\* The first of the deepest elements; none if all are html.
FindDeepest(doc, els) ==
  FoldLeft(LAMBDA best, e :
             IF FindDepth(doc, e) > (IF best = NoElement THEN 0
                                     ELSE FindDepth(doc, best))
             THEN e ELSE best, NoElement, els)

\* The elements from an ancestor down to an element.
FindPath(doc, from, to) ==
  LET line == Ancestry(doc)[to]
  IN Reverse(SubSeq(line, 1, SelectInSeq(line, LAMBDA a : a = from)))

----------------------------------------------------------------------------
(* elementMethods.py: filters.                                             *)

\* list.remove drops one occurrence for each entry found in the list.
EntriesToRemove(entries, list) ==
  FoldLeft(LAMBDA l, e : RemoveFirst(l, e), list, entries)

IsUnrelated(doc, e, strict) ==
  \/ IsInsideOptions(doc, e)
  \/ ~IsInsideViewport(doc, e)
  \/ /\ FindFixedAncestor(doc, e) = NoElement
     /\ \/ strict
        \/ /\ FineAncestorWithIntZindex(doc, e) = NoElement
           /\ IsInFooter(doc, e)

Without(els, bad) == EntriesToRemove(Chosen(els, bad), els)

Hidden(doc, els) == {e \in Range(els) : IsHidden(doc, e)}

\* Variant: the elements inside lists and below the viewport stay.
PruningElsOfInvisible(doc, els, strict) == Without(els, Hidden(doc, els))
\* del_unrelated_els, then del_invisible_els.
PruningEls(doc, els, strict) ==
  LET related == Without(els, {e \in Range(els) : IsUnrelated(doc, e, strict)})
  IN Without(related, Hidden(doc, related))

\* An ordered dictionary from ancestors to the last of their elements.
Put(dict, a, e) ==
  LET i == SelectInSeq(dict, LAMBDA pair : pair[1] = a)
  IN IF a = NoElement THEN dict
     ELSE IF i = 0 THEN Append(dict, <<a, e>>)
     ELSE ReplaceAt(dict, i, <<a, e>>)
ByAncestor(els, ancestor) ==
  FoldLeft(LAMBDA dict, e : Put(dict, ancestor[e], e), <<>>, els)

FindFixedAncestors(doc, els) ==
  ByAncestor(els, [e \in Range(els) |-> FindFixedAncestor(doc, e)])
FindByZindex(doc, els) ==
  ByAncestor(els, [e \in Range(els) |-> FineAncestorWithIntZindex(doc, e)])

----------------------------------------------------------------------------
(* utilityMethods.py: the optimal element.                                 *)

IsSizeEqualToWin(doc, e) == doc[e].area > 9

\* A child on the path with the same text and more than a tenth of the window
\* smaller.
IsThereMajorChild(doc, e, children) ==
  \E c \in Range(children) : /\ Text(doc, c) = Text(doc, e)
                             /\ doc[e].area > doc[c].area + 1
                             /\ ~IsOneDimension(doc, c)

\* The element k of the path need not shrink further.
IsFine(doc, path, k, frame) ==
  /\ doc[path[k]].tag = "div"
  /\ ~IsOneDimension(doc, path[k])
  /\ ~(/\ \/ ~frame /\ IsSizeEqualToWin(doc, path[k])
         \/ doc[path[k]].clear
       /\ IsThereMajorChild(doc, path[k], SubSeq(path, k + 1, Len(path))))

\* The first such element on the path, or its end.
ShrinkAlong(doc, path, frame) ==
  path[Min({k \in DOMAIN path : k = Len(path) \/ IsFine(doc, path, k, frame)})]

FindOptimal(doc, from, to, frame) ==
  ShrinkAlong(doc, FindPath(doc, from, to), frame)

----------------------------------------------------------------------------
(* The search for the words.                                               *)

InOrder(doc, set) == Chosen([e \in DOMAIN doc |-> e], set)

\* The queries of a tier, made one after the other so that an element may
\* occur twice, and whether the tier is strict.  A query is a set of
\* alternatives.
Tiers ==
  << [queries |-> << {{"cookies"}} >>, strict |-> FALSE],
     [queries |-> << {{"cookie", "topic"}}, {{"Cookie", "topic"}} >>,
      strict |-> FALSE],
     [queries |-> << {{"cookie"}, {"Cookie"}, {"policy"}} >>, strict |-> TRUE],
     [queries |-> << {{"class"}} >>, strict |-> TRUE],
     [queries |-> << {{"id"}} >>, strict |-> TRUE] >>

TierEls(doc, origin, tier) ==
  LET Query(alternatives) ==
        InOrder(doc, {e \in Below(doc, origin) :
                        \E words \in alternatives : words \subseteq doc[e].says})
  IN FlattenSeq([q \in DOMAIN tier.queries |-> Query(tier.queries[q])])

\* The first tier of which something is left.
FindElsWithCookie(doc, origin) ==
  LET FirstHit(left) ==
        SelectInSeq(left, LAMBDA els : els # <<>>)
      Pick(left) == IF FirstHit(left) = 0 THEN <<>> ELSE left[FirstHit(left)]
  IN Pick([t \in DOMAIN Tiers |-> PruningEls(doc, TierEls(doc, origin, Tiers[t]),
                                            Tiers[t].strict)])

----------------------------------------------------------------------------
(* Banners.  kind "plain" is an element; the others are pairs of a host in *)
(* the page (frame or shadow host) and an element of another document;     *)
(* with "nested", the element is in the frame child of the host's document.*)

Banner(kind, host, child, doc, el) ==
  [kind |-> kind, host |-> host, child |-> child, doc |-> doc, el |-> el]

IsPair(banner) == banner.kind # "plain"

IFrames(doc) == InOrder(doc, {e \in DOMAIN doc : doc[e].tag = "iframe"})

\* What a frame shows, found from the deepest keyword.
InFrame(site, d) ==
  LET Banners(els) ==
        IF els = <<>> THEN NoElement
        ELSE FindOptimal(site[d], Body, FindDeepest(site[d], els), TRUE)
  IN Banners(FindElsWithCookie(site[d], Html))

\* The frames in the document d of frame f of the page: the first that has a
\* banner or raises.  An exception is swallowed where it occurs and leaves the
\* driver there (ctx), so that the switch to the page's next frame fails.
TryChild(site, s, f, d, c) ==
  LET Nested(e) ==
        IF e = NoElement THEN s
        ELSE [s EXCEPT !.found = <<Banner("nested", f, c, site[d][c].doc, e)>>]
  IN IF s.found # <<>> \/ s.ctx # Page THEN s
     ELSE IF site[d][c].dead THEN [s EXCEPT !.ctx = site[d][c].doc]
     ELSE Nested(InFrame(site, site[d][c].doc))

TryChildren(site, s, f, d) ==
  FoldLeft(LAMBDA t, c : TryChild(site, t, f, d, c), s, IFrames(site[d]))

\* One iteration over the frames of the page.
TryFrame(site, s, f) ==
  LET d == site[Page][f].doc
      Shows(e) ==
        IF e = NoElement THEN TryChildren(site, s, f, d)
        ELSE [s EXCEPT !.found = <<Banner("frame", f, 0, d, e)>>]
  IN IF s.found # <<>> \/ s.ctx # Page THEN s
     ELSE IF site[Page][f].dead THEN [s EXCEPT !.ctx = d]
     ELSE Shows(InFrame(site, d))

\* Frames of the page in order, the hidden ones left out.
FindCMPCookiesIframes(site) ==
  LET frames == Chosen(IFrames(site[Page]),
                       {f \in DOMAIN site[Page] : ~IsHidden(site[Page], f)})
  IN FoldLeft(LAMBDA s, f : TryFrame(site, s, f),
              [found |-> <<>>, ctx |-> Page], frames).found

\* The elements under an origin that pass for banners: from each fixed
\* ancestor down to its last keyword, else from each stacked one, else from
\* the origin to the deepest keyword.
OptimalEls(doc, origin, els) ==
  LET Or(map, other) == IF map # <<>> THEN map ELSE other
      Roots == Or(FindFixedAncestors(doc, els),
                  Or(FindByZindex(doc, els),
                     << <<origin, FindDeepest(doc, els)>> >>))
      Optimal(map) == [k \in DOMAIN map |->
                         FindOptimal(doc, map[k][1], map[k][2], FALSE)]
      Passing(list) == Chosen(list, {e \in Range(list) :
                                       /\ IsInsideViewport(doc, e)
                                       /\ HasEnoughWord(doc, e)
                                       /\ ~IsSigninBanner(doc, e)})
  IN IF els = <<>> THEN <<>> ELSE Passing(Optimal(Roots))

BannersUnder(site, d, origin) ==
  LET Plain(els) ==
        [k \in DOMAIN els |-> Banner("plain", NoElement, 0, d, els[k])]
      InView(list) ==
        Chosen(list, {b \in Range(list) : IsInsideViewport(site[Page], b.host)})
  IN Plain(OptimalEls(site[d], origin, FindElsWithCookie(site[d], origin)))
       \o InView(FindCMPCookiesIframes(site))

\* Children and grandchildren of the body that host a shadow tree.
ShadowHosts(doc) ==
  LET depth(n) == InOrder(doc, {e \in DOMAIN doc : /\ doc[e].root # 0
                                                   /\ FindDepth(doc, e) = n})
  IN depth(2) \o depth(3)

\* The first banner of each.
FindShadowdomBanners(site) ==
  LET First(h, banners) ==
        IF banners = <<>> THEN <<>>
        ELSE <<Banner("shadow", h, 0, site[Page][h].root, banners[1].el)>>
      Of(h) == First(h, BannersUnder(site, site[Page][h].root, Clone))
      All(hosts) == FlattenSeq([k \in DOMAIN hosts |-> Of(hosts[k])])
  IN All(ShadowHosts(site[Page]))

FindCookieBanners(site) ==
  LET Or(banners) ==
        IF banners # <<>> THEN banners ELSE FindShadowdomBanners(site)
  IN Or(BannersUnder(site, Page, Body))

----------------------------------------------------------------------------
(* Buttons.                                                                *)

\* The words of a choice; "agree" is part of "disagree".
Words(choice) == CASE choice = 1 -> {"accept", "disagree"}
                   [] choice = 2 -> {"reject", "disagree"}
                   [] choice = 3 -> {"settings"}
                   [] choice = 4 -> {"login"}

TextOffers(doc, e) == UNION {doc[d].offers : d \in Text(doc, e)}

IfContainsWords(doc, e, words, check_attr) ==
  \/ TextOffers(doc, e) \cap words # {}
  \/ check_attr /\ doc[e].hints \cap words # {}

\* What pruning_btns leaves.
IsShownButton(doc, e) ==
  ~IsWordy(doc, e) /\ ~IsOneDimension(doc, e) /\ ~IsHidden(doc, e)

\* The order of the buttons is that of a set: any.
FindBtnsByList(doc, el, words, html_attr) ==
  {e \in Below(doc, el) :
     /\ (IF html_attr THEN doc[e].hints ELSE doc[e].offers) \cap words # {}
     /\ IsShownButton(doc, e)}

\* Variant: buttons that disagree are taken for acceptance.
ExtractBtnsAll(doc, el, choice, shadow, non_explicit) ==
  FindBtnsByList(doc, el, Words(choice), non_explicit)
\* extract_btns; of a clone, only what has a twin in the shadow tree.
ExtractBtns(doc, el, choice, shadow, non_explicit) ==
  {e \in FindBtnsByList(doc, el, Words(choice), non_explicit) :
     /\ choice = 1 => ~IfContainsWords(doc, e, {"disagree"}, TRUE)
     /\ shadow => doc[e].twin}

KeepElsWithAll(doc, els) ==
  {e \in els : IfContainsWords(doc, e, {"all"}, FALSE)}

FindTagButtons(doc, els) == {e \in els : InsideButton(doc, e) # NoElement}

----------------------------------------------------------------------------
(* Clicks.  What they do to the page is not looked at.  A click: whether    *)
(* the button is taken for clicked, what got keys or clicks (pressed), and  *)
(* whose parents were clicked for want of that (parents).                   *)

Click(ok, pressed, parents) == [ok |-> ok, pressed |-> pressed, parents |-> parents]

SaysSame(doc, d, e) == Text(doc, d) = Text(doc, e)

\* Variant: whatever the button around the element says, that is pressed.
BtnAround(doc, el) == IF InsideButton(doc, el) = NoElement THEN el
                      ELSE InsideButton(doc, el)
\* btn of click_and_check: the button around it, if it says the same.
Btn(doc, el) ==
  LET btn_tag == InsideButton(doc, el)
  IN IF btn_tag # NoElement /\ SaysSame(doc, btn_tag, el) THEN btn_tag ELSE el

\* Keys, or else a click, for btn; or else a click for its parent; or nothing
\* worked.  Outside the settings what is inside a button counts as clicked
\* then.  Anything else is looked at, twice if need be, and `clickable' clicks
\* btn again to see whether it can: if it is not taken for clicked, it was.
ClickAndCheck(doc, el, in_set) ==
  LET btn == Btn(doc, el)
      parent == doc[btn].up
      Once == {Click(TRUE, {btn}, {}), Click(TRUE, {}, {parent})}
      Again == {Click(ok, {btn}, parents) : ok \in BOOLEAN,
                                            parents \in {{}, {parent}}}
  IN {Click(FALSE, {}, {})} \cup Once
       \cup (IF InsideButton(doc, el) # NoElement /\ ~in_set THEN {} ELSE Again)

\* Variant: the parent is tried whatever it says.
ClickAlsoAnyParent(doc, el, in_set) ==
  UNION {IF first.ok THEN {first}
         ELSE {Click(then.ok, first.pressed \cup then.pressed,
                     first.parents \cup then.parents) :
                 then \in ClickAndCheck(doc, doc[el].up, in_set)} :
           first \in ClickAndCheck(doc, el, in_set)}
\* An iteration of click_on_btns: the element and, if that is not taken for
\* clicked, its parent if it says the same.
ClickOnBtn(doc, el, in_set) ==
  UNION {IF first.ok \/ ~SaysSame(doc, el, doc[el].up) THEN {first}
         ELSE {Click(then.ok, first.pressed \cup then.pressed,
                     first.parents \cup then.parents) :
                 then \in ClickAndCheck(doc, doc[el].up, in_set)} :
           first \in ClickAndCheck(doc, el, in_set)}
===============================================================================
