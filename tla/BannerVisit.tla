------------------------------ MODULE BannerVisit ------------------------------
(***************************************************************************)
(* Visits of BannerClick in one process: CMPBCommand.execute               *)
(* (CMPB_commands.py) as the BrowserManager runs it, and                   *)
(* run_all_for_domain, the same without OpenWPM; with bannerdetection.py   *)
(* and cmpdetection.py.                                                    *)
(*                                                                         *)
(* A visit leaves its traces in the modules' globals, in the class Data    *)
(* and in the driver, whose current document (frame) decides which         *)
(* elements can be used.  Any call of the driver may raise: `pc` and       *)
(* `calls` say where the exception goes.  Of a global the model keeps the  *)
(* visit that assigned it last (`by`) and the value where the control flow *)
(* depends on it.  Configuration is that of bannerclick/config.py.         *)
(***************************************************************************)
EXTENDS BannerSearch, FiniteSets

CONSTANTS
  Sites,    \* the sites (module BannerSearch) that a visit may find
  CMPs,     \* the IAB list: a function from ids to whether a CMP is commercial
  Interactions, \* choices: 0 leave the banners alone, 1 accept, 2 reject,
                \* 4 log in
  Modes,    \* "openwpm", "standalone"
  Visits,   \* number of visits
  Attempts  \* ATTEMPTS

ASSUME VisitAssumption == /\ Interactions \subseteq {0, 1, 2, 4}
                          /\ Modes \subseteq {"openwpm", "standalone"}
                          /\ Visits \in Nat /\ Attempts \in Nat
                          /\ \A s \in Sites : IsSite(s)

VARIABLES
  mode,
  visit,        \* number of the visit
  pc,           \* where run_all_for_domain or execute is
  site, shown,  \* the site; whether its banner is on the page already
  choice,
  error_flag,   \* the site could not be reached; standalone: its url is ""
  bound,        \* current_url is bound
  ctx,          \* the document the driver is in
  attempt, i,   \* searches made, index into banners
  status,       \* Data.status or this_status
  banners, banners_data, CMP,
  btn_status,   \* of the banner under way: "none", "explicit" or
                \* "non_explicit" (the sign of the number in the code)
  data_btn,     \* Data.btn_status
  rej_flag,
  cmp_list,     \* whether CMP_list is loaded
  by,           \* the visit that assigned each global last
  calls,        \* stack of calls of interact_with_banner
  visit_db,     \* the rows of "visits"
  outcome,      \* how the last command ended
  failed,       \* history: a call of the driver failed in this visit
  twice,        \* history: a button was tried twice in a call
  undetected,   \* history: the detection of this visit raised
  unsaved       \* history: set_data_in_db raised in this visit

place   == <<mode, visit, site, choice, error_flag, bound, outcome>>
search  == <<shown, attempt, banners>>
data    == <<status, banners_data, CMP, data_btn, by, cmp_list>>
clicks  == <<btn_status, rej_flag, calls, twice>>
saving  == <<visit_db, unsaved, undetected>>
vars == <<place, search, data, clicks, saving, pc, ctx, i, failed>>

Globals == {"status", "url", "lang", "num_banners", "btn_status",
            "interact_time", "ttw", "nc_cmp_name", "CMP", "banners_data"}
Stamp(globals) ==
  by' = [g \in Globals |-> IF g \in globals THEN visit ELSE by[g]]

NoDoc == << [up |-> 1, tag |-> "html", fixed |-> FALSE, zindex |-> FALSE,
             hidden |-> FALSE, below |-> FALSE, area |-> 10, thin |-> FALSE,
             clear |-> FALSE, words |-> 0, mail |-> FALSE, says |-> {},
             offers |-> {}, hints |-> {}, btn |-> FALSE, doc |-> 0,
             dead |-> FALSE, root |-> 0, twin |-> FALSE, api |-> {},
             cmp_id |-> 0] >>
NoSite == <<NoDoc>>

----------------------------------------------------------------------------
(* config.py                                                               *)

SIMPLE_DETECTION == TRUE
NON_EXPLICIT == TRUE
REJ_IN_SET == TRUE
NC_ADDON == TRUE

\* cmpdetection.py asks a document: that in which the driver is.
HasCmp(doc) == "__cmp" \in doc[Html].api
HasTcfapi(doc) == "__tcfapi" \in doc[Html].api
HasTcfapiLocator(doc) == "__tcfapiLocator" \in doc[Html].api

\* What the ping returns: nothing (0) without the API or a callback in time.
GetCMPId(doc) == IF HasTcfapi(doc) THEN doc[Html].cmp_id ELSE 0
GetCMPNameById(id) == IF id \in DOMAIN CMPs THEN id ELSE 0
IsCMPPv(id) == id \in DOMAIN CMPs /\ ~CMPs[id]

CMPOf(doc) == [__cmp |-> HasCmp(doc), __tcfapi |-> HasTcfapi(doc),
               __tcfapiLocator |-> HasTcfapiLocator(doc),
               cmp_id |-> GetCMPId(doc),
               cmp_name |-> GetCMPNameById(GetCMPId(doc)),
               pv |-> IsCMPPv(GetCMPId(doc))]
NoCMP == {}

\* The globals of a process that has just started.
FreshGlobals ==
  /\ status' = "none" /\ CMP' = NoCMP /\ rej_flag' = FALSE
  /\ cmp_list' = FALSE /\ by' = [g \in Globals |-> 0]

Init ==
  /\ mode \in Modes /\ visit = 0 /\ pc = "idle"
  /\ site = NoSite /\ shown = FALSE /\ choice = 0
  /\ error_flag = FALSE /\ bound = FALSE /\ outcome = "none"
  /\ ctx = Page /\ attempt = 0 /\ i = 1
  /\ status = "none" /\ banners = <<>> /\ banners_data = <<>> /\ CMP = NoCMP
  /\ btn_status = "none" /\ data_btn = "none"
  /\ rej_flag = FALSE /\ cmp_list = FALSE
  /\ by = [g \in Globals |-> 0]
  /\ calls = <<>> /\ visit_db = <<>>
  /\ failed = FALSE /\ twice = FALSE /\ undetected = FALSE /\ unsaved = FALSE

----------------------------------------------------------------------------
(* Opening the page.                                                       *)

\* Every tab but a new one is closed: the driver is in no frame.
TabRestartBrowser == ctx' = Page

\* If tab_restart_browser or set_webdriver raises the visit is over:
\* CommandFails.
Begin ==
  /\ pc = "idle" /\ visit < Visits
  /\ visit' = visit + 1
  /\ site' \in Sites /\ choice' \in Interactions
  /\ error_flag' = FALSE /\ bound' = FALSE /\ outcome' = "none"
  /\ shown' = FALSE /\ attempt' = 0 /\ banners' = <<>>
  /\ TabRestartBrowser /\ failed' = FALSE /\ twice' = FALSE
  /\ undetected' = FALSE /\ unsaved' = FALSE /\ pc' = "get"
  /\ UNCHANGED <<mode, data, btn_status, rej_flag, calls, visit_db, i>>

\* The second try is made with www.
Get ==
  /\ pc = "get" /\ mode = "openwpm"
  /\ \E s \in {"loaded", "timeout", "unreachable"} :
       /\ status' = s
       /\ error_flag' = (s = "unreachable")
       /\ site' = IF s = "unreachable" THEN NoSite ELSE site
  /\ shown' \in BOOLEAN
  /\ Stamp({"status"})
  /\ pc' = "prepare"
  /\ UNCHANGED <<mode, visit, choice, bound, outcome, attempt, banners,
                 banners_data, CMP, data_btn, cmp_list, clicks,
                 saving, ctx, i, failed>>

\* What init_data and the class body of run_all_for_domain assign.
DataFields == {"url", "btn_status", "interact_time", "ttw", "nc_cmp_name",
               "CMP", "banners_data"}

\* Variant: without the reset of CMP and of btn_status.
InitDataForgets ==
  /\ banners_data' = <<>>
  /\ UNCHANGED <<CMP, data_btn>>
  /\ Stamp(DataFields \ {"CMP", "btn_status"})
InitData ==
  /\ banners_data' = <<>> /\ CMP' = NoCMP
  /\ data_btn' = "none"
  /\ Stamp(DataFields)

\* close_other_windows, current_url, init_data.
Prepare ==
  /\ pc = "prepare" /\ InitData
  /\ bound' = TRUE /\ pc' = "detect"
  /\ UNCHANGED <<mode, visit, site, choice, error_flag, outcome, search, status,
                 cmp_list, clicks, saving, ctx, i, failed>>

\* An exception on the way to the handler of execute or run_all_for_domain.
Raise ==
  /\ \/ pc \in {"prepare", "cmp"}
     \/ pc = "save" /\ mode = "standalone"
  /\ pc' = "handler" /\ failed' = TRUE
  /\ UNCHANGED <<place, search, data, clicks, saving, ctx, i>>

\* After both tries failed the url is "" and the status that of the second.
OpenDomainPage ==
  /\ pc = "get" /\ mode = "standalone"
  /\ \E s \in {"loaded", "timeout", "unreachable"} :
       /\ status' = s
       /\ error_flag' = (s # "loaded")
       /\ site' = IF s # "loaded" THEN NoSite ELSE site
  /\ banners_data' = <<>> /\ CMP' = NoCMP
  /\ data_btn' = "none"
  /\ Stamp(DataFields \cup {"status"})
  /\ shown' \in BOOLEAN
  /\ pc' = "detect"
  /\ UNCHANGED <<mode, visit, choice, bound, outcome, attempt, banners,
                 cmp_list, clicks, saving, ctx, i, failed>>

----------------------------------------------------------------------------
(* detect_banners.                                                         *)

Detected(found) ==
  /\ banners' = found /\ i' = 1 /\ pc' = "shots"

\* detect_banners returns before it touches this_lang.
DetectNothing ==
  /\ pc = "detect" /\ mode = "standalone" /\ error_flag
  /\ Detected(<<>>)
  /\ Stamp({"num_banners"})
  /\ UNCHANGED <<place, shown, attempt, status, banners_data, CMP, data_btn,
                 cmp_list, clicks, saving, ctx, failed>>

\* One search; a banner may appear before the next.  A search that meets a
\* stale element once is made again, with the same result.
Detect ==
  /\ pc = "detect" /\ ~(mode = "standalone" /\ error_flag)
  /\ \E found \in {IF shown THEN FindCookieBanners(site) ELSE <<>>} :
        IF found # <<>> \/ attempt = Attempts
        THEN /\ Detected(found)
             /\ Stamp({"num_banners", "lang", "ttw"})
             /\ UNCHANGED <<shown, attempt>>
        ELSE /\ attempt' = attempt + 1
             /\ shown' \in {shown, TRUE}
             /\ Stamp({"lang", "ttw"})
             /\ UNCHANGED <<banners, i, pc>>
  /\ UNCHANGED <<place, status, banners_data, CMP, data_btn,
                 cmp_list, clicks, saving, ctx, failed>>

FrameDocs(docs) ==
  UNION {{site[d][f].doc : f \in Range(IFrames(site[d]))} : d \in docs}

\* Variant: the status stays that of the page.
StatusAfterRaise == status
StatusOnRaise == "error"

\* A search raises, perhaps inside a frame or a frame of that.
DetectRaises ==
  /\ pc = "detect" /\ ~(mode = "standalone" /\ error_flag)
  /\ Detected(<<>>)
  /\ status' = StatusOnRaise /\ failed' = TRUE /\ undetected' = TRUE
  /\ ctx' \in {Page} \cup FrameDocs({Page}) \cup FrameDocs(FrameDocs({Page}))
  /\ Stamp({"num_banners", "lang", "status"})
  /\ UNCHANGED <<place, shown, attempt, banners_data, CMP, data_btn, cmp_list,
                 clicks, visit_db, unsaved>>

----------------------------------------------------------------------------
(* Screenshots and data of the banners.                                    *)

\* What a call is given: a banner, or an element ("clone": of a shadow tree).
IsTuple(item) == item.kind \in {"frame", "nested", "shadow"}
Home(item) == IF item.kind \in {"shadow", "clone"} THEN Page ELSE item.doc

\* get_banner_obj, where trouble is "host" or "child" if that switch fails.
\* It succeeds only from the page; when it raises, the banner is taken for
\* one in a shadow tree.
Enters(item, trouble) ==
  /\ item.kind \in {"frame", "nested"}
  /\ ctx = Page
  /\ trouble # "host"
  /\ item.kind = "nested" => trouble # "child"
Reached(item, trouble) ==
  IF Enters(item, trouble) THEN item.doc
  ELSE IF item.kind = "nested" /\ ctx = Page /\ trouble = "child"
  THEN site[Page][item.host].doc
  ELSE ctx
TakenForShadow(item, trouble) == IsTuple(item) /\ ~Enters(item, trouble)

\* The element can be used; of a nested pair only if both switches succeeded.
Usable(item, trouble) ==
  /\ Reached(item, trouble) = Home(item)
  /\ item.kind = "nested" => Enters(item, trouble)

Switches(item) == CASE item.kind = "nested" -> {"none", "host", "child"}
                     [] item.kind = "frame" -> {"none", "host"}
                     [] OTHER -> {"none"}
Troubles(item) == Switches(item) \cup {"call"}

\* take_banner_sc: an exception leaves the driver where it is.
AfterShot(b, t) ==
  IF Usable(b, t) /\ t # "call" /\ IsTuple(b) THEN Page ELSE Reached(b, t)

Shot ==
  /\ pc = "shots"
  /\ IF i > Len(banners)
     THEN /\ pc' = "extract" /\ i' = 1
          /\ UNCHANGED <<ctx, failed>>
     ELSE \E t \in Troubles(banners[i]) :
            /\ ctx' = AfterShot(banners[i], t)
            /\ failed' = (failed \/ t # "none")
            /\ i' = i + 1 /\ UNCHANGED pc
  /\ UNCHANGED <<place, search, data, clicks, saving>>

\* Variant: the driver stays in the frame.
AfterExtractStays(b, t) == Reached(b, t)
\* default_content is called for what passes for a frame only.
AfterExtract(b, t) ==
  IF IsTuple(b) /\ ~TakenForShadow(b, t) THEN Page ELSE Reached(b, t)

\* extract_banners_data keeps what could be read, and drops the rest.
Extract ==
  /\ pc = "extract"
  /\ IF i > Len(banners)
     THEN /\ pc' = IF mode = "openwpm" THEN "interact" ELSE "cmp"
          /\ i' = 1
          /\ Stamp({"banners_data"})
          /\ UNCHANGED <<ctx, failed, banners_data>>
     ELSE \E t \in Troubles(banners[i]) :
            LET b == banners[i]
            IN /\ IF Usable(b, t) /\ t # "call"
                  THEN /\ ctx' = AfterExtract(b, t)
                       /\ banners_data' =
                            Append(banners_data,
                                   [banner |-> i,
                                    shadow_dom |-> TakenForShadow(b, t)])
                  ELSE /\ ctx' = Reached(b, t)
                       /\ UNCHANGED banners_data
               /\ failed' = (failed \/ t # "none")
               /\ i' = i + 1 /\ UNCHANGED <<pc, by>>
  /\ UNCHANGED <<place, search, status, CMP, data_btn, cmp_list,
                 clicks, saving>>

----------------------------------------------------------------------------
(* interact_with_banners and interact_with_banner.                         *)

\* A call: its arguments, el and shadow_host once the banner is looked up,
\* the return value, explicit_coeff (explicit), the buttons left of a pass and,
\* as history, the buttons tried, what was pressed for them and whose parents
\* were clicked.
Call(item, c, total) ==
  [item |-> item, choice |-> c, total |-> total, el |-> item, shadow |-> FALSE,
   usable |-> FALSE, stage |-> "enter", flag |-> FALSE, explicit |-> TRUE,
   left |-> {}, tried |-> {}, pressed |-> {}, parents |-> {}]
top == Last(calls)
Set(call) == calls' = Append(Front(calls), call)

\* Variant: the flag survives the banner.
LoopTailKeepsFlag ==
  /\ data_btn' = btn_status'
  /\ UNCHANGED rej_flag
  /\ Stamp({"btn_status", "interact_time", "nc_cmp_name"})
  /\ i' = i + 1 /\ pc' = "interact"
\* The end of an iteration over the banners.
LoopTail ==
  /\ data_btn' = btn_status'
  /\ rej_flag' = FALSE
  /\ Stamp({"btn_status", "interact_time", "nc_cmp_name"})
  /\ i' = i + 1 /\ pc' = "interact"

\* banners_data[i] raises an IndexError if a banner's data was dropped.
Interact ==
  /\ pc = "interact"
  /\ \/ /\ i > Len(banners)
        /\ pc' = IF mode = "openwpm" THEN "cmp" ELSE "save"
        /\ UNCHANGED <<data, clicks, i>>
     \/ /\ i <= Len(banners) /\ i > Len(banners_data)
        /\ pc' = "handler"
        /\ UNCHANGED <<data, clicks, i>>
     \/ /\ i <= Len(banners) /\ i <= Len(banners_data)
        /\ choice # 0
        /\ calls' = <<Call(banners[i], choice, FALSE)>>
        /\ btn_status' = "none" /\ pc' = "call"
        /\ UNCHANGED <<data, rej_flag, twice, i>>
     \/ /\ i <= Len(banners) /\ i <= Len(banners_data)
        /\ choice = 0
        /\ btn_status' = "none"
        /\ UNCHANGED <<status, banners_data, CMP, cmp_list, calls, twice>>
        /\ LoopTail
  /\ UNCHANGED <<place, search, saving, ctx, failed>>

\* find_element(body) and get_banner_obj.
Enter ==
  /\ pc = "call" /\ top.stage = "enter"
  /\ \E t \in Switches(top.item) :
       /\ Set([top EXCEPT
                 !.stage = "explicit",
                 !.shadow = TakenForShadow(top.item, t),
                 !.usable = top.total \/ Usable(top.item, t),
                 !.el = IF top.total
                        THEN Banner("plain", NoElement, 0, Reached(top.item, t),
                                    Min({Body, Len(site[Reached(top.item, t)])}))
                        ELSE [top.item EXCEPT
                                !.kind = IF @ \in {"shadow", "clone"}
                                         THEN "clone" ELSE "plain"]])
       /\ ctx' = Reached(top.item, t)
       /\ failed' = (failed \/ t # "none")
  /\ UNCHANGED <<place, search, data, btn_status, rej_flag, twice,
                 saving, pc, i>>

\* The buttons found for a pass; explicitly, of many reject buttons in the
\* settings only those that reject everything.
Buttons(explicit) ==
  LET found == ExtractBtns(site[top.el.doc], top.el.el, top.choice, top.shadow,
                           ~explicit)
      all == top.choice = 2 /\ rej_flag /\ Cardinality(found) > 3
  IN IF explicit /\ all THEN KeepElsWithAll(site[top.el.doc], found) ELSE found

\* Where a call goes on when this is left of a pass.
StageAfter(left, explicit) ==
  IF left # {} THEN "clicking"
  ELSE IF explicit /\ NON_EXPLICIT THEN "non_explicit" ELSE "in_settings"

Pass(btns, explicit) ==
  Set([top EXCEPT !.left = btns, !.explicit = explicit,
                  !.stage = StageAfter(btns, explicit)])

InReach == top.usable /\ Home(top.el) = ctx

ClickExplicit ==
  /\ pc = "call" /\ top.stage = "explicit" /\ InReach
  /\ SIMPLE_DETECTION \/ top.choice # 2 \/ rej_flag
  /\ Pass(Buttons(TRUE), TRUE)
  /\ UNCHANGED <<place, search, data, btn_status, rej_flag, twice, saving, pc,
                 ctx, i, failed>>

\* Variant: the buttons of the explicit pass are not left out.
UntriedAll(btns) == btns
Untried(btns) == btns \ Buttons(TRUE)

ClickNonExplicit ==
  /\ pc = "call" /\ top.stage = "non_explicit" /\ InReach
  /\ Pass(Untried(Buttons(FALSE)), FALSE)
  /\ UNCHANGED <<place, search, data, btn_status, rej_flag, twice, saving, pc,
                 ctx, i, failed>>

\* click_func: the tag buttons first, else in any order.
Turn == LET tags == FindTagButtons(site[top.el.doc], top.left)
        IN IF tags # {} THEN tags ELSE top.left

\* 'INset_' is in the name of the screenshot.
InSet == top.choice = 2 /\ rej_flag

\* The call after a button of the pass was clicked, or not.
AfterClick(b, click) ==
  [top EXCEPT !.left = @ \ {b}, !.tried = @ \cup {b},
              !.pressed = @ \cup click.pressed,
              !.parents = @ \cup click.parents,
              !.flag = click.ok,
              !.stage = IF click.ok THEN "finish"
                        ELSE StageAfter(top.left \ {b}, top.explicit)]

TriesButton(b, call) == Set(call) /\ twice' = (twice \/ b \in top.tried)

\* An iteration of click_on_btns.
ClickOnBtns ==
  /\ pc = "call" /\ top.stage = "clicking"
  /\ \E b \in Turn : \E click \in ClickOnBtn(site[top.el.doc], b, InSet) :
       TriesButton(b, AfterClick(b, click))
  /\ UNCHANGED <<place, search, data, btn_status, rej_flag, saving, pc, ctx, i,
                 failed>>

\* The driver raises when it is asked what is around the button, or whether
\* its parent says the same after it was not taken for clicked.
ClickRaises ==
  /\ pc = "call" /\ top.stage = "clicking"
  /\ \E b \in Turn : \E click \in ClickAndCheck(site[top.el.doc], b, InSet) :
       /\ ~click.ok
       /\ TriesButton(b, [AfterClick(b, click) EXCEPT !.stage = "except"])
  /\ failed' = TRUE
  /\ UNCHANGED <<place, search, data, btn_status, rej_flag, saving, pc, ctx, i>>

\* Reject in the settings, unless this is such a call already.
LooksInSettings == top.choice = 2 /\ ~rej_flag

InSettings ==
  /\ pc = "call" /\ top.stage = "in_settings"
  /\ IF LooksInSettings
     THEN IF REJ_IN_SET
          THEN calls' = Append(Front(calls), [top EXCEPT !.stage = "settings"])
                          \o <<Call(top.el, 3, FALSE)>>
          ELSE Set([top EXCEPT !.stage = "addon"])
     ELSE Set([top EXCEPT !.stage = "finish"])
  /\ UNCHANGED <<place, search, data, btn_status, rej_flag, twice,
                 saving, pc, ctx, i, failed>>

\* interact_with_cmp_banner: whether the banner is gone is not kept.
Addon ==
  /\ pc = "call" /\ top.stage = "addon" /\ NC_ADDON
  /\ Set([top EXCEPT !.stage = "finish"])
  /\ UNCHANGED <<place, search, data, btn_status, rej_flag, twice,
                 saving, pc, ctx, i, failed>>

\* To the caller, or to the loop over the banners.
Return(flag) ==
  LET caller == Last(Front(calls))
      Resume(call) == calls' = Append(Front(Front(calls)), call)
      Stay == UNCHANGED <<rej_flag, data_btn, by, i, pc>>
  IN IF Len(calls) = 1
     THEN /\ calls' = <<>>
          /\ LoopTail
     ELSE IF caller.stage = "settings" /\ flag
     THEN /\ rej_flag' = TRUE
          /\ calls' = Append(Front(Front(calls)),
                             [caller EXCEPT !.stage = "total"])
                        \o <<Call(caller.el, 2, TRUE)>>
          /\ UNCHANGED <<data_btn, by, i, pc>>
     ELSE IF caller.stage = "settings"
     THEN Resume([caller EXCEPT !.stage = "addon"]) /\ Stay
     ELSE /\ Resume([caller EXCEPT !.flag = flag,
                                   !.stage = IF flag THEN "finish" ELSE "addon"])
          /\ Stay

\* default_content for a pair, and the status; login clicks go on, and an
\* exception there is swallowed.
Finish ==
  /\ pc = "call" /\ top.stage = "finish"
  /\ ctx' = IF IsTuple(top.item) THEN Page ELSE ctx
  /\ btn_status' = IF ~top.flag \/ top.choice = 3 THEN btn_status
                   ELSE IF top.explicit THEN "explicit" ELSE "non_explicit"
  /\ UNCHANGED <<place, search, status, banners_data, CMP, cmp_list, twice,
                 saving, failed>>
  /\ Return(top.flag)

\* A call of the driver raises inside the try statement, at the latest when
\* the screenshot after the click is taken.
Trouble ==
  /\ pc = "call"
  /\ \/ /\ top.stage \in {"explicit", "non_explicit"}
        /\ failed' = (failed \/ InReach)
        /\ UNCHANGED <<btn_status, ctx>>
     \/ /\ \/ top.stage = "addon"
           \/ top.stage = "finish" /\ IsTuple(top.item)
        /\ failed' = TRUE
        /\ UNCHANGED <<btn_status, ctx>>
     \/ /\ top.stage = "finish" /\ top.flag
        /\ ctx' = IF IsTuple(top.item) THEN Page ELSE ctx
        /\ btn_status' = IF top.choice = 3 THEN btn_status
                         ELSE IF top.explicit THEN "explicit"
                         ELSE "non_explicit"
        /\ failed' = TRUE
  /\ Set([top EXCEPT !.stage = "except"])
  /\ UNCHANGED <<place, search, data, rej_flag, twice, saving, pc, i>>

Except ==
  /\ pc = "call" /\ top.stage = "except"
  /\ ctx' = Page
  /\ UNCHANGED <<place, search, status, banners_data, CMP, cmp_list, btn_status,
                 twice, saving, failed>>
  /\ Return(top.flag)

\* The first statement or default_content in the except clause raises.
Escape ==
  /\ pc = "call" /\ top.stage \in {"enter", "except"}
  /\ failed' = TRUE
  /\ IF Len(calls) = 1
     THEN calls' = <<>> /\ pc' = "handler"
     ELSE /\ calls' = Append(Front(Front(calls)),
                             [Last(Front(calls)) EXCEPT !.stage = "except"])
          /\ UNCHANGED pc
  /\ UNCHANGED <<place, search, data, btn_status, rej_flag, twice,
                 saving, ctx, i>>

----------------------------------------------------------------------------
(* CMP detection, the database, the end of the visit.                      *)

\* The list is loaded when a name is looked up first (set_CMP_list in init
\* drops what it loads).
GetCMPList == cmp_list' = TRUE

\* run_cmp_detection; if the list cannot be had it raises.
DetectCMP ==
  /\ pc = "cmp"
  /\ GetCMPList
  /\ CMP' = {CMPOf(site[ctx])}
  /\ Stamp({"CMP"})
  /\ i' = 1
  /\ pc' = IF mode = "openwpm" THEN "save" ELSE "interact"
  /\ UNCHANGED <<place, search, status, banners_data, data_btn,
                 clicks, saving, ctx, failed>>

Row == [visit |-> visit, status |-> status, btn_status |-> data_btn,
        stale |-> {g \in Globals : by[g] # visit}]

\* The banners' rows are sent before the visit's row, which is not sent if
\* anything raises before, at the latest when the CMP data is added.  Under
\* OpenWPM the exception ends set_data_in_db_error.
SetDataInDb ==
  /\ pc = "save"
  /\ \/ /\ visit_db' = Append(visit_db, Row)
        /\ UNCHANGED <<failed, unsaved>>
     \/ /\ mode = "openwpm"
        /\ failed' = TRUE /\ unsaved' = TRUE
        /\ UNCHANGED visit_db
  /\ pc' = "end"
  /\ UNCHANGED <<place, search, data, clicks, ctx, i, undetected>>

\* Standalone, the row is there when the exception comes.
SetDataInDbRaises ==
  /\ pc = "save" /\ mode = "standalone"
  /\ visit_db' = Append(visit_db, Row)
  /\ failed' = TRUE /\ unsaved' = TRUE
  /\ pc' = "handler"
  /\ UNCHANGED <<place, search, data, clicks, ctx, i, undetected>>

\* run_all_for_domain marks the last row; an IndexError if there is none ends
\* the run, and so does the loss of the browser's session.
Handle ==
  /\ pc = "handler"
  /\ IF mode = "openwpm"
     THEN pc' = "end" /\ UNCHANGED visit_db
     ELSE IF visit_db = <<>>
     THEN pc' = "aborted" /\ UNCHANGED visit_db
     ELSE /\ \/ pc' = "end"
             \/ pc' = "aborted" /\ failed
          /\ visit_db' = Append(Front(visit_db),
                                [Last(visit_db) EXCEPT !.status = "error"])
  /\ UNCHANGED <<place, search, data, clicks, ctx, i, failed, unsaved, undetected>>

\* What later visits never read is forgotten.
Forget ==
  /\ site' = NoSite /\ banners' = <<>> /\ banners_data' = <<>>
  /\ shown' = FALSE /\ attempt' = 0 /\ i' = 1 /\ ctx' = Page
  /\ btn_status' = "none" /\ data_btn' = "none"
  /\ calls' = <<>> /\ pc' = "idle"

\* Variant: an unreachable page is no failure and CMP data is not looked at.
ReturnsOkAlways == TRUE
\* The log line reads current_url and, after an interaction, CMP.
ReturnsOk == /\ ~error_flag
             /\ bound
             /\ choice # 0 => CMP # NoCMP

\* OpenWPM restarts the process if it is asked to.
CommandOk ==
  /\ pc = "end" /\ mode = "openwpm" /\ ReturnsOk
  /\ outcome' = "ok"
  /\ \/ FreshGlobals
     \/ UNCHANGED <<status, CMP, rej_flag, cmp_list, by>>
  /\ Forget
  /\ UNCHANGED <<mode, visit, choice, error_flag, bound, twice, saving, failed>>

\* The command raises, at its end or when it prepares the window, or does not
\* answer in time; the process is killed and another one started.
CommandFails ==
  /\ mode = "openwpm"
  /\ \/ pc = "end" /\ ~ReturnsOk
     \/ pc \notin {"idle", "end"}
  /\ outcome' = "failed"
  /\ FreshGlobals
  /\ Forget
  /\ UNCHANGED <<mode, visit, choice, error_flag, bound, twice, saving, failed>>

NextDomain ==
  /\ pc = "end" /\ mode = "standalone"
  /\ Forget
  /\ UNCHANGED <<mode, visit, choice, error_flag, bound, outcome, status, CMP,
                 rej_flag, cmp_list, by, twice, saving, failed>>

Next ==
  \/ Begin \/ Get \/ Prepare \/ Raise \/ OpenDomainPage
  \/ DetectNothing \/ Detect \/ DetectRaises
  \/ Shot \/ Extract \/ Interact
  \/ Enter \/ ClickExplicit \/ ClickNonExplicit \/ ClickOnBtns \/ ClickRaises
  \/ InSettings \/ Addon
  \/ Finish \/ Trouble \/ Except \/ Escape
  \/ DetectCMP \/ SetDataInDb \/ SetDataInDbRaises \/ Handle
  \/ CommandOk \/ CommandFails \/ NextDomain

Spec == Init /\ [][Next]_vars

----------------------------------------------------------------------------
(* Properties.                                                             *)

\* Everything in the row of a visit was assigned in that visit.
RecordIsOwn == \A k \in DOMAIN visit_db : visit_db[k].stale = {}

\* No visit and no banner starts with rej_flag set by an earlier one, or the
\* settings would not be searched.
RejFlagFresh == pc \notin {"call", "handler", "end"} => ~rej_flag

\* Under OpenWPM no visit uses what an earlier one left behind, although all
\* of it passes through globals and class attributes that the next visit of
\* the process inherits.  (Without OpenWPM it may: the row of a domain that
\* cannot be reached has the language of the one before, and an exception
\* leaves rej_flag set for the next domain.)
NothingInherited == mode = "openwpm" => RecordIsOwn /\ RejFlagFresh

\* A command that interacts and returns normally has sent the row of its
\* visit, marked with status -1 if and only if the detection of banners had
\* raised; unless saving itself raised, which is swallowed too and of which the
\* command says nothing.
OkMeansRecorded ==
  (mode = "openwpm" /\ outcome = "ok" /\ choice # 0 /\ ~unsaved) =>
    /\ visit_db # <<>>
    /\ Last(visit_db).visit = visit
    /\ Last(visit_db).status = "error" <=> undetected

\* As long as no call of the driver has failed, every step works in the page
\* and not in a frame, every banner has its data at its own index, the data
\* say truly whether it is in a shadow tree, and the CMP found is the page's.
NoFailureNoDrift ==
  (~failed /\ pc \in {"interact", "cmp", "save"}) =>
    /\ ctx = Page
    /\ CMP \in {NoCMP, {CMPOf(site[Page])}}
    /\ Len(banners_data) = Len(banners)
    /\ \A k \in DOMAIN banners :
         /\ banners_data[k].banner = k
         /\ banners_data[k].shadow_dom <=> banners[k].kind = "shadow"

\* Whatever is taken for a banner shows one of the keywords that led to it,
\* in view and not as an item of a list; in the page it has enough text and
\* does not ask to sign in.
BannersHoldWords ==
  \A k \in DOMAIN banners :
    LET b == banners[k]
        doc == site[b.doc]
    IN /\ \E e \in Below(doc, b.el) \cup {b.el} :
            doc[e].says # {} /\ ~IsUnrelated(doc, e, FALSE) /\ ~IsHidden(doc, e)
       /\ b.kind = "plain" => HasEnoughWord(doc, b.el) /\ ~IsSigninBanner(doc, b.el)

\* Each button that a call finds is tried once, in the explicit and the
\* non-explicit pass together, although an element may get more clicks: those
\* of click_and_check, and those for another button that it is around.  And
\* acceptance presses nothing that says "disagree": not the button, not the
\* <button> it is in, not its parent.  (Only what takes neither keys nor a click
\* has its parent clicked instead, whatever that says.)
ButtonsTriedOnce ==
  /\ ~twice
  /\ \A k \in DOMAIN calls : calls[k].choice = 1 =>
       \A b \in calls[k].pressed :
         "disagree" \notin TextOffers(site[calls[k].el.doc], b)

\* A call clicks on nothing outside the element it is to search (the banner,
\* or the body after the settings), though it presses buttons that a button is
\* in and clicks parents: unless the element says no more than such a button.
ClicksStayInside ==
  \A k \in DOMAIN calls :
    LET call == calls[k]
        doc == site[call.el.doc]
        Inside(e) == e \in Below(doc, call.el.el) \cup {call.el.el}
    IN (call.tried # {} /\ \A b \in call.tried : ~SaysSame(doc, b, call.el.el)) =>
         \A e \in call.pressed \cup call.parents : Inside(e)

================================================================================
