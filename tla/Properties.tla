----------------------------- MODULE Properties -----------------------------
(***************************************************************************)
(* The properties that a PROPFIND can be answered with, and their          *)
(* selection (src/caldav/xml/properties.rs).  A resource's properties are  *)
(* a function from their names to their values: the URL in an href, or     *)
(* Content for any other value.  A name is unique without its namespace    *)
(* here; XmlRequests is about namespaces.                                  *)
(*                                                                         *)
(* A URL is the route it matches, the username or email in it and the      *)
(* calendar.  Hrefs escape nothing but the "@" of an email, which the      *)
(* router (external) decodes; the names here need no other escape.         *)
(***************************************************************************)
EXTENDS Integers

CONSTANTS
    Content,        \* a value that is not a URL
    Unauthenticated \* the principal of a request without a user

NoCalendar == 0

Url(route, name, calendar) == [route |-> route, name |-> name, calendar |-> calendar]

\* calendar_href and calendar_href_for_context; at is the email home or the home
UsersHome(username) == Url("users", username, NoCalendar)

EmailHome(email) == Url("email", email, NoCalendar)

CalendarHref(home, calendar) == [home EXCEPT !.calendar = calendar]

Holding(names, url) == [n \in names |-> url]

Plain(names) == [n \in names |-> Content]

\* Two functions with disjoint domains as one.
Both(f, g) == [n \in DOMAIN f \cup DOMAIN g |-> IF n \in DOMAIN f THEN f[n] ELSE g[n]]

root_props(username) ==
    Both(Holding({"current-user-principal"}, UsersHome(username)),
         Plain({"resourcetype", "displayname"}))

root_props_unauthenticated ==
    Both(Holding({"current-user-principal"}, Unauthenticated),
         Plain({"resourcetype", "displayname"}))

calendar_home_props(username) ==
    Both(Holding({"current-user-principal"}, UsersHome(username)),
         Plain({"resourcetype", "displayname"}))

email_home_props(request_path) ==
    Both(Holding({"current-user-principal", "principal-URL", "calendar-home-set",
                  "principal-collection-set", "owner"}, request_path),
         Plain({"resourcetype", "displayname", "calendar-user-address-set", "email-address-set",
                "schedule-inbox-URL", "schedule-outbox-URL", "supported-report-set",
                "current-user-privilege-set", "notification-URL", "dropbox-home-URL",
                "resource-id"}))

\* In the list of a home below /caldav/users/.
calendar_props(username) ==
    Both(Holding({"current-user-principal", "owner"}, UsersHome(username)),
         Plain({"resourcetype", "displayname", "calendar-description", "calendar-color",
                "calendar-timezone", "supported-calendar-component-set", "getctag",
                "sync-token", "current-user-privilege-set", "supported-report-set"}))

\* In the list of an email home, and for a collection; home as the request had it.
calendar_props_for_context(home, calendar) ==
    Both(Both(Holding({"current-user-principal", "owner"}, home),
              Holding({"schedule-default-calendar-URL"}, CalendarHref(home, calendar))),
         Plain({"resourcetype", "displayname", "calendar-description", "calendar-color",
                "calendar-order", "calendar-timezone", "supported-calendar-component-set",
                "getctag", "sync-token", "current-user-privilege-set", "supported-report-set",
                "schedule-calendar-transp", "getcontenttype", "resource-id"}))

(* What a PROPFIND asks for: all properties, the names alone, or some.     *)
AllProp == [kind |-> "allprop", props |-> {}]

PropName == [kind |-> "propname", props |-> {}]

Props(names) == [kind |-> "prop", props |-> names]

(* filter_props: the properties of the 200 propstat, the names of the 404. *)
filter_props(request, available) ==
    CASE request.kind = "allprop"  -> [found |-> available, missing |-> {}]
      [] request.kind = "propname" -> [found |-> Plain(DOMAIN available), missing |-> {}]
      [] request.kind = "prop"     ->
             [found   |-> [n \in DOMAIN available \cap request.props |-> available[n]],
              missing |-> request.props \ DOMAIN available]

=============================================================================
