------------------------------ MODULE ApiRoutes ------------------------------
(***************************************************************************)
(* The router of the API: which handler gets a request.                    *)
(*                                                                         *)
(* A path is the sequence of what stands between its slashes: "/v1/tasks"  *)
(* is <<"v1", "tasks">>, "/v1/tasks/" is <<"v1", "tasks", "">> and "/" is  *)
(* <<"">>.  A template is a path too, in which a variable stands for any   *)
(* segment but the empty one.                                              *)
(***************************************************************************)
EXTENDS Integers, SequencesExt

Uuid == "{uuid}"

Route(method, path, handler) == [method |-> method, template |-> <<"v1">> \o path, handler |-> handler]

(* The routes of startAPIInterface, in their order. *)
Routes == <<
    Route("GET",    <<"actions">>,                "getActions"),
    Route("GET",    <<"action", Uuid>>,           "getAction"),
    Route("PUT",    <<"action">>,                 "createAction"),
    Route("PUT",    <<"action", Uuid>>,           "updateAction"),
    Route("DELETE", <<"action", Uuid>>,           "deleteAction"),
    Route("GET",    <<"tasks">>,                  "getTasks"),
    Route("GET",    <<"task", Uuid>>,             "getTask"),
    Route("PUT",    <<"task">>,                   "createTask"),
    Route("PUT",    <<"task", Uuid>>,             "updateTask"),
    Route("DELETE", <<"task", Uuid>>,             "deleteTask"),
    Route("GET",    <<"task", Uuid, "complete">>, "completeTask"),
    Route("GET",    <<"queues">>,                 "getQueues"),
    Route("GET",    <<"queue", Uuid>>,            "getQueue"),
    Route("PUT",    <<"queue">>,                  "createQueue"),
    Route("PUT",    <<"queue", Uuid>>,            "updateQueue"),
    Route("DELETE", <<"queue", Uuid>>,            "deleteQueue") >>

-----------------------------------------------------------------------------
(* The regular expression of a template: "^", its text, "[^/]+" for each     *)
(* variable, and "$", as slashes at the end are not optional here.           *)
SegmentMatches(segment, pattern) ==
    IF pattern = Uuid THEN segment # "" ELSE segment = pattern

TemplateMatches(path, template) ==
    /\ Len(path) = Len(template)
    /\ \A i \in DOMAIN path : SegmentMatches(path[i], template[i])

MethodMatches(method, route) == method = route.method

(* Route.Match: both its matchers, the path and the methods, agree. *)
RouteMatches(route, method, path) ==
    /\ TemplateMatches(path, route.template)
    /\ MethodMatches(method, route)

(* Router.Match: the first of the routes, or 0. *)
Matched(method, path) ==
    SelectInSeq(Routes, LAMBDA route : RouteMatches(route, method, path))

(* setMatch: the value of the variable, if the template has one. *)
PathVar(i, path) ==
    LET at == SelectInSeq(Routes[i].template, LAMBDA pattern : pattern = Uuid)
    IN  IF at = 0 THEN "" ELSE path[at]

-----------------------------------------------------------------------------
(* path.Clean of a rooted path: no empty segments, no "." and no "..". *)
AddSegment(clean, segment) ==
    CASE segment \in {"", "."} -> clean
      [] segment = ".."        -> IF clean = <<>> THEN <<>> ELSE Front(clean)
      [] OTHER                 -> Append(clean, segment)

(* cleanPath puts the slash at the end of the path back. *)
CleanPath(path) ==
    LET clean == FoldLeft(AddSegment, <<>>, path)
    IN  IF clean = <<>> \/ Last(path) = "" THEN Append(clean, "") ELSE clean

-----------------------------------------------------------------------------
(* What the comments of the handlers (@Router) promise: the method and the   *)
(* path of each operation.                                                   *)
Documented ==
    LET One(noun) == <<"v1", noun, Uuid>>
        Some(noun) == <<"v1", noun>>
        Op(method, path) == [method |-> method, path |-> path]
    IN  [getActions   |-> Op("GET", Some("actions")),
         getAction    |-> Op("GET", One("action")),
         createAction |-> Op("PUT", Some("action")),
         updateAction |-> Op("PUT", One("action")),
         deleteAction |-> Op("DELETE", One("action")),
         getTasks     |-> Op("GET", Some("tasks")),
         getTask      |-> Op("GET", One("task")),
         createTask   |-> Op("PUT", Some("task")),
         updateTask   |-> Op("PUT", One("task")),
         deleteTask   |-> Op("DELETE", One("task")),
         completeTask |-> Op("GET", Append(One("task"), "complete")),
         getQueues    |-> Op("GET", Some("queues")),
         getQueue     |-> Op("GET", One("queue")),
         createQueue  |-> Op("PUT", Some("queue")),
         updateQueue  |-> Op("PUT", One("queue")),
         deleteQueue  |-> Op("DELETE", One("queue"))]

(* The path of an operation on the object with this uuid. *)
PathOf(op, uuid) ==
    [i \in DOMAIN Documented[op].path |->
        IF Documented[op].path[i] = Uuid THEN uuid ELSE Documented[op].path[i]]

(* The router gives every documented operation to its handler, with the      *)
(* object it is about: no route hides another, whatever the object is named. *)
Documents(uuids) ==
    \A op \in DOMAIN Documented, uuid \in uuids :
        LET path == PathOf(op, uuid)
            i == Matched(Documented[op].method, path)
        IN  /\ i # 0 /\ Routes[i].handler = op
            /\ PathVar(i, path) = (IF path = Documented[op].path THEN "" ELSE uuid)
            /\ CleanPath(path) = path
=============================================================================
