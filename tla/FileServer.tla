----------------------------- MODULE FileServer -----------------------------
(***************************************************************************)
(* nonstop_networking: server.c with its epoll loop, common.c, and the     *)
(* client of client.c.  Data go in units: a request is one unit of header  *)
(* (verb, name and size, which are sent first) and, for PUT, the units of  *)
(* a file; a buffer and a step of GET hold DataSize units.  The k-th unit  *)
(* of client c is <<c, k>>.  A connection has the name of its client, and  *)
(* so has a file (inode) that it creates.                                  *)
(*                                                                         *)
(* epoll is level triggered, so that the end of a request keeps the        *)
(* connection ready; each event takes it one state further.  The first     *)
(* recvall blocks the server, later ones do not.  sendall gets a header    *)
(* into the empty buffer of a socket; units of data may find it full.  An  *)
(* event is one step, but that each sendall of an answer is a step of its  *)
(* own, before which SIGINT may end the server; the states "SENDING_..."   *)
(* are points inside of such an event.                                     *)
(* After a failed PUT (line 372) line 227 takes the descriptor from freed  *)
(* memory: fcntl then refuses it, and nothing follows.                     *)
(***************************************************************************)
EXTENDS Integers, Sequences, FiniteSets

CONSTANTS Clients, Names,
          BadNames,   \* names that cannot be opened in the temporary directory
          Workloads,  \* what each client asks for: [verb, name, size, units], or NoRequest
          Mortals,    \* clients that may die
          DataSize, NoClient, NoInode, NoConn, NoFile, NoRequest

\* A unit of zeros, which nobody sent.
Hole == <<NoClient, 0>>

Requests == [verb : {"GET", "PUT", "DELETE", "LIST", "OTHER"}, name : Names, size : Nat, units : Nat]

ASSUME FileServerAssumption ==
  /\ DataSize \in Nat \ {0} /\ Names # {} /\ BadNames \subseteq Names
  /\ Workloads \subseteq [Clients -> Requests \cup {NoRequest}]
  /\ Mortals \subseteq Clients /\ NoClient \notin Clients /\ NoInode \notin Clients
  /\ NoFile \notin [inode : Clients, pos : Nat, pending : Seq((Clients \X Nat) \cup {Hole})]

VARIABLES request,
          up, backlog, busy,    \* busy: the client whose event holds the server up: its first recvall
                                \* blocks, or its answer is being sent
          conn,                 \* Client_info of the accepted connections
          net,                  \* each connection's sockets: units sent and received, bytes on their way back
          dir, content,         \* names -> inodes -> units
          client, received,     \* what each client is at, and the data it accepted
          freed,                \* clients whose Client_info has been freed
          owner, snapshot, disturbed, clipped  \* who wrote a name's file alone; the file a GET opened; whether it
                                               \* was written since; whether the GET met a full buffer

fs == <<dir, content>>
marks == <<owner, snapshot, disturbed, clipped>>
people == <<client, received>>
serverVars == <<request, up, backlog, busy, conn, net, fs, people, freed, marks>>

ServerInit ==
  /\ request \in Workloads
  /\ up = TRUE /\ backlog = {} /\ busy = NoClient
  /\ conn = [c \in Clients |-> NoConn]
  /\ net = [c \in Clients |-> [sent |-> 0, eof |-> FALSE, got |-> 0, out |-> <<>>, shut |-> FALSE]]
  /\ dir = [f \in Names |-> NoInode]
  /\ content = [c \in Clients |-> <<>>]
  /\ client = [c \in Clients |-> IF request[c] = NoRequest THEN "absent" ELSE "idle"]
  /\ received = [c \in Clients |-> <<>>]
  /\ freed = {}
  /\ owner = [f \in Names |-> NoClient]
  /\ snapshot = [c \in Clients |-> <<>>]
  /\ disturbed = {} /\ clipped = {}
-----------------------------------------------------------------------------
\* The client.
Over == {"ok", "error", "invalid", "refused", "dead", "absent"}
Moves(c, to) == client' = [client EXCEPT ![c] = to]
ServerStays == UNCHANGED <<request, up, busy, conn, fs, freed, marks>>
Dies(c) == /\ Moves(c, "dead")
           /\ net' = [net EXCEPT ![c].eof = TRUE]

Connect(c) ==
  /\ client[c] = "idle"
  /\ IF up THEN Moves(c, "sending") /\ backlog' = backlog \cup {c}
     ELSE Moves(c, "refused") /\ UNCHANGED backlog
  /\ UNCHANGED <<net, received>> /\ ServerStays

\* send_to_server, a unit at a time; sending to a closed socket kills.
ClientSend(c) ==
  /\ client[c] = "sending" /\ net[c].sent <= request[c].units
  /\ IF net[c].shut THEN Dies(c)
     ELSE net' = [net EXCEPT ![c].sent = @ + 1] /\ UNCHANGED client
  /\ UNCHANGED <<backlog, received>> /\ ServerStays

ClientShutdown(c) ==
  /\ client[c] = "sending" /\ net[c].sent > request[c].units
  /\ net' = [net EXCEPT ![c].eof = TRUE]
  /\ Moves(c, "waiting")
  /\ UNCHANGED <<backlog, received>> /\ ServerStays

ClientDies(c) ==
  /\ c \in Mortals /\ client[c] \in {"sending", "waiting"}
  /\ Dies(c)
  /\ UNCHANGED <<backlog, received>> /\ ServerStays

\* Fault: the client takes whatever has come up to the end.
AcceptedAnyLength(verb, out) == out # <<>> /\ out[1] = "OK"

\* get_from_server: GET and LIST read up to the end and compare the length
\* with the size that was announced.  That it did not come is not noticed
\* (recvall returns a size_t, which is never negative): it is then 0.
Whole(verb) == verb \in {"GET", "LIST"}
SizeIn(out) == IF Len(out) > 1 THEN out[2] ELSE 0
DataOf(out) == SubSeq(out, 3, Len(out))
Accepted(verb, out) == /\ out # <<>> /\ out[1] = "OK"
                       /\ Whole(verb) => Len(DataOf(out)) = SizeIn(out)

GetFromServer(c) ==
  LET out == net[c].out
      verb == request[c].verb
      good == Accepted(verb, out)
  IN /\ client[c] = "waiting"
     /\ net[c].shut \/ (out # <<>> /\ (out[1] = "ERROR" \/ ~Whole(verb)))
     /\ Moves(c, IF out = <<>> THEN "invalid" ELSE IF good THEN "ok" ELSE "error")
     /\ received' = [received EXCEPT ![c] = IF good /\ Whole(verb) THEN DataOf(out) ELSE @]
     /\ UNCHANGED <<net, backlog>> /\ ServerStays

\* Closing a socket that has unread data resets the connection: the client may
\* lose the end of what was sent to it.
Reset(c) ==
  /\ client[c] \in {"sending", "waiting"}
  /\ net[c].shut /\ (conn[c] = NoConn \/ ~up) /\ net[c].sent > net[c].got
  /\ \E n \in 0..(Len(net[c].out) - 1) : net' = [net EXCEPT ![c].out = SubSeq(@, 1, n)]
  /\ UNCHANGED <<backlog, people>> /\ ServerStays
-----------------------------------------------------------------------------
\* The server.
Readable(c) == net[c].sent > net[c].got \/ net[c].eof
Event(c, state) == /\ up /\ busy \in {NoClient, c}
                   /\ conn[c] # NoConn /\ Readable(c)
                   /\ conn[c].state = state

\* recvall when nothing more is on its way, or the socket does not block.
Arrived(c) == IF net[c].sent - net[c].got < DataSize THEN net[c].sent - net[c].got ELSE DataSize
Update(c, info) == conn' = [conn EXCEPT ![c] = info]

Accept(c) ==
  /\ up /\ busy = NoClient /\ c \in backlog
  /\ backlog' = backlog \ {c}
  /\ Update(c, [state |-> "READING_VERB", req |-> request[c], fp |-> NoFile, error_type |-> -1,
                buffer_size |-> 0, boffset |-> 0, req_size |-> 0, file_offset |-> 0])
  /\ UNCHANGED <<request, up, busy, net, fs, people, freed, marks>>

CleanupClient(c) ==
  /\ conn' = [conn EXCEPT ![c] = NoConn]
  /\ freed' = freed \cup {c}
  /\ net' = [net EXCEPT ![c].shut = TRUE]

HangUp(c) ==
  /\ up /\ busy = NoClient /\ conn[c] # NoConn
  /\ client[c] = "dead" \/ (net[c].shut /\ net[c].eof)
  /\ CleanupClient(c)
  /\ UNCHANGED <<request, up, backlog, busy, fs, people, marks>>

BlockInRecvall(c) ==
  /\ Event(c, "READING_VERB") /\ busy = NoClient
  /\ ~net[c].eof /\ Arrived(c) < DataSize
  /\ busy' = c
  /\ UNCHANGED <<request, up, backlog, conn, net, fs, people, freed, marks>>

\* Without a byte received, the buffer is what malloc left in it: any verb of
\* a client that was freed before, or none.
BadRequest == [verb |-> "OTHER", name |-> CHOOSE f \in Names : TRUE, size |-> 0, units |-> 0]
Parsed(c) == IF Arrived(c) > 0 THEN {request[c]} ELSE {BadRequest} \cup {request[d] : d \in freed}

ReadVerb(c) ==
  /\ Event(c, "READING_VERB")
  /\ net[c].eof \/ Arrived(c) = DataSize
  /\ busy' = NoClient
  /\ net' = [net EXCEPT ![c].got = @ + Arrived(c)]
  /\ \E r \in Parsed(c) :
       Update(c, [conn[c] EXCEPT !.buffer_size = Arrived(c), !.boffset = 1, !.req = r,
                    !.state = IF r.verb \in {"GET", "PUT", "DELETE"} THEN "READING_FILENAME"
                              ELSE "WRITING_RESPONSE",
                    !.error_type = IF r.verb = "OTHER" THEN 0 ELSE -1])
  /\ UNCHANGED <<request, up, backlog, fs, people, freed, marks>>

\* The GETs that a change of inode i disturbs.
GetsOf(i) == {d \in Clients : /\ conn[d] # NoConn /\ conn[d].req.verb = "GET"
                              /\ conn[d].fp # NoFile /\ conn[d].fp.inode = i}

\* Client c writes to inode i and, if f is a name, removes f.
Touch(c, i, f) ==
  /\ disturbed' = disturbed \cup GetsOf(i)
  /\ owner' = [g \in Names |-> IF g = f \/ (dir[g] = i /\ owner[g] # c) THEN NoClient ELSE owner[g]]
  /\ UNCHANGED <<snapshot, clipped>>

\* fopen with "wb": the file is emptied, or made.
OpenForPut(c) ==
  LET f == conn[c].req.name
      i == IF dir[f] = NoInode THEN c ELSE dir[f]
  IN /\ dir' = [dir EXCEPT ![f] = i]
     /\ content' = [content EXCEPT ![i] = <<>>]
     /\ disturbed' = disturbed \cup GetsOf(i)
     /\ owner' = [owner EXCEPT ![f] = c]
     /\ UNCHANGED <<snapshot, clipped>>
     /\ Update(c, [conn[c] EXCEPT !.state = "READING_SIZE", !.file_offset = 0,
                                  !.fp = [inode |-> i, pos |-> 0, pending |-> <<>>]])

OpenForGet(c) ==
  LET i == dir[conn[c].req.name]
  IN /\ Update(c, [conn[c] EXCEPT !.state = "WRITING_RESPONSE", !.file_offset = 0,
                                  !.fp = [inode |-> i, pos |-> 0, pending |-> <<>>]])
     /\ snapshot' = [snapshot EXCEPT ![c] = content[i]]
     /\ UNCHANGED <<fs, owner, disturbed, clipped>>

RemoveFile(f) == dir' = [dir EXCEPT ![f] = NoInode] /\ owner' = [owner EXCEPT ![f] = NoClient]

ReadFilename(c) ==
  LET r == conn[c].req
      missing == dir[r.name] = NoInode
  IN /\ Event(c, "READING_FILENAME")
     /\ \/ r.verb = "PUT" /\ r.name \notin BadNames /\ OpenForPut(c)
        \/ r.verb = "GET" /\ ~missing /\ OpenForGet(c)
        \/ /\ r.verb = "DELETE" /\ ~missing
           /\ RemoveFile(r.name)
           /\ Update(c, [conn[c] EXCEPT !.state = "WRITING_RESPONSE"])
           /\ UNCHANGED <<content, snapshot, disturbed, clipped>>
        \/ /\ r.verb \in {"GET", "DELETE"} /\ missing
           /\ Update(c, [conn[c] EXCEPT !.state = "WRITING_RESPONSE", !.error_type = 2])
           /\ UNCHANGED <<fs, marks>>
     /\ UNCHANGED <<request, up, backlog, busy, net, people, freed>>

PutOpenFails(c) ==
  /\ Event(c, "READING_FILENAME")
  /\ conn[c].req.verb = "PUT" /\ conn[c].req.name \in BadNames
  /\ CleanupClient(c)
  /\ UNCHANGED <<request, up, backlog, busy, fs, people, marks>>

ReadSize(c) ==
  /\ Event(c, "READING_SIZE")
  /\ Update(c, [conn[c] EXCEPT !.req_size = conn[c].req.size, !.state = "READING_DATA"])
  /\ UNCHANGED <<request, up, backlog, busy, net, fs, people, freed, marks>>

\* The contents of a file after units were written at pos; a gap has zeros.
Overlay(file, pos, units) ==
  LET end == IF pos + Len(units) > Len(file) THEN pos + Len(units) ELSE Len(file)
  IN IF units = <<>> THEN file
     ELSE [n \in 1..end |-> IF n > pos /\ n <= pos + Len(units) THEN units[n - pos]
                            ELSE IF n <= Len(file) THEN file[n] ELSE Hole]

\* One READING_DATA event: fseek writes what the last fwrite left pending and
\* goes to the end; the units in the buffer are written there, pending until
\* the next fseek or fclose.
AfterSeek(c) == Overlay(content[conn[c].fp.inode], conn[c].fp.pos, conn[c].fp.pending)

\* Fault: the file of a PUT that is complete is not closed.
NotClosed(file, units) == file

Closed(file, units) == Overlay(file, Len(file), units)

\* Fault: an empty buffer is no error.
FailedTooLong(size, in_buffer, missing) == in_buffer > missing

\* The request ended before its data, or has too much of them.
Failed(size, in_buffer, missing) == size = 0 \/ in_buffer > missing

ReadData(c) ==
  LET info == conn[c]
      refill == info.buffer_size = 0
      size == IF refill THEN Arrived(c) ELSE info.buffer_size
      in_buffer == size - IF refill THEN 0 ELSE info.boffset
      missing == info.req_size - info.file_offset
      count == IF in_buffer > missing THEN missing ELSE in_buffer
      units == [n \in 1..count |-> <<c, info.file_offset + n>>]
      file == AfterSeek(c)
      failed == Failed(size, in_buffer, missing)
      done == count = missing
      i == info.fp.inode
  IN /\ Event(c, "READING_DATA")
     /\ net' = [net EXCEPT ![c].got = IF refill THEN @ + size ELSE @]
     /\ content' = [content EXCEPT ![i] = IF size # 0 /\ done THEN Closed(file, units) ELSE file]
     /\ Update(c, [info EXCEPT
          !.state = IF failed \/ done THEN "WRITING_RESPONSE" ELSE "READING_DATA",
          !.error_type = IF failed THEN 1 ELSE -1,
          !.buffer_size = 0, !.boffset = 0, !.file_offset = @ + count,
          !.fp = IF failed \/ done THEN NoFile
                 ELSE [inode |-> i, pos |-> Len(file), pending |-> units]])
     /\ dir' = IF failed THEN [dir EXCEPT ![info.req.name] = NoInode] ELSE dir
     /\ Touch(c, i, IF failed THEN info.req.name ELSE NoClient)
     /\ UNCHANGED <<request, up, backlog, busy, people, freed>>

\* sendall of data: a send that fits only in part is started again with the
\* first unit (here at most once), until one fits or finds no room at all.
Beginnings(units) == {SubSeq(units, 1, n) : n \in 0..Len(units)}
SendAll(units) ==
  {units} \cup {short \o again : short \in Beginnings(units) \ {units}, again \in Beginnings(units)}

Reply(c, out) == net' = [net EXCEPT ![c].out = @ \o out]

WriteError(c) == /\ conn[c].error_type # -1
                 /\ Reply(c, <<"ERROR">>)
                 /\ Update(c, [conn[c] EXCEPT !.state = "COMPLETE"])
                 /\ UNCHANGED marks

WriteOk(c) == /\ conn[c].error_type = -1 /\ conn[c].req.verb \in {"PUT", "DELETE"}
              /\ Reply(c, <<"OK">>)
              /\ Update(c, [conn[c] EXCEPT !.state = "COMPLETE"])
              /\ UNCHANGED marks

\* GET, while nothing has been sent, and LIST: the status, the size, the data.
SendStatus(c) == /\ conn[c].error_type = -1
                 /\ conn[c].req.verb = "LIST" \/ (conn[c].req.verb = "GET" /\ conn[c].file_offset = 0)
                 /\ Reply(c, <<"OK">>)
                 /\ Update(c, [conn[c] EXCEPT !.state = "SENDING_SIZE"])
                 /\ UNCHANGED marks

SendSize(c) ==
  LET size == IF conn[c].req.verb = "GET" THEN Len(content[conn[c].fp.inode]) ELSE 1
  IN /\ Event(c, "SENDING_SIZE")
     /\ Reply(c, <<size>>)
     /\ Update(c, [conn[c] EXCEPT !.req_size = size, !.state = "SENDING_DATA"])
     /\ UNCHANGED <<request, up, backlog, busy, fs, people, freed, marks>>

ListResponse(c) ==
  LET names == {f \in Names : dir[f] # NoInode}
  IN /\ Event(c, "SENDING_DATA") /\ conn[c].req.verb = "LIST"
     /\ Reply(c, <<names>>)
     /\ Update(c, [conn[c] EXCEPT !.state = "COMPLETE"])
     /\ UNCHANGED marks

\* send_get_response after the size, or in a later event: a buffer.
SendGetResponse(c) ==
  LET info == conn[c]
      file == content[info.fp.inode]
      end == IF info.file_offset + DataSize < info.req_size THEN info.file_offset + DataSize ELSE info.req_size
      units == SubSeq(file, info.file_offset + 1, IF end < Len(file) THEN end ELSE Len(file))
      complete == info.file_offset + Len(units) >= info.req_size
  IN /\ \/ Event(c, "SENDING_DATA")
        \/ Event(c, "WRITING_RESPONSE") /\ info.error_type = -1 /\ info.file_offset > 0
     /\ info.req.verb = "GET"
     /\ \E sent \in SendAll(units) :
          /\ Reply(c, sent)
          /\ clipped' = IF sent = units THEN clipped ELSE clipped \cup {c}
     /\ Update(c, [info EXCEPT !.file_offset = @ + Len(units),
                               !.fp = IF complete THEN NoFile ELSE @,
                               !.state = IF complete THEN "COMPLETE" ELSE "WRITING_RESPONSE"])
     /\ UNCHANGED <<owner, snapshot, disturbed>>

WriteResponse(c) ==
  /\ Event(c, "WRITING_RESPONSE")
  /\ \/ WriteError(c) /\ UNCHANGED busy
     \/ WriteOk(c) /\ UNCHANGED busy
     \/ SendStatus(c) /\ busy' = c
  /\ UNCHANGED <<request, up, backlog, fs, people, freed>>

SendData(c) ==
  /\ ListResponse(c) \/ SendGetResponse(c)
  /\ busy' = NoClient
  /\ UNCHANGED <<request, up, backlog, fs, people, freed>>

ShutDown(c) ==
  /\ Event(c, "COMPLETE") /\ ~net[c].shut
  /\ net' = [net EXCEPT ![c].shut = TRUE]
  /\ UNCHANGED <<request, up, backlog, busy, conn, fs, people, freed, marks>>

\* SIGINT: the sockets are closed; the files are removed, unless what the
\* array of events holds (line 69) breaks the cleanup before.
Interrupt ==
  /\ up
  /\ up' = FALSE /\ backlog' = {}
  /\ net' = [c \in Clients |-> [net[c] EXCEPT !.shut = TRUE]]
  /\ dir' \in {dir, [f \in Names |-> NoInode]}
  /\ UNCHANGED <<request, busy, conn, content, people, freed, marks>>

Serve(c) == \/ BlockInRecvall(c) \/ ReadVerb(c) \/ ReadFilename(c) \/ PutOpenFails(c)
            \/ ReadSize(c) \/ ReadData(c) \/ WriteResponse(c) \/ SendSize(c) \/ SendData(c)
            \/ ShutDown(c)
ClientStep(c) == ClientSend(c) \/ ClientShutdown(c) \/ GetFromServer(c)

ServerNext == \/ Interrupt
              \/ \E c \in Clients : \/ Connect(c) \/ ClientStep(c) \/ ClientDies(c) \/ Reset(c)
                                    \/ Accept(c) \/ HangUp(c) \/ Serve(c)

\* Level-triggered epoll comes back to every connection that is ready, and
\* clients that live go on.
ServerFairness == \A c \in Clients : /\ WF_serverVars(Connect(c) \/ ClientStep(c))
                                     /\ WF_serverVars(Accept(c))
                                     /\ WF_serverVars(HangUp(c) \/ Serve(c))

ServerSpec == ServerInit /\ [][ServerNext]_serverVars /\ ServerFairness
-----------------------------------------------------------------------------
\* A PUT that was answered with OK has stored its data, unless another client
\* opened, wrote or removed the file: over a transfer that is taken in pieces
\* and written out one event late (server.c:412-471).
PutIsStored ==
  \A c \in Clients :
    (up /\ client[c] = "ok" /\ request[c].verb = "PUT" /\ owner[request[c].name] = c)
      => LET i == dir[request[c].name]
         IN i # NoInode /\ content[i] = [n \in 1..request[c].size |-> <<c, n>>]

\* The client was told nothing but "OK", which only the end of the server or of
\* a connection with unread data can do: it takes that for an empty file.
Headless(c) == Len(net[c].out) = 1 /\ (~up \/ net[c].sent > net[c].got)

\* A GET that the client accepts delivered the file as it was when it was
\* opened, unless the file was written meanwhile, a send was cut short or the
\* answer ended before the size (server.c:241-280, client.c:79-125).
GotRight(c) == client[c] = "ok" /\ request[c].verb = "GET" /\ c \notin disturbed /\ ~Headless(c)
                 => received[c] = snapshot[c]
GetDeliversFile == \A c \in Clients \ clipped : GotRight(c)

\* The same of every GET: a send that is cut short sends its first units
\* twice, or drops its last ones (common.c:14-22), and the client compares
\* lengths only.
EveryGetDelivers == \A c \in Clients : GotRight(c)

\* Clients other than those that GET come to an end, however the others
\* fail, and although a GET of a file that became shorter never ends.
OthersAreServed ==
  \A c \in Clients : (client[c] # "absent" /\ request[c].verb # "GET") => <>(client[c] \in Over)
=============================================================================
