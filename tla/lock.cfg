SPECIFICATION FairSpec
CONSTANTS
  reply = reply
  notice = notice
  console = console
  archive = archive
  server = server
  background = background
  own = own
  Tasks = {reply, notice, console, archive}
  Threads = {archive}
  Loops = {server, background, own}
  LoopOf <- MCLoopOf
  Transient = {own, server}
INVARIANTS ExclusiveWhileOpen NeverLost
PROPERTIES NoOvertaking WaitersServed
CHECK_DEADLOCK FALSE
