\* Two drivers, two trips and one handler at a time.
SPECIFICATION DriverSpec
CONSTANTS
  DriverIds = {d1, d2}
  DriverTrips = {x1, x2}
  Handlers = {h1}
  NoOne = NoOne
\* A carrier whose drivers and trips have nothing left to do stops.
CHECK_DEADLOCK FALSE
PROPERTY TripEndFreesDriver
