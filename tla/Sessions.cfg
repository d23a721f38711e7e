\* One user with a browser page of two requests and a phone, two calls on the server.
SPECIFICATION Spec
CONSTANTS
    u1 = u1 web = web app = app p1 = p1 p2 = p2 q1 = q1 q2 = q2 q3 = q3
    t1 = t1 t2 = t2 t3 = t3 t4 = t4 c1 = c1 c2 = c2
    Null = Null
    Users = {u1}
    Devices = {web, app}
    Phones = {app}
    Tabs = {p1, p2}
    Reqs = {q1, q2, q3}
    DeviceOf <- WebAndPhone
    TabOf <- Both
    Tokens = {t1, t2, t3, t4}
    Calls = {c1, c2}
    MaxEvents = 3
CHECK_DEADLOCK FALSE
INVARIANTS OneLivePerFamily EndedStaysEnded NoneParked
PROPERTIES NoCauselessLogout
SYMMETRY Symmetry
