CONSTANTS
 None=None
 Id={e1}
 Server={main,battle}
 First=main
 Fallback=main
 Call={c1,c2}
 MaxMoves=3
SPECIFICATION Spec
PROPERTY ImportsWhereOpened
